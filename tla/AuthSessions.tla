----------------------------- MODULE AuthSessions -----------------------------
(***************************************************************************)
(* Sessions and roles: login, refresh, logout and the reading of the       *)
(* current user in backend/app/auth/service.py over auth/repository.py,    *)
(* the administration of users in admin/repository.py and                  *)
(* admin/bootstrap.py, and the notification socket that checks its session *)
(* before each frame (notifications/socket.py).                            *)
(*                                                                         *)
(* Every statement of the authentication code is a transaction or a read   *)
(* of its own, so that other requests act between any two of them.  The    *)
(* administration's transactions hold one advisory lock and the rows of    *)
(* the users, and are single steps.  What a login checks besides the user  *)
(* being active is in Credentials.                                         *)
(***************************************************************************)
EXTENDS Naturals

CONSTANTS
  Users,       \* accounts, all with a verified address
  Sessions,    \* the jtis of refresh tokens, each drawn once
  Requests,    \* API requests and sockets at one time
  NoUser, NoSession

ASSUME SessionsAssumption == NoUser \notin Users /\ NoSession \notin Sessions

VARIABLES
  user,     \* users: role and is_active
  session,  \* refresh_tokens by jti, with the login each descends from
  request,  \* where each request stands, what it has read, and how many frames
            \* it sent after its session had ended
  ended     \* logins whose live session was logged out or revoked

svars == <<user, session, request, ended>>

Role == {"trader", "admin"}
\* of a row of refresh_tokens: none yet, revoked_at IS NULL, or revoked_at set.
\* A token that expires is for every statement like one that is revoked.
SessionState == {"none", "live", "revoked"}

Token == [state: SessionState, of: Users \cup {NoUser}, login: Sessions \cup {NoSession}]
Call == [pc: {"idle", "issue", "owner", "consume", "sid", "admin",
              "socketUser", "socketSid", "send", "wait"},
         of: Users \cup {NoUser}, sid: Sessions \cup {NoSession}, late: Nat]

Unissued == [state |-> "none", of |-> NoUser, login |-> NoSession]
Idle == [pc |-> "idle", of |-> NoUser, sid |-> NoSession, late |-> 0]

SessionsTypeOK ==
  /\ user \in [Users -> [role: Role, active: BOOLEAN]]
  /\ session \in [Sessions -> Token]
  /\ request \in [Requests -> Call]
  /\ ended \subseteq Sessions

-----------------------------------------------------------------------------

Issued == {s \in Sessions : session[s].state # "none"}
LiveOf(u) == {s \in Sessions : session[s].state = "live" /\ session[s].of = u}
Logins(S) == {session[s].login : s \in S}

Goto(r, next) == request' = [request EXCEPT ![r] = next]
Answer(r) == Goto(r, Idle)

Usable(s) == session[s].state = "live"
Revoked(S) == [s \in Sessions |->
  IF s \in S THEN [session[s] EXCEPT !.state = "revoked"] ELSE session[s]]

\* Mutant of Unspent: the token was valid when it was read.
SpentBefore(s) == session[s].state # "none"

\* consume_refresh_token's WHERE clause
Unspent(s) == Usable(s)

(***************************************************************************)
(* login: the account is read, and the token pair is stored later, by      *)
(* _issue_token_pair.  A refresh ends with the same step.  `sid` is the    *)
(* token that is rotated, or NoSession.                                    *)
(***************************************************************************)
Login(r, u) ==
  /\ request[r].pc = "idle"
  /\ user[u].active
  /\ Goto(r, [Idle EXCEPT !.pc = "issue", !.of = u])
  /\ UNCHANGED <<user, session, ended>>

Unused(s) == session[s].state = "none"

Saved(s, u, parent) ==
  [session EXCEPT ![s] =
     [state |-> "live", of |-> u,
      login |-> IF parent = NoSession THEN s ELSE session[parent].login]]

IssueTokenPair(r, s) ==
  /\ request[r].pc = "issue"
  /\ Unused(s)
  /\ session' = Saved(s, request[r].of, request[r].sid)
  /\ Answer(r)
  /\ UNCHANGED <<user, ended>>

(***************************************************************************)
(* refresh: the token's row, the user's row, and the update that uses the  *)
(* token up, each on its own.                                              *)
(***************************************************************************)
ReadToken(r, s) ==
  /\ request[r].pc = "idle"
  /\ Usable(s)
  /\ Goto(r, [Idle EXCEPT !.pc = "owner", !.sid = s, !.of = session[s].of])
  /\ UNCHANGED <<user, session, ended>>

ReadOwner(r) ==
  /\ request[r].pc = "owner"
  /\ IF user[request[r].of].active
     THEN Goto(r, [request[r] EXCEPT !.pc = "consume"])
     ELSE Answer(r)
  /\ UNCHANGED <<user, session, ended>>

ConsumeToken(r) ==
  LET s == request[r].sid IN
  /\ request[r].pc = "consume"
  /\ IF Unspent(s)
     THEN session' = Revoked({s}) /\ Goto(r, [request[r] EXCEPT !.pc = "issue"])
     ELSE UNCHANGED session /\ Answer(r)
  /\ UNCHANGED <<user, ended>>

\* logout revokes the token it is given, not the one that replaced it.
Logout(s) ==
  /\ Usable(s)
  /\ session' = Revoked({s})
  /\ ended' = ended \cup Logins({s})
  /\ UNCHANGED <<user, request>>

(***************************************************************************)
(* current_user reads the row of the user, then the row of the session.    *)
(* Every authenticated request starts like this.  Followed further are     *)
(* those of administrators, which get_admin_user lets pass by the role     *)
(* that was read, and the socket.  A token of no live session is refused   *)
(* at the second read at the latest, and is not followed.                  *)
(***************************************************************************)
Accepts(u, s) == user[u].active /\ session[s].of = u /\ Usable(s)

\* the user named by the access token that was issued with s
Bearer(s) == session[s].of

Calls(r, s, pc) ==
  /\ request[r].pc = "idle"
  /\ Accepts(Bearer(s), s)
  /\ Goto(r, [Idle EXCEPT !.pc = pc, !.sid = s, !.of = Bearer(s)])
  /\ UNCHANGED <<user, session, ended>>

ReadCaller(r, s) == Calls(r, s, "sid") /\ user[Bearer(s)].role = "admin"

ReadSession(r) ==
  /\ request[r].pc = "sid"
  /\ IF Usable(request[r].sid)
     THEN Goto(r, [request[r] EXCEPT !.pc = "admin"])
     ELSE Answer(r)
  /\ UNCHANGED <<user, session, ended>>

(***************************************************************************)
(* AdminRepository.update_user, one transaction.  Whether the target has   *)
(* bots to stop first is a choice: such a call changes nothing.            *)
(***************************************************************************)
IsAdmin(u) == user[u].active /\ user[u].role = "admin"

\* Mutant of ActorAllowed: it is enough that the route let the actor pass.
ActorPassed(u) == TRUE

ActorAllowed(u) == IsAdmin(u)

RevokeAll(u) ==
  /\ session' = Revoked(LiveOf(u))
  /\ ended' = ended \cup Logins(LiveOf(u))

UpdateUser(r, u, role, active) ==
  LET actor == request[r].of IN
  /\ request[r].pc = "admin"
  /\ ActorAllowed(actor)
  /\ actor = u => role = "admin" /\ active
  /\ user' = [user EXCEPT ![u] = [role |-> role, active |-> active]]
  /\ IF ~active \/ role # user[u].role
     THEN RevokeAll(u) ELSE UNCHANGED <<session, ended>>
  /\ Answer(r)

\* python -m app.admin.bootstrap: the first administrator.
Bootstrap(u) ==
  /\ ~ \E a \in Users : IsAdmin(a)
  /\ user[u].active
  /\ user' = [user EXCEPT ![u].role = "admin"]
  /\ RevokeAll(u)
  /\ UNCHANGED request

(***************************************************************************)
(* notification_socket: the token of the first frame is checked by         *)
(* current_user before each snapshot; after a frame the socket waits for   *)
(* five seconds.  A failed check closes it.                                *)
(***************************************************************************)
\* Mutant of NextRound: the token is checked when the socket opens only.
RoundUnchecked == "send"

NextRound == "socketUser"

OpenSocket(r, s) == Calls(r, s, "socketSid")

SnapshotUser(r) ==
  /\ request[r].pc = "socketUser"
  /\ IF user[request[r].of].active
     THEN Goto(r, [request[r] EXCEPT !.pc = "socketSid"])
     ELSE Answer(r)
  /\ UNCHANGED <<user, session, ended>>

SnapshotSession(r) ==
  /\ request[r].pc = "socketSid"
  /\ IF Usable(request[r].sid)
     THEN Goto(r, [request[r] EXCEPT !.pc = "send"])
     ELSE Answer(r)
  /\ UNCHANGED <<user, session, ended>>

SendFrame(r) ==
  /\ request[r].pc = "send"
  /\ Goto(r, [request[r] EXCEPT !.pc = "wait",
                !.late = IF Usable(request[r].sid) THEN 0 ELSE @ + 1])
  /\ UNCHANGED <<user, session, ended>>

WaitOver(r) ==
  /\ request[r].pc = "wait"
  /\ Goto(r, [request[r] EXCEPT !.pc = NextRound])
  /\ UNCHANGED <<user, session, ended>>

\* A client goes away, the database fails, the process dies, or a login or
\* an update is refused for a reason that is not modelled here.
Abandon(r) ==
  /\ request[r].pc # "idle"
  /\ Answer(r)
  /\ UNCHANGED <<user, session, ended>>

-----------------------------------------------------------------------------

SessionsInit ==
  /\ user = [u \in Users |-> [role |-> "trader", active |-> TRUE]]
  /\ session = [s \in Sessions |-> Unissued]
  /\ request = [r \in Requests |-> Idle]
  /\ ended = {}

RequestStep(r) ==
  \/ \E u \in Users : Login(r, u)
  \/ \E s \in Issued : ReadToken(r, s) \/ ReadCaller(r, s) \/ OpenSocket(r, s)
  \/ \E s \in Sessions : IssueTokenPair(r, s)
  \/ ReadOwner(r) \/ ConsumeToken(r) \/ ReadSession(r)
  \/ \E u \in Users, role \in Role, active \in BOOLEAN : UpdateUser(r, u, role, active)
  \/ SnapshotUser(r) \/ SnapshotSession(r) \/ SendFrame(r) \/ WaitOver(r)
  \/ Abandon(r)

SessionsNext ==
  \/ \E r \in Requests : RequestStep(r)
  \/ \E s \in Sessions : Logout(s)
  \/ \E u \in Users : Bootstrap(u)

SessionsSpec == SessionsInit /\ [][SessionsNext]_svars

-----------------------------------------------------------------------------
(***************************************************************************)
(* Properties                                                              *)
(***************************************************************************)

\* No two live tokens descend from one login.
OneSessionPerLogin ==
  \A s, t \in Sessions :
    Usable(s) /\ Usable(t) /\ session[s].login = session[t].login => s = t

\* No token descends from a login that has ended.
EndedLoginsStayEnded == \A s \in Sessions : Usable(s) => session[s].login \notin ended

\* A login is one session at a time, however many requests rotate its token
\* at once, and a login whose current token was logged out, or revoked by an
\* administrator, has ended: a rotation that had read the token before does
\* not revive it (service.py refresh, repository.py consume_refresh_token).
RotationIsExclusive == SessionsTypeOK /\ OneSessionPerLogin /\ EndedLoginsStayEnded

\* Once there is an administrator there is always an active one, although
\* administrators may demote and deactivate each other in requests that
\* passed the route's check before (admin/repository.py update_user).
AdminRemains ==
  (\E u \in Users : user[u].role = "admin") => \E u \in Users : IsAdmin(u)

\* After its session has ended a socket sends at most the frame whose
\* snapshot it had taken (socket.py: "Revalidate account status and token
\* expiry before each snapshot").
SocketFallsSilent == \A r \in Requests : request[r].late <= 1

\* "Already-issued access tokens remain valid until their configured expiry"
\* (README.md:450): a token of a logged out session is accepted as long as
\* its user is active.
AccessOutlivesLogout ==
  \A s \in Issued :
    session[s].login \in ended /\ user[Bearer(s)].active => Accepts(Bearer(s), s)
===============================================================================
