---------------------------- MODULE AccountsProofs ----------------------------
(***************************************************************************)
(* For any number of users, tokens and concurrent requests: a login is one *)
(* session that stays ended, an administrator remains, and a socket sends  *)
(* at most one frame after its session has ended (AuthSessions); guesses   *)
(* are bounded, a two-factor secret that is in use stays, and no mail is   *)
(* sent to a verified address (Credentials).                               *)
(*                                                                         *)
(* The first invariant follows each login along its tokens.  A             *)
(* login is carried by its live token, or, between consume_refresh_token   *)
(* and save_refresh_token, by the request that has used the token up.      *)
(* There is at most one carrier, none once the login has ended, and a      *)
(* token that is not issued yet is nobody's login.                         *)
(***************************************************************************)
EXTENDS AuthSessions, Credentials, FiniteSetTheorems, TLAPS

\* r has used up a token of login l and is about to issue its successor.
Rotating(r, l) ==
  /\ request[r].pc = "issue"
  /\ request[r].sid # NoSession
  /\ session[request[r].sid].login = l

\* A row is empty until it is issued; then its owner is a user and its login
\* an issued token.
RowsInv ==
  \A s \in Sessions :
    \/ session[s].state = "none"
    \/ /\ session[s].state \in {"live", "revoked"}
       /\ session[s].of \in Users
       /\ session[s].login \in Sessions
       /\ session[session[s].login].state # "none"

EndedInv == \A l \in ended : session[l].state # "none"

\* A request under way has a user, and its token, if any, was issued.
RequestInv(r) ==
  /\ request[r].pc # "idle" => request[r].of \in Users
  /\ request[r].pc \notin {"idle", "issue"} => request[r].sid # NoSession
  /\ request[r].sid # NoSession => session[request[r].sid].state # "none"

RequestsInv == \A r \in Requests : RequestInv(r)

\* A request that rotates a login is its only carrier.
RotationInv ==
  \A r \in Requests, l \in Sessions :
    Rotating(r, l) =>
      /\ l \notin ended
      /\ \A s \in Sessions : Usable(s) => session[s].login # l
      /\ \A q \in Requests : Rotating(q, l) => q = r

SessionsInv ==
  /\ SessionsTypeOK
  /\ RowsInv
  /\ EndedInv
  /\ RequestsInv
  /\ OneSessionPerLogin
  /\ EndedLoginsStayEnded
  /\ RotationInv

\* A socket that has sent a late frame will find its session ended.
LateInv ==
  \A r \in Requests :
    request[r].late # 0 =>
      /\ request[r].late = 1
      /\ request[r].pc \in {"wait", "socketUser", "socketSid"}
      /\ session[request[r].sid].state = "revoked"

-----------------------------------------------------------------------------

LEMMA InitSessions == SessionsInit => SessionsInv /\ LateInv
<1> SUFFICES ASSUME SessionsInit PROVE SessionsInv /\ LateInv
  OBVIOUS
<1>1. SessionsTypeOK
  BY DEF SessionsInit, SessionsTypeOK, Role, SessionState, Token, Call, Unissued, Idle
<1>2. RowsInv /\ EndedInv /\ RequestsInv
  BY DEF SessionsInit, RowsInv, EndedInv, RequestsInv, RequestInv, Unissued, Idle
<1>3. OneSessionPerLogin /\ EndedLoginsStayEnded /\ RotationInv /\ LateInv
  BY DEF SessionsInit, OneSessionPerLogin, EndedLoginsStayEnded, RotationInv,
         LateInv, Rotating, Usable, Unissued, Idle
<1> QED BY <1>1, <1>2, <1>3 DEF SessionsInv

\* Revoking sets the state of the rows it names and leaves everything else.
LEMMA RevokedRows ==
  ASSUME session \in [Sessions -> Token], NEW S \in SUBSET Sessions
  PROVE  /\ Revoked(S) \in [Sessions -> Token]
         /\ \A s \in Sessions :
              /\ Revoked(S)[s].of = session[s].of
              /\ Revoked(S)[s].login = session[s].login
              /\ s \in S => Revoked(S)[s].state = "revoked"
              /\ s \notin S => Revoked(S)[s] = session[s]
BY DEF Revoked, Token, SessionState

\* A request that moves without rotating a token disturbs nothing.
LEMMA MoveRequest ==
  ASSUME SessionsInv, NEW r \in Requests, NEW x \in Call,
         user' \in [Users -> [role: Role, active: BOOLEAN]],
         UNCHANGED <<session, ended>>,
         request' = [request EXCEPT ![r] = x],
         x.pc = "issue" => x.sid = NoSession,
         x.pc # "idle" => x.of \in Users,
         x.pc \notin {"idle", "issue"} => x.sid # NoSession,
         x.sid # NoSession => session[x.sid].state # "none"
  PROVE  SessionsInv'
<1> USE DEF SessionsInv
<1>1. SessionsTypeOK'
  BY DEF SessionsTypeOK
<1>2. RowsInv' /\ EndedInv' /\ OneSessionPerLogin' /\ EndedLoginsStayEnded'
  BY DEF RowsInv, EndedInv, OneSessionPerLogin, EndedLoginsStayEnded, Usable
<1>3. RequestsInv'
  BY DEF RequestsInv, RequestInv, SessionsTypeOK
<1>4. RotationInv'
  <2>1. \A q \in Requests, l \in Sessions : Rotating(q, l)' => Rotating(q, l)
    BY DEF Rotating, SessionsTypeOK
  <2> QED BY <2>1 DEF RotationInv, Usable
<1> QED BY <1>1, <1>2, <1>3, <1>4

\* Ending the logins of live tokens, while a request may be answered: those
\* that lose their tokens had no other carrier.
LEMMA EndLogins ==
  ASSUME SessionsInv, NEW S \in SUBSET Sessions, \A s \in S : Usable(s),
         user' \in [Users -> [role: Role, active: BOOLEAN]],
         session' = Revoked(S),
         ended' = ended \cup Logins(S),
         \/ UNCHANGED request
         \/ \E r \in Requests : request' = [request EXCEPT ![r] = Idle]
  PROVE  SessionsInv'
<1> USE DEF SessionsInv
<1>0. /\ session' \in [Sessions -> Token]
      /\ \A s \in Sessions :
           /\ session'[s].of = session[s].of
           /\ session'[s].login = session[s].login
           /\ s \in S => session'[s].state = "revoked"
           /\ s \notin S => session'[s] = session[s]
  BY RevokedRows DEF SessionsTypeOK
<1>1. /\ request' \in [Requests -> Call]
      /\ \A q \in Requests : request'[q] = request[q] \/ request'[q] = Idle
  <2>1. Idle \in Call
    BY DEF Idle, Call
  <2> QED BY <2>1 DEF SessionsTypeOK
<1>2. \A s \in Sessions : Usable(s)' => Usable(s) /\ s \notin S
  BY <1>0 DEF Usable
<1>3. \A s \in Sessions : session'[s].state = "none" <=> session[s].state = "none"
  BY <1>0 DEF Usable
<1>4. \A l \in Logins(S) : /\ l \in Sessions
                          /\ session[l].state # "none"
                          /\ \E t \in S : Usable(t) /\ session[t].login = l
  BY DEF Logins, RowsInv, Usable
<1>5. SessionsTypeOK'
  BY <1>0, <1>1, <1>4 DEF SessionsTypeOK
<1>6. RowsInv'
  BY <1>0, <1>3 DEF RowsInv
<1>7. EndedInv'
  BY <1>3, <1>4 DEF EndedInv, SessionsTypeOK
<1>8. RequestsInv'
  BY <1>1, <1>3 DEF RequestsInv, RequestInv, SessionsTypeOK, Call, Idle
<1>9. OneSessionPerLogin'
  BY <1>0, <1>2 DEF OneSessionPerLogin
<1>10. EndedLoginsStayEnded'
  BY <1>0, <1>2, <1>4 DEF OneSessionPerLogin, EndedLoginsStayEnded
<1>11. RotationInv'
  <2>1. \A q \in Requests, l \in Sessions : Rotating(q, l)' => Rotating(q, l)
    BY <1>0, <1>1 DEF Rotating, Idle, SessionsTypeOK, Call
  <2>2. \A q \in Requests, l \in Sessions : Rotating(q, l)' => l \notin Logins(S)
    BY <2>1, <1>4 DEF RotationInv
  <2> QED BY <2>1, <2>2, <1>0, <1>2 DEF RotationInv
<1> QED BY <1>5, <1>6, <1>7, <1>8, <1>9, <1>10, <1>11

\* The step with which r uses s up and goes on as x.
UsesUp(r, s, x) ==
  /\ session' = Revoked({s})
  /\ request' = [request EXCEPT ![r] = x]
  /\ UNCHANGED <<user, ended>>

\* Using a token up hands its login over to the request.
LEMMA HandOver ==
  ASSUME SessionsInv, NEW r \in Requests, NEW s \in Sessions, NEW l \in Sessions,
         NEW x \in Call,
         request[r].sid = s, session[s].login = l, Usable(s),
         x.pc = "issue", x.sid = s, x.of \in Users,
         UsesUp(r, s, x)
  PROVE  SessionsInv'
<1> USE DEF SessionsInv
<1>0. /\ session' \in [Sessions -> Token]
      /\ \A t \in Sessions :
           /\ session'[t].of = session[t].of
           /\ session'[t].login = session[t].login
           /\ t = s => session'[t].state = "revoked"
           /\ t # s => session'[t] = session[t]
  BY RevokedRows DEF SessionsTypeOK, UsesUp
<1>1. \A t \in Sessions : Usable(t)' => Usable(t) /\ t # s
  BY <1>0 DEF Usable
<1>8. \A t \in Sessions : session'[t].state = "none" <=> session[t].state = "none"
  BY <1>0 DEF Usable
<1>9. /\ request' \in [Requests -> Call]
      /\ request'[r] = x
      /\ \A q \in Requests : q # r => request'[q] = request[q]
      /\ user' = user /\ ended' = ended
  BY DEF SessionsTypeOK, UsesUp
<1>2. l \notin ended /\ \A q \in Requests : ~ Rotating(q, l)
  BY DEF EndedLoginsStayEnded, RotationInv
<1>3. SessionsTypeOK'
  BY <1>0, <1>9 DEF SessionsTypeOK
<1>4. RowsInv' /\ EndedInv'
  BY <1>0, <1>8, <1>9 DEF RowsInv, EndedInv, SessionsTypeOK
<1>5. RequestsInv'
  BY <1>8, <1>9 DEF RequestsInv, RequestInv, SessionsTypeOK, Call, Usable
<1>6. OneSessionPerLogin'
  BY <1>0, <1>1 DEF OneSessionPerLogin
<1>10. EndedLoginsStayEnded'
  BY <1>0, <1>1, <1>9 DEF EndedLoginsStayEnded
<1>7. RotationInv'
  <2>1. \A q \in Requests, m \in Sessions :
          Rotating(q, m)' => (q = r /\ m = l) \/ (q # r /\ m # l /\ Rotating(q, m))
    BY <1>0, <1>2, <1>9 DEF Rotating, SessionsTypeOK, Call
  <2>2. \A t \in Sessions : Usable(t)' => session'[t].login # l
    BY <1>0, <1>1 DEF OneSessionPerLogin
  <2>3. ASSUME NEW q \in Requests, NEW m \in Sessions, Rotating(q, m)'
        PROVE  /\ m \notin ended'
               /\ \A t \in Sessions : Usable(t)' => session'[t].login # m
               /\ \A k \in Requests : Rotating(k, m)' => k = q
    <3>1. CASE q = r /\ m = l
      BY <1>2, <1>9, <2>1, <2>2, <3>1
    <3>2. CASE q # r /\ m # l /\ Rotating(q, m)
      BY <1>0, <1>1, <1>9, <2>1, <3>2 DEF RotationInv
    <3> QED BY <2>1, <2>3, <3>1, <3>2
  <2> QED BY <2>3 DEF RotationInv
<1> QED BY <1>3, <1>4, <1>5, <1>6, <1>7, <1>10

LEMMA UseToken ==
  ASSUME SessionsInv, NEW r \in Requests, ConsumeToken(r)
  PROVE  SessionsInv'
<1>1. /\ request[r] \in Call
      /\ request[r].pc = "consume" /\ request[r].of \in Users
      /\ request[r].sid \in Sessions
      /\ UNCHANGED <<user, ended>>
  BY DEF ConsumeToken, SessionsInv, SessionsTypeOK, Call, RequestsInv, RequestInv
<1>2. CASE ~Unspent(request[r].sid)
  <2>1. session' = session /\ request' = [request EXCEPT ![r] = Idle]
    BY <1>2 DEF ConsumeToken, Answer, Goto
  <2>2. Idle \in Call /\ Idle.pc = "idle" /\ Idle.sid = NoSession
    BY DEF Idle, Call
  <2> QED BY <1>1, <2>1, <2>2, MoveRequest DEF SessionsInv, SessionsTypeOK
<1>3. CASE Unspent(request[r].sid)
  <2> PICK s \in Sessions : s = request[r].sid
    BY <1>1
  <2> PICK l : l = session[s].login
    OBVIOUS
  <2> PICK x : x = [request[r] EXCEPT !.pc = "issue"]
    OBVIOUS
  <2>1. session' = Revoked({s}) /\ request' = [request EXCEPT ![r] = x]
    BY <1>3 DEF ConsumeToken, Goto
  <2>2. x \in Call /\ x.pc = "issue" /\ x.sid = s /\ x.of \in Users
    BY <1>1 DEF Call
  <2>3. Usable(s) /\ l \in Sessions
    BY <1>3 DEF Unspent, Usable, SessionsInv, RowsInv
  <2> QED BY <1>1, <2>1, <2>2, <2>3, HandOver DEF UsesUp
<1> QED BY <1>2, <1>3

\* A new token either starts a login of its own or takes over from the
\* request that rotated its predecessor.
LEMMA IssueToken ==
  ASSUME SessionsInv, NEW r \in Requests, NEW s \in Sessions, IssueTokenPair(r, s)
  PROVE  SessionsInv'
<1> DEFINE p == request[r].sid
           l == IF p = NoSession THEN s ELSE session[p].login
<1> USE DEF SessionsInv
<1>0. /\ request[r] \in Call
      /\ request[r].pc = "issue" /\ request[r].of \in Users
      /\ p \in Sessions \cup {NoSession}
      /\ session[s].state = "none"
      /\ p # NoSession => session[p].state # "none"
      /\ user' = user /\ ended' = ended
      /\ request' = [request EXCEPT ![r] = Idle]
  BY DEF IssueTokenPair, Unused, SessionsTypeOK, Call, RequestsInv, RequestInv, Answer, Goto
<1>1. l \in Sessions /\ (l = s \/ session[l].state # "none")
  BY <1>0, SessionsAssumption DEF RowsInv
<1>2. session' = [session EXCEPT ![s] =
                    [state |-> "live", of |-> request[r].of, login |-> l]]
  BY DEF IssueTokenPair, Saved
<1>3. /\ session' \in [Sessions -> Token]
      /\ session'[s].state = "live" /\ session'[s].login = l
      /\ session'[s].of = request[r].of
      /\ \A t \in Sessions : t # s => session'[t] = session[t]
  BY <1>0, <1>1, <1>2 DEF SessionsTypeOK, Token, SessionState
<1>4. Idle \in Call /\ Idle.pc = "idle" /\ Idle.sid = NoSession
  BY DEF Idle, Call
\* nobody else carries l
<1>5. /\ l \notin ended
      /\ \A t \in Sessions : Usable(t) => session[t].login # l
      /\ \A q \in Requests : q # r => ~ Rotating(q, l)
  <2>1. CASE p = NoSession
    <3>1. l = s
      BY <2>1
    <3>2. \A q \in Requests : ~ Rotating(q, s)
      BY <1>0 DEF Rotating, RowsInv, RequestsInv, RequestInv, SessionsTypeOK, Call
    <3> QED BY <1>0, <3>1, <3>2 DEF EndedInv, RowsInv, Usable
  <2>2. CASE p # NoSession
    <3>1. Rotating(r, l)
      BY <1>0, <2>2 DEF Rotating
    <3> QED BY <1>1, <3>1 DEF RotationInv
  <2> QED BY <2>1, <2>2
<1>6. SessionsTypeOK'
  BY <1>0, <1>3, <1>4 DEF SessionsTypeOK
<1>7. RowsInv' /\ EndedInv'
  <2>1. \A t \in Sessions : session[t].state # "none" =>
          t # s /\ session'[t] = session[t]
    BY <1>0, <1>3
  <2>2. l = s \/ session'[l].state # "none"
    BY <1>1, <2>1
  <2>3. EndedInv'
    BY <1>0, <2>1 DEF EndedInv, SessionsTypeOK
  <2>4. ASSUME NEW t \in Sessions, session'[t].state # "none"
        PROVE  /\ session'[t].state \in {"live", "revoked"}
               /\ session'[t].of \in Users
               /\ session'[t].login \in Sessions
               /\ session'[session'[t].login].state # "none"
    <3>1. CASE t = s
      BY <1>0, <1>1, <1>3, <2>2, <3>1
    <3>2. CASE t # s
      BY <1>3, <2>1, <2>4, <3>2 DEF RowsInv
    <3> QED BY <3>1, <3>2
  <2> QED BY <2>3, <2>4 DEF RowsInv
<1>8. RequestsInv'
  BY <1>0, <1>3, <1>4 DEF RequestsInv, RequestInv, SessionsTypeOK, Call
<1>9. OneSessionPerLogin' /\ EndedLoginsStayEnded'
  BY <1>0, <1>3, <1>5 DEF OneSessionPerLogin, EndedLoginsStayEnded, Usable
<1>10. RotationInv'
  <2>1. \A q \in Requests, m \in Sessions :
          Rotating(q, m)' => q # r /\ m # l /\ Rotating(q, m)
    <3>1. SUFFICES ASSUME NEW q \in Requests, NEW m \in Sessions, Rotating(q, m)'
                   PROVE  q # r /\ m # l /\ Rotating(q, m)
      OBVIOUS
    <3>2. q # r /\ request'[q] = request[q]
      BY <1>0, <1>4, <3>1 DEF Rotating, SessionsTypeOK
    <3>3. request[q].sid \in Sessions /\ session[request[q].sid].state # "none"
      BY <3>1, <3>2 DEF Rotating, RequestsInv, RequestInv, SessionsTypeOK, Call
    <3>4. Rotating(q, m)
      BY <1>0, <1>3, <3>1, <3>2, <3>3 DEF Rotating
    <3> QED BY <1>5, <3>2, <3>4
  <2>2. \A t \in Sessions : Usable(t)' => (t = s \/ Usable(t))
    BY <1>3 DEF Usable
  <2> QED BY <1>0, <1>3, <2>1, <2>2 DEF RotationInv
<1> QED BY <1>6, <1>7, <1>8, <1>9, <1>10

\* The steps of requests that read, wait, send a frame or end.
ReadingStep(r) ==
  \/ \E u \in Users : Login(r, u)
  \/ \E s \in Issued : ReadToken(r, s) \/ ReadCaller(r, s) \/ OpenSocket(r, s)
  \/ ReadOwner(r) \/ ReadSession(r)
  \/ SnapshotUser(r) \/ SnapshotSession(r) \/ SendFrame(r) \/ WaitOver(r)
  \/ Abandon(r)

\* What such a step makes of the request.
Moved(r, x) ==
  /\ x \in Call
  /\ UNCHANGED <<user, session, ended>>
  /\ request' = [request EXCEPT ![r] = x]
  /\ x.pc = "issue" => x.sid = NoSession
  /\ x.pc # "idle" => x.of \in Users
  /\ x.pc \notin {"idle", "issue"} => x.sid # NoSession
  /\ x.sid # NoSession => session[x.sid].state # "none"
  \* how far a socket is from its last frame
  /\ \/ x.late = 0
     \/ /\ x.sid = request[r].sid
        /\ x.late = request[r].late
        /\ request[r].pc = "wait" => x.pc = "socketUser"
        /\ request[r].pc = "socketUser" => x.pc = "socketSid"
        /\ request[r].pc = "socketSid" => session[x.sid].state = "live"
     \/ /\ request[r].pc = "send" /\ x.pc = "wait"
        /\ x.sid = request[r].sid
        /\ x.late = request[r].late + 1
        /\ session[x.sid].state # "live"

LEMMA ReadingMoves ==
  ASSUME SessionsInv, NEW r \in Requests, ReadingStep(r)
  PROVE  \E x : Moved(r, x)
<1> USE DEF SessionsInv
<1>1. /\ request[r] \in Call
      /\ request[r].pc # "idle" => request[r].of \in Users
      /\ request[r].pc \notin {"idle", "issue"} => request[r].sid # NoSession
      /\ request[r].sid # NoSession => session[request[r].sid].state # "none"
      /\ \A s \in Issued : s \in Sessions /\ session[s].of \in Users
                            /\ session[s].state # "none"
  BY DEF SessionsTypeOK, RequestsInv, RequestInv, RowsInv, Issued
<1>2. /\ Idle \in Call /\ Idle.pc = "idle" /\ Idle.sid = NoSession
      /\ Idle.late = 0 /\ Idle.of = NoUser
  BY DEF Idle, Call
<1>3. ASSUME Answer(r), UNCHANGED <<user, session, ended>> PROVE Moved(r, Idle)
  BY <1>2, <1>3 DEF Moved, Answer, Goto
<1>4. ASSUME NEW u \in Users, Login(r, u) PROVE \E x : Moved(r, x)
  <2> DEFINE x == [Idle EXCEPT !.pc = "issue", !.of = u]
  <2>1. x \in Call /\ x.pc = "issue" /\ x.of = u /\ x.sid = NoSession /\ x.late = 0
    BY DEF Idle, Call
  <2>2. UNCHANGED <<user, session, ended>> /\ request' = [request EXCEPT ![r] = x]
    BY <1>4 DEF Login, Goto
  <2> HIDE DEF x
  <2> QED BY <2>1, <2>2 DEF Moved
<1>5. ASSUME NEW s \in Issued, NEW at \in {"owner", "sid", "socketSid"},
             UNCHANGED <<user, session, ended>>,
             Goto(r, [Idle EXCEPT !.pc = at, !.sid = s, !.of = session[s].of])
      PROVE  \E x : Moved(r, x)
  <2> PICK u \in Users : u = session[s].of
    BY <1>1
  <2> PICK x : x = [Idle EXCEPT !.pc = at, !.sid = s, !.of = u]
    OBVIOUS
  <2>1. x \in Call /\ x.pc = at /\ x.of = u /\ x.sid = s /\ x.late = 0
    BY <1>1 DEF Call, Idle
  <2>2. request' = [request EXCEPT ![r] = x]
    BY <1>5 DEF Goto
  <2>3. UNCHANGED <<user, session, ended>>
    BY <1>5
  <2>4. at \notin {"idle", "issue"} /\ s # NoSession /\ session[s].state # "none"
    BY <1>1, SessionsAssumption
  <2>5. Moved(r, x)
    BY <2>1, <2>2, <2>3, <2>4 DEF Moved
  <2> QED BY <2>5
<1>6. ASSUME NEW s \in Issued, ReadToken(r, s) \/ ReadCaller(r, s) \/ OpenSocket(r, s)
      PROVE  \E x : Moved(r, x)
  <2>1. CASE ReadToken(r, s)
    BY <1>5, <2>1 DEF ReadToken
  <2>2. CASE ReadCaller(r, s)
    BY <1>5, <2>2 DEF ReadCaller, Calls, Bearer
  <2>3. CASE OpenSocket(r, s)
    BY <1>5, <2>3 DEF OpenSocket, Calls, Bearer
  <2> QED BY <1>6, <2>1, <2>2, <2>3
<1>7. ASSUME NEW pc \in {"consume", "admin", "socketUser", "socketSid", "send"},
             request[r].pc \in {"owner", "sid", "wait", "socketUser", "socketSid"},
             request[r].pc = "wait" => pc = "socketUser",
             request[r].pc = "socketUser" => pc = "socketSid",
             request[r].pc = "socketSid" => Usable(request[r].sid),
             UNCHANGED <<user, session, ended>>,
             Goto(r, [request[r] EXCEPT !.pc = pc])
      PROVE  \E x : Moved(r, x)
  <2> DEFINE x == [request[r] EXCEPT !.pc = pc]
  <2>1. /\ x \in Call /\ x.pc = pc /\ x.of = request[r].of
        /\ x.sid = request[r].sid /\ x.late = request[r].late
    BY <1>1 DEF Call
  <2>2. request' = [request EXCEPT ![r] = x]
    BY <1>7 DEF Goto
  <2> HIDE DEF x
  <2> QED BY <1>1, <1>7, <2>1, <2>2 DEF Moved, Usable
<1>8. ASSUME ReadOwner(r) \/ ReadSession(r) PROVE \E x : Moved(r, x)
  BY <1>3, <1>7, <1>8 DEF ReadOwner, ReadSession
<1>9. ASSUME SnapshotUser(r) \/ SnapshotSession(r) PROVE \E x : Moved(r, x)
  BY <1>3, <1>7, <1>9 DEF SnapshotUser, SnapshotSession
<1>10. ASSUME WaitOver(r) PROVE \E x : Moved(r, x)
  BY <1>7, <1>10 DEF WaitOver, NextRound
<1>11. ASSUME SendFrame(r) PROVE \E x : Moved(r, x)
  <2> DEFINE n == IF Usable(request[r].sid) THEN 0 ELSE request[r].late + 1
             x == [request[r] EXCEPT !.pc = "wait", !.late = n]
  <2>1. /\ request[r].pc = "send" /\ UNCHANGED <<user, session, ended>>
        /\ request' = [request EXCEPT ![r] = x]
    BY <1>11 DEF SendFrame, Goto
  <2>2. n \in Nat
    BY <1>1 DEF Call
  <2>3. /\ x \in Call /\ x.pc = "wait" /\ x.of = request[r].of
        /\ x.sid = request[r].sid /\ x.late = n
    BY <1>1, <2>2 DEF Call
  <2>4. n = 0 \/ (n = request[r].late + 1 /\ session[request[r].sid].state # "live")
    BY DEF Usable
  <2> HIDE DEF n, x
  <2> QED BY <1>1, <2>1, <2>3, <2>4 DEF Moved
<1>12. ASSUME Abandon(r) PROVE \E x : Moved(r, x)
  BY <1>3, <1>12 DEF Abandon
<1> QED BY <1>4, <1>6, <1>8, <1>9, <1>10, <1>11, <1>12 DEF ReadingStep

LEMMA NextSessions == SessionsInv /\ [SessionsNext]_svars => SessionsInv'
<1> SUFFICES ASSUME SessionsInv, [SessionsNext]_svars PROVE SessionsInv'
  OBVIOUS
<1>0. /\ user \in [Users -> [role: Role, active: BOOLEAN]]
      /\ Idle \in Call /\ Idle.pc = "idle" /\ Idle.sid = NoSession
      /\ \A u \in Users : LiveOf(u) \in SUBSET Sessions /\ \A s \in LiveOf(u) : Usable(s)
  BY DEF SessionsInv, SessionsTypeOK, Idle, Call, LiveOf, Usable
<1>1. ASSUME NEW r \in Requests, ReadingStep(r) PROVE SessionsInv'
  <2>1. PICK x : Moved(r, x)
    BY <1>1, ReadingMoves
  <2> QED BY <1>0, <2>1, MoveRequest DEF Moved
<1>2. ASSUME NEW r \in Requests, NEW s \in Sessions, IssueTokenPair(r, s)
      PROVE  SessionsInv'
  BY <1>2, IssueToken
<1>3. ASSUME NEW r \in Requests, ConsumeToken(r) PROVE SessionsInv'
  BY <1>3, UseToken
<1>4. ASSUME NEW r \in Requests, NEW u \in Users, NEW role \in Role,
             NEW active \in BOOLEAN, UpdateUser(r, u, role, active)
      PROVE  SessionsInv'
  <2>1. user' \in [Users -> [role: Role, active: BOOLEAN]]
    BY <1>0, <1>4 DEF UpdateUser
  <2>2. request' = [request EXCEPT ![r] = Idle]
    BY <1>4 DEF UpdateUser, Answer, Goto
  <2>3. CASE RevokeAll(u)
    BY <1>0, <2>1, <2>2, <2>3, EndLogins DEF RevokeAll
  <2>4. CASE UNCHANGED <<session, ended>>
    BY <1>0, <2>1, <2>2, <2>4, MoveRequest
  <2> QED BY <1>4, <2>3, <2>4 DEF UpdateUser
<1>5. ASSUME NEW s \in Sessions, Logout(s) PROVE SessionsInv'
  <2> PICK S \in SUBSET Sessions : S = {s}
    OBVIOUS
  <2>1. \A t \in S : Usable(t)
    BY <1>5 DEF Logout
  <2>2. session' = Revoked(S) /\ ended' = ended \cup Logins(S) /\ UNCHANGED <<user, request>>
    BY <1>5 DEF Logout
  <2> QED BY <1>0, <2>1, <2>2, EndLogins
<1>6. ASSUME NEW u \in Users, Bootstrap(u) PROVE SessionsInv'
  <2>1. user' \in [Users -> [role: Role, active: BOOLEAN]]
    BY <1>0, <1>6 DEF Bootstrap, Role
  <2> QED BY <1>0, <1>6, <2>1, EndLogins DEF Bootstrap, RevokeAll
<1>7. CASE UNCHANGED svars
  BY <1>7 DEF svars, SessionsInv, SessionsTypeOK, RowsInv, EndedInv, RequestsInv,
              RequestInv, OneSessionPerLogin, EndedLoginsStayEnded, RotationInv,
              Rotating, Usable
<1> QED BY <1>1, <1>2, <1>3, <1>4, <1>5, <1>6, <1>7
     DEF SessionsNext, RequestStep, ReadingStep

\* Administrators: the one who acts is an administrator at that moment, and
\* cannot take the role or the account from himself.
LEMMA NextAdmin ==
  SessionsInv /\ AdminRemains /\ [SessionsNext]_svars => AdminRemains'
<1> SUFFICES ASSUME SessionsInv, AdminRemains, [SessionsNext]_svars PROVE AdminRemains'
  OBVIOUS
<1>0. /\ user \in [Users -> [role: Role, active: BOOLEAN]]
      /\ \A r \in Requests : request[r].pc = "admin" => request[r].of \in Users
  BY DEF SessionsInv, SessionsTypeOK, RequestsInv, RequestInv
<1>1. ASSUME NEW r \in Requests, NEW u \in Users, NEW role \in Role,
             NEW active \in BOOLEAN, UpdateUser(r, u, role, active)
      PROVE  AdminRemains'
  <2> PICK a \in Users : a = request[r].of
    BY <1>0, <1>1 DEF UpdateUser
  <2>1. /\ user[a].active /\ user[a].role = "admin"
        /\ a = u => role = "admin" /\ active
        /\ user' = [user EXCEPT ![u] = [role |-> role, active |-> active]]
    BY <1>1 DEF UpdateUser, ActorAllowed, IsAdmin
  <2>2. user'[a].active /\ user'[a].role = "admin"
    BY <1>0, <2>1
  <2> QED BY <2>2 DEF AdminRemains, IsAdmin
<1>2. ASSUME NEW u \in Users, Bootstrap(u) PROVE AdminRemains'
  <2>1. user'[u].active /\ user'[u].role = "admin"
    BY <1>0, <1>2 DEF Bootstrap
  <2> QED BY <2>1 DEF AdminRemains, IsAdmin
<1>3. CASE UNCHANGED user
  BY <1>3 DEF AdminRemains, IsAdmin
<1>4. ASSUME NEW r \in Requests, ReadingStep(r) PROVE UNCHANGED user
  BY <1>4, ReadingMoves DEF Moved
<1> QED BY <1>1, <1>2, <1>3, <1>4
     DEF SessionsNext, RequestStep, ReadingStep, IssueTokenPair, ConsumeToken, Logout, svars

\* A token that was revoked stays so: consume_refresh_token's predecessor is
\* never made valid again, its successor is another row.
LEMMA RevokedStays ==
  ASSUME SessionsInv, [SessionsNext]_svars, NEW s \in Sessions,
         session[s].state = "revoked"
  PROVE  session'[s].state = "revoked"
<1>0. session \in [Sessions -> Token]
  BY DEF SessionsInv, SessionsTypeOK
<1>1. ASSUME NEW S \in SUBSET Sessions, session' = Revoked(S)
      PROVE  session'[s].state = "revoked"
  BY <1>0, <1>1, RevokedRows
<1>2. ASSUME NEW r \in Requests, NEW t \in Sessions, IssueTokenPair(r, t)
      PROVE  session'[s].state = "revoked"
  BY <1>0, <1>2 DEF IssueTokenPair, Unused, Saved
<1>3. ASSUME NEW r \in Requests, ConsumeToken(r) PROVE session'[s].state = "revoked"
  <2>1. request[r].sid \in Sessions
    BY <1>3 DEF ConsumeToken, SessionsInv, SessionsTypeOK, Call, RequestsInv, RequestInv
  <2> QED BY <1>1, <1>3, <2>1 DEF ConsumeToken
<1>4. ASSUME NEW u \in Users, RevokeAll(u) PROVE session'[s].state = "revoked"
  BY <1>1, <1>4 DEF RevokeAll, LiveOf
<1>5. ASSUME NEW t \in Sessions, Logout(t) PROVE session'[s].state = "revoked"
  BY <1>1, <1>5 DEF Logout
<1>6. ASSUME NEW r \in Requests, ReadingStep(r) PROVE UNCHANGED session
  BY <1>6, ReadingMoves DEF Moved
<1> QED BY <1>2, <1>3, <1>4, <1>5, <1>6
     DEF SessionsNext, RequestStep, ReadingStep, UpdateUser, Bootstrap, svars

\* A late frame counts once, because the next round finds the token revoked.
LEMMA NextLate ==
  SessionsInv /\ LateInv /\ [SessionsNext]_svars => LateInv'
<1> SUFFICES ASSUME SessionsInv, LateInv, [SessionsNext]_svars,
                    NEW q \in Requests, request'[q].late # 0
             PROVE  /\ request'[q].late = 1
                    /\ request'[q].pc \in {"wait", "socketUser", "socketSid"}
                    /\ session'[request'[q].sid].state = "revoked"
  BY DEF LateInv
<1>0. /\ request \in [Requests -> Call] /\ Idle.late = 0
      /\ session \in [Sessions -> Token]
      /\ request[q].pc \notin {"idle", "issue"} => request[q].sid \in Sessions
      /\ request[q].sid \in Sessions => session[request[q].sid].state # "none"
  BY SessionsAssumption DEF SessionsInv, SessionsTypeOK, Call, Idle, RequestsInv, RequestInv
<1>1. CASE request'[q] = request[q]
  <2> PICK s : s = request[q].sid
    OBVIOUS
  <2>1. /\ request[q].late = 1
        /\ request[q].pc \in {"wait", "socketUser", "socketSid"}
        /\ session[s].state = "revoked"
    BY <1>1 DEF LateInv
  <2>2. s \in Sessions
    BY <1>0, <2>1
  <2>3. session'[s].state = "revoked"
    BY <2>1, <2>2, RevokedStays
  <2> QED BY <1>1, <2>1, <2>3
<1>2. ASSUME NEW x, Moved(q, x)
      PROVE  /\ request'[q].late = 1
             /\ request'[q].pc \in {"wait", "socketUser", "socketSid"}
             /\ session'[request'[q].sid].state = "revoked"
  <2> PICK s : s = request[q].sid
    OBVIOUS
  <2>1. request'[q] = x /\ x.late # 0 /\ UNCHANGED session
    BY <1>0, <1>2 DEF Moved
  <2>2. request[q].late # 0 => /\ request[q].late = 1
                               /\ request[q].pc \in {"wait", "socketUser", "socketSid"}
                               /\ session[s].state = "revoked"
    BY DEF LateInv
  <2>3. CASE /\ x.sid = s
             /\ x.late = request[q].late
             /\ request[q].pc = "wait" => x.pc = "socketUser"
             /\ request[q].pc = "socketUser" => x.pc = "socketSid"
             /\ request[q].pc = "socketSid" => session[s].state = "live"
    BY <2>1, <2>2, <2>3
  <2>4. CASE /\ request[q].pc = "send" /\ x.pc = "wait"
             /\ x.sid = s
             /\ x.late = request[q].late + 1
             /\ session[s].state # "live"
    <3>1. request[q].late = 0
      BY <2>2, <2>4
    <3>2. session[s].state = "revoked"
      BY <1>0, <2>4 DEF Token, SessionState
    <3> QED BY <2>1, <2>4, <3>1, <3>2
  <2> QED BY <1>2, <2>1, <2>3, <2>4 DEF Moved
<1>3. ASSUME NEW r \in Requests, ReadingStep(r)
      PROVE  request'[q] = request[q] \/ \E x : Moved(q, x)
  <2>1. PICK x : Moved(r, x)
    BY <1>3, ReadingMoves
  <2>2. CASE r = q
    BY <2>1, <2>2
  <2>3. CASE r # q
    BY <1>0, <2>1, <2>3 DEF Moved
  <2> QED BY <2>2, <2>3
\* the other steps answer a request, or let one that never was late go on
<1>4. ASSUME NEW r \in Requests, Answer(r) PROVE request'[q] = request[q]
  BY <1>0, <1>4 DEF Answer, Goto
<1>5. ASSUME NEW r \in Requests, ConsumeToken(r) PROVE request'[q] = request[q]
  <2>1. request[r].pc = "consume" => request[r].late = 0
    BY <1>0 DEF LateInv
  <2>2. [request[r] EXCEPT !.pc = "issue"].late = request[r].late
    BY <1>0 DEF Call
  <2> QED BY <1>0, <1>4, <1>5, <2>1, <2>2 DEF ConsumeToken, Goto
<1>6. CASE UNCHANGED request
  BY <1>1, <1>6
<1> QED BY <1>1, <1>2, <1>3, <1>4, <1>5, <1>6
     DEF SessionsNext, RequestStep, ReadingStep, IssueTokenPair, UpdateUser,
         Logout, Bootstrap, svars
-----------------------------------------------------------------------------

\* Whatever requests do at once, a login has at most one valid refresh token,
\* and none once it was logged out or revoked (auth/service.py refresh and
\* logout, auth/repository.py consume_refresh_token, admin/repository.py
\* update_user).
THEOREM RotationTheorem == SessionsSpec => []RotationIsExclusive
<1>1. SessionsInv => RotationIsExclusive
  BY DEF SessionsInv, RotationIsExclusive
<1> QED BY <1>1, InitSessions, NextSessions, PTL DEF SessionsSpec

\* Administrators cannot lose the last of themselves, however many of them
\* change each other at once (admin/repository.py update_user).
THEOREM AdminTheorem == SessionsSpec => []AdminRemains
<1>1. SessionsInit => AdminRemains
  BY DEF SessionsInit, AdminRemains
<1> QED BY <1>1, InitSessions, NextSessions, NextAdmin, PTL DEF SessionsSpec

\* A socket sends at most one frame after its session has ended
\* (notifications/socket.py).
THEOREM SocketTheorem == SessionsSpec => []SocketFallsSilent
<1>1. SessionsInv /\ LateInv => SocketFallsSilent
  BY DEF SessionsInv, SessionsTypeOK, Call, LateInv, SocketFallsSilent
<1> QED BY <1>1, InitSessions, NextSessions, NextLate, PTL DEF SessionsSpec

-----------------------------------------------------------------------------
(***************************************************************************)
(* Credentials.  When the account locks, the guess that locks it has been  *)
(* answered and no other can begin, so that the wrong guesses and those in *)
(* flight never exceed the limit and the other clients.                    *)
(***************************************************************************)
InFlight == {r \in Clients : client[r].pc = "login"}

\* Nothing happens to an account before it exists.
NothingYet ==
  account.state = "none" =>
    account = NoAccount /\ wrong = 0 /\ \A r \in Clients : client[r].pc = "idle"

MailInv ==
  /\ mailer.pc # "idle" => outbox.attempts < MailAttempts
  /\ NoMailOnceVerified

GuessInv ==
  /\ wrong <= account.attempts
  /\ ~account.locked => wrong = 0 \/ account.attempts < MaxAttempts
  /\ account.locked =>
       wrong + Cardinality(InFlight) <= MaxAttempts + Cardinality(Clients) - 1

CredentialsInv == CredentialsTypeOK /\ NothingYet /\ MailInv /\ GuessInv

LEMMA InitCredentials == CredentialsInit => CredentialsInv
<1> SUFFICES ASSUME CredentialsInit PROVE CredentialsInv
  OBVIOUS
<1>1. CredentialsTypeOK
  BY CredentialsAssumption
     DEF CredentialsInit, CredentialsTypeOK, Account, NoAccount, NoRow, NoMailer, Waiting
<1>2. NothingYet /\ MailInv /\ GuessInv
  BY DEF CredentialsInit, NothingYet, MailInv, NoMailOnceVerified, GuessInv,
         NoAccount, NoMailer, Waiting
<1> QED BY <1>1, <1>2 DEF CredentialsInv

LEMMA InFlightFinite ==
  /\ IsFiniteSet(InFlight) /\ Cardinality(InFlight) \in Nat
  /\ Cardinality(Clients) \in Nat
  /\ Cardinality(InFlight) <= Cardinality(Clients)
  /\ \A r \in InFlight : IsFiniteSet(InFlight \ {r})
                        /\ Cardinality(InFlight \ {r}) = Cardinality(InFlight) - 1
<1>1. InFlight \in SUBSET Clients /\ IsFiniteSet(Clients)
  BY CredentialsAssumption DEF InFlight
<1>2. IsFiniteSet(InFlight) /\ Cardinality(InFlight) <= Cardinality(Clients)
  BY <1>1, FS_Subset
<1> QED BY <1>1, <1>2, FS_CardinalityType, FS_RemoveElement

\* A client that does not guess begins, goes on or ends, and changes nothing
\* that the guesses count.
LEMMA OtherClient ==
  ASSUME CredentialsInv, NEW r \in Clients, NEW y,
         client' = [client EXCEPT ![r] = y],
         y.pc # "login" \/ ~account.locked,
         account'.attempts = account.attempts,
         account'.locked = account.locked,
         wrong' = wrong
  PROVE  GuessInv'
<1>1. client \in [Clients -> [pc: {"idle", "register", "login", "setup", "enable", "disable"},
                             seen: Account]]
  BY DEF CredentialsInv, CredentialsTypeOK
<1>2. CASE account.locked
  <2>1. InFlight' \in SUBSET InFlight
    BY <1>1, <1>2 DEF InFlight
  <2>2. Cardinality(InFlight') <= Cardinality(InFlight) /\ Cardinality(InFlight') \in Nat
    BY <2>1, InFlightFinite, FS_Subset, FS_CardinalityType
  <2> QED BY <1>2, <2>2, InFlightFinite, CredentialsAssumption
       DEF GuessInv, CredentialsInv, CredentialsTypeOK
<1>3. CASE ~account.locked
  BY <1>3 DEF GuessInv, CredentialsInv
<1> QED BY <1>2, <1>3

\* A wrong guess: it may lock the account, and it is no longer in flight.
LEMMA NextWrongGuess ==
  ASSUME CredentialsInv, NEW r \in Clients, WrongGuess(r)
  PROVE  CredentialsInv'
<1>1. /\ account \in Account
      /\ account.attempts \in Nat /\ account.locked \in BOOLEAN /\ wrong \in Nat
      /\ MaxAttempts \in Nat \ {0} /\ MaxFailures \in Nat
      /\ client \in [Clients -> [pc: {"idle", "register", "login", "setup", "enable", "disable"},
                                seen: Account]]
      /\ Waiting \in [pc: {"idle", "register", "login", "setup", "enable", "disable"},
                      seen: Account]
      /\ Waiting.pc = "idle"
  BY CredentialsAssumption DEF CredentialsInv, CredentialsTypeOK, Account, Waiting, NoAccount
<1> PICK n \in Nat : n = account.attempts + 1
  BY <1>1
<1> PICK lock \in BOOLEAN : lock = (account.locked \/ n >= MaxAttempts)
  OBVIOUS
<1> PICK a : a = [account EXCEPT !.attempts = n, !.locked = lock]
  OBVIOUS
<1>0. /\ client[r].pc = "login" /\ n <= MaxFailures
      /\ account' = a /\ wrong' = wrong + 1
      /\ client' = [client EXCEPT ![r] = Waiting]
      /\ UNCHANGED <<token, outbox, mailer>>
  BY DEF WrongGuess, Failures, Ends
<1>2. /\ a \in Account /\ a.state = account.state
      /\ a.attempts = n /\ a.locked = lock /\ n \in 0 .. MaxFailures
  <2>1. n \in 0 .. MaxFailures
    BY <1>0, <1>1
  <2> QED BY <1>1, <2>1 DEF Account
<1>10. lock \/ n < MaxAttempts
  <2>1. n >= MaxAttempts \/ n < MaxAttempts
    BY <1>1
  <2> QED BY Zenon, <2>1
<1>3. CredentialsTypeOK'
  BY <1>0, <1>1, <1>2 DEF CredentialsInv, CredentialsTypeOK
<1>4. NothingYet' /\ MailInv'
  BY <1>0, <1>1, <1>2 DEF CredentialsInv, NothingYet, MailInv, NoMailOnceVerified
<1>5. InFlight' = InFlight \ {r} /\ r \in InFlight
  BY <1>0, <1>1 DEF InFlight
<1>6. /\ Cardinality(InFlight') = Cardinality(InFlight) - 1
      /\ Cardinality(InFlight) \in Nat /\ Cardinality(Clients) \in Nat
      /\ Cardinality(InFlight) <= Cardinality(Clients)
  BY <1>5, InFlightFinite
<1>7. wrong' <= account'.attempts
  BY <1>0, <1>1, <1>2 DEF CredentialsInv, GuessInv
<1>8. ~account'.locked => account'.attempts < MaxAttempts
  BY <1>0, <1>2, <1>10
<1>9. wrong' + Cardinality(InFlight') <= MaxAttempts + Cardinality(Clients) - 1
  <2>1. CASE account.locked
    BY <1>0, <1>1, <1>6, <2>1 DEF CredentialsInv, GuessInv
  <2>2. CASE ~account.locked
    <3>1. wrong < MaxAttempts
      BY <1>1, <2>2 DEF CredentialsInv, GuessInv
    <3> QED BY <1>0, <1>1, <1>6, <3>1
  <2> QED BY <2>1, <2>2
<1> QED BY <1>3, <1>4, <1>7, <1>8, <1>9 DEF CredentialsInv, GuessInv

\* The requests that read the account or go away.
LEMMA NextReading ==
  ASSUME CredentialsInv, NEW r \in Clients,
         \/ BeginLogin(r) \/ SetupTotp(r) \/ EnableTotp(r) \/ DisableTotp(r)
         \/ Abandons(r)
  PROVE  CredentialsInv'
<1>0. /\ UNCHANGED <<account, token, outbox, mailer, wrong>>
      /\ CredentialsTypeOK
      /\ Waiting \in [pc: {"idle", "register", "login", "setup", "enable", "disable"},
                      seen: Account]
      /\ Waiting.pc = "idle"
  BY CredentialsAssumption
     DEF BeginLogin, SetupTotp, EnableTotp, DisableTotp, Abandons, Reads,
         CredentialsInv, CredentialsTypeOK, Account, Waiting, NoAccount
<1>1. ASSUME NEW pc \in {"login", "setup", "enable", "disable"}, Reads(r, pc),
             account.state # "none", pc = "login" => ~account.locked
      PROVE  CredentialsInv'
  <2> PICK y : y = [pc |-> pc, seen |-> account]
    OBVIOUS
  <2>1. client' = [client EXCEPT ![r] = y] /\ y.pc = pc /\ y.seen = account
    BY <1>1 DEF Reads
  <2>2. y \in [pc: {"idle", "register", "login", "setup", "enable", "disable"}, seen: Account]
    BY <1>0 DEF CredentialsTypeOK
  <2>3. CredentialsTypeOK'
    BY <1>0, <2>1, <2>2 DEF CredentialsTypeOK
  <2>4. NothingYet' /\ MailInv'
    BY <1>0, <1>1 DEF CredentialsInv, NothingYet, MailInv, NoMailOnceVerified
  <2>5. GuessInv'
    BY <1>0, <1>1, <2>1, OtherClient
  <2> QED BY <2>3, <2>4, <2>5 DEF CredentialsInv
<1>2. CASE Abandons(r)
  <2>1. client' = [client EXCEPT ![r] = Waiting]
    BY <1>2 DEF Abandons, Ends
  <2>2. CredentialsTypeOK'
    BY <1>0, <2>1 DEF CredentialsTypeOK
  <2>3. NothingYet' /\ MailInv'
    BY <1>0, <2>1 DEF CredentialsInv, CredentialsTypeOK, NothingYet, MailInv, NoMailOnceVerified
  <2>4. GuessInv'
    BY <1>0, <2>1, OtherClient
  <2> QED BY <2>2, <2>3, <2>4 DEF CredentialsInv
<1>3. CASE BeginLogin(r)
  BY <1>1, <1>3 DEF BeginLogin, Available
<1>4. CASE SetupTotp(r)
  BY <1>1, <1>4 DEF SetupTotp
<1>5. CASE EnableTotp(r) \/ DisableTotp(r)
  <2>1. account.state # "none"
    BY <1>5 DEF EnableTotp, DisableTotp, CodeMayBeRight, CredentialsInv, NothingYet, NoAccount
  <2> QED BY <1>1, <1>5, <2>1 DEF EnableTotp, DisableTotp
<1> QED BY <1>2, <1>3, <1>4, <1>5

\* A request that ends with an update of the account, other than a wrong guess.
Updates(r, a, w) ==
  /\ client[r].pc # "idle"
  /\ account' = a /\ wrong' = w
  /\ client' = [client EXCEPT ![r] = Waiting]
  /\ UNCHANGED <<token, outbox, mailer>>

LEMMA NextUpdate ==
  ASSUME CredentialsInv, NEW r \in Clients, NEW a \in Account, NEW w, Updates(r, a, w),
         a.state = account.state,
         \/ w = 0 /\ ~a.locked
         \/ w = wrong /\ a.attempts = account.attempts /\ a.locked = account.locked
  PROVE  CredentialsInv'
<1>0. /\ CredentialsTypeOK /\ account.state # "none"
      /\ account.attempts \in Nat /\ a.attempts \in Nat /\ wrong \in Nat
      /\ Waiting \in [pc: {"idle", "register", "login", "setup", "enable", "disable"},
                      seen: Account]
      /\ Waiting.pc = "idle"
      /\ account' = a /\ wrong' = w
      /\ client' = [client EXCEPT ![r] = Waiting]
      /\ UNCHANGED <<token, outbox, mailer>>
  BY CredentialsAssumption
     DEF Updates, CredentialsInv, CredentialsTypeOK, NothingYet, Account, Waiting, NoAccount
<1>1. CredentialsTypeOK'
  BY <1>0 DEF CredentialsTypeOK
<1>2. NothingYet' /\ MailInv'
  BY <1>0 DEF CredentialsInv, NothingYet, MailInv, NoMailOnceVerified
<1>3. GuessInv'
  <2>1. CASE w = 0 /\ ~a.locked
    BY <1>0, <2>1 DEF GuessInv
  <2>2. CASE w = wrong /\ a.attempts = account.attempts /\ a.locked = account.locked
    BY <1>0, <2>2, OtherClient
  <2> QED BY <2>1, <2>2
<1> QED BY <1>1, <1>2, <1>3 DEF CredentialsInv

\* Every update of the account by a request, other than a wrong guess.
LEMMA NextUpdates ==
  ASSUME CredentialsInv, NEW r \in Clients,
         \/ RightGuess(r) \/ SetEnabled(r) \/ ClearSecret(r)
         \/ \E s \in Secrets : SaveSecret(r, s)
  PROVE  CredentialsInv'
<1>0. account \in Account
  BY DEF CredentialsInv, CredentialsTypeOK
<1>1. CASE RightGuess(r)
  <2> PICK a : a = [account EXCEPT !.attempts = 0, !.locked = FALSE]
    OBVIOUS
  <2>0. 0 \in 0 .. MaxFailures
    BY CredentialsAssumption
  <2>1. a \in Account /\ a.state = account.state /\ a.locked = FALSE
    BY <1>0, <2>0 DEF Account
  <2>2. Updates(r, a, 0)
    BY <1>1 DEF RightGuess, Unlocked, Ends, Updates
  <2> QED BY <2>1, <2>2, NextUpdate
<1>2. CASE SetEnabled(r)
  <2> PICK a : a = [account EXCEPT !.enabled = TRUE]
    OBVIOUS
  <2>1. /\ a \in Account /\ a.state = account.state
        /\ a.attempts = account.attempts /\ a.locked = account.locked
    BY <1>0 DEF Account
  <2>2. Updates(r, a, wrong)
    BY <1>2 DEF SetEnabled, Ends, Updates
  <2> QED BY <2>1, <2>2, NextUpdate
<1>3. CASE ClearSecret(r)
  <2> PICK a : a = [account EXCEPT !.enabled = FALSE, !.secret = NoSecret]
    OBVIOUS
  <2>1. /\ a \in Account /\ a.state = account.state
        /\ a.attempts = account.attempts /\ a.locked = account.locked
    BY <1>0 DEF Account
  <2>2. Updates(r, a, wrong)
    BY <1>3 DEF ClearSecret, Ends, Updates
  <2> QED BY <2>1, <2>2, NextUpdate
<1>4. ASSUME NEW s \in Secrets, SaveSecret(r, s) PROVE CredentialsInv'
  <2> PICK a : a = IF Replaceable(r) THEN [account EXCEPT !.secret = s] ELSE account
    OBVIOUS
  <2>1. /\ a \in Account /\ a.state = account.state
        /\ a.attempts = account.attempts /\ a.locked = account.locked
    BY <1>0 DEF Account
  <2>2. Updates(r, a, wrong)
    BY <1>4 DEF SaveSecret, Ends, Updates
  <2> QED BY <2>1, <2>2, NextUpdate
<1> QED BY <1>1, <1>2, <1>3, <1>4

LEMMA NextRegistration ==
  ASSUME CredentialsInv, NEW r \in Clients, CreateUser(r) \/ CreateVerification(r)
  PROVE  CredentialsInv'
<1>0. /\ CredentialsTypeOK /\ MaxFailures \in Nat /\ MailAttempts \in Nat
      /\ MaxAttempts \in Nat \ {0}
      /\ Waiting \in [pc: {"idle", "register", "login", "setup", "enable", "disable"},
                      seen: Account]
      /\ Waiting.pc = "idle"
  BY CredentialsAssumption
     DEF CredentialsInv, CredentialsTypeOK, Account, Waiting, NoAccount
<1>1. CASE CreateUser(r)
  <2> PICK a : a = Registered
    OBVIOUS
  <2> PICK y : y = [client[r] EXCEPT !.pc = "register"]
    OBVIOUS
  <2>0. 0 \in 0 .. MaxFailures
    BY <1>0
  <2>1. /\ a \in Account /\ a.state = "registered" /\ a.attempts = 0 /\ a.locked = FALSE
    BY <2>0 DEF Account, Registered, NoAccount
  <2>2. /\ account' = a /\ client' = [client EXCEPT ![r] = y]
        /\ account.state = "none"
        /\ UNCHANGED <<token, outbox, mailer, wrong>>
    BY <1>1 DEF CreateUser
  <2>3. y \in [pc: {"idle", "register", "login", "setup", "enable", "disable"}, seen: Account]
    BY <1>0 DEF CredentialsTypeOK
  <2>4. CredentialsTypeOK'
    BY <1>0, <2>1, <2>2, <2>3 DEF CredentialsTypeOK
  <2>5. NothingYet' /\ MailInv' /\ GuessInv'
    BY <1>0, <2>1, <2>2
       DEF CredentialsInv, NothingYet, MailInv, NoMailOnceVerified, GuessInv
  <2> QED BY <2>4, <2>5 DEF CredentialsInv
<1>2. CASE CreateVerification(r)
  <2>1. /\ token' = "valid" /\ outbox' = [state |-> "queued", attempts |-> 0]
        /\ client' = [client EXCEPT ![r] = Waiting]
        /\ UNCHANGED <<account, mailer, wrong>>
    BY <1>2 DEF CreateVerification, QueuedMail, Ends
  <2>2. CredentialsTypeOK'
    BY <1>0, <2>1 DEF CredentialsTypeOK
  <2>3. NothingYet'
    BY <1>0, <2>1 DEF CredentialsInv, CredentialsTypeOK, NothingYet
  <2>4. MailInv'
    BY <1>0, <2>1 DEF CredentialsInv, CredentialsTypeOK, MailInv, NoMailOnceVerified
  <2>5. GuessInv'
    BY <1>0, <2>1, OtherClient
  <2> QED BY <2>2, <2>3, <2>4, <2>5 DEF CredentialsInv
<1> QED BY <1>1, <1>2

\* Verification, the mail worker, and the ends of the token and of the lock.
LEMMA NextMail ==
  ASSUME CredentialsInv,
         \/ TokenExpires \/ Verify \/ LockEnds
         \/ ClaimMail \/ ProviderAccepts \/ DeliveryFails \/ RecordMail
         \/ MailerDies \/ LoseSession \/ LostMail
  PROVE  CredentialsInv'
<1>0. /\ CredentialsTypeOK /\ MailAttempts \in Nat /\ MaxAttempts \in Nat \ {0}
      /\ NoRow \in [state: {"none", "queued", "sent"}, attempts: 0 .. MailAttempts]
      /\ outbox.attempts \in 0 .. MailAttempts
      /\ account.attempts \in Nat
      /\ mailer \in [pc: {"idle", "sending", "accepted"}, lost: BOOLEAN]
  BY CredentialsAssumption DEF CredentialsInv, CredentialsTypeOK, NoRow, Account
<1>1. CASE Verify
  <2> PICK a : a = [account EXCEPT !.state = "verified"]
    OBVIOUS
  <2>1. /\ a \in Account /\ a.state = "verified"
        /\ a.attempts = account.attempts /\ a.locked = account.locked
    BY <1>0 DEF CredentialsTypeOK, Account
  <2>2. /\ account' = a /\ token' = "gone" /\ outbox' = NoRow /\ mailer.pc = "idle"
        /\ UNCHANGED <<mailer, client, wrong>>
    BY <1>1 DEF Verify, RowFree
  <2>3. CredentialsTypeOK'
    BY <1>0, <2>1, <2>2 DEF CredentialsTypeOK
  <2>4. NothingYet' /\ MailInv'
    BY <2>1, <2>2 DEF NothingYet, MailInv, NoMailOnceVerified
  <2>5. GuessInv'
    BY <2>1, <2>2 DEF CredentialsInv, GuessInv, InFlight
  <2> QED BY <2>3, <2>4, <2>5 DEF CredentialsInv
<1>2. CASE LockEnds
  <2> PICK a : a = [account EXCEPT !.locked = FALSE]
    OBVIOUS
  <2>1. /\ a \in Account /\ a.state = account.state
        /\ a.attempts = account.attempts /\ ~a.locked
    BY <1>0 DEF CredentialsTypeOK, Account
  <2>2. /\ account' = a /\ account.locked /\ wrong' = 0
        /\ UNCHANGED <<token, outbox, mailer, client>>
    BY <1>2 DEF LockEnds
  <2>3. account.state # "none"
    BY <2>2 DEF CredentialsInv, NothingYet, NoAccount
  <2>4. CredentialsTypeOK'
    BY <1>0, <2>1, <2>2 DEF CredentialsTypeOK
  <2>5. NothingYet' /\ MailInv'
    BY <2>1, <2>2, <2>3 DEF CredentialsInv, NothingYet, MailInv, NoMailOnceVerified
  <2>6. GuessInv'
    BY <1>0, <2>1, <2>2 DEF GuessInv
  <2> QED BY <2>4, <2>5, <2>6 DEF CredentialsInv
<1>3. ASSUME UNCHANGED <<account, client, wrong>>,
             token' \in {"none", "valid", "gone"},
             outbox' \in [state: {"none", "queued", "sent"}, attempts: 0 .. MailAttempts],
             mailer' \in [pc: {"idle", "sending", "accepted"}, lost: BOOLEAN],
             mailer'.pc # "idle" =>
               /\ account.state = "registered"
               /\ outbox'.state = "queued" /\ outbox'.attempts < MailAttempts
      PROVE  CredentialsInv'
  <2>1. CredentialsTypeOK'
    BY <1>0, <1>3 DEF CredentialsTypeOK
  <2>2. NothingYet' /\ MailInv' /\ GuessInv'
    BY <1>3 DEF CredentialsInv, NothingYet, MailInv, NoMailOnceVerified, GuessInv, InFlight
  <2> QED BY <2>1, <2>2 DEF CredentialsInv
<1>4. CASE TokenExpires
  BY <1>0, <1>3, <1>4
     DEF TokenExpires, CredentialsInv, CredentialsTypeOK, MailInv, NoMailOnceVerified
<1>5. CASE ClaimMail
  BY <1>0, <1>3, <1>5, CredentialsAssumption
     DEF ClaimMail, At, Deliverable, CredentialsInv, CredentialsTypeOK, MailInv,
         NoMailOnceVerified
<1>6. CASE ProviderAccepts \/ MailerDies \/ LoseSession \/ LostMail
  <2>1. /\ UNCHANGED <<account, token, outbox, client, wrong>>
        /\ mailer' \in [pc: {"idle", "sending", "accepted"}, lost: BOOLEAN]
        /\ mailer'.pc # "idle" => mailer.pc # "idle"
    <3>0. \A x \in {"idle", "sending", "accepted"}, b \in BOOLEAN :
            /\ [mailer EXCEPT !.pc = x] \in [pc: {"idle", "sending", "accepted"}, lost: BOOLEAN]
            /\ [mailer EXCEPT !.lost = b] \in [pc: {"idle", "sending", "accepted"}, lost: BOOLEAN]
            /\ [mailer EXCEPT !.lost = b].pc = mailer.pc
            /\ [pc |-> "idle", lost |-> b] \in [pc: {"idle", "sending", "accepted"}, lost: BOOLEAN]
      BY <1>0
    <3>1. CASE ProviderAccepts \/ MailerDies
      BY <3>0, <3>1 DEF ProviderAccepts, MailerDies, At
    <3>2. CASE LoseSession
      BY <3>0, <3>2 DEF LoseSession
    <3>3. CASE LostMail
      BY <3>0, <3>3 DEF LostMail
    <3> QED BY <1>6, <3>1, <3>2, <3>3
  <2> QED BY <1>0, <1>3, <2>1 DEF CredentialsInv, CredentialsTypeOK, MailInv, NoMailOnceVerified
<1>7. CASE DeliveryFails \/ RecordMail
  <2>1. /\ outbox.attempts < MailAttempts
        /\ mailer' \in [pc: {"idle", "sending", "accepted"}, lost: BOOLEAN]
        /\ mailer'.pc = "idle"
    BY <1>0, <1>7 DEF DeliveryFails, RecordMail, At, CredentialsInv, MailInv
  <2>2. outbox' \in [state: {"none", "queued", "sent"}, attempts: 0 .. MailAttempts]
    BY <1>0, <1>7, <2>1 DEF DeliveryFails, RecordMail, CredentialsTypeOK
  <2> QED BY <1>0, <1>3, <1>7, <2>1, <2>2 DEF DeliveryFails, RecordMail, CredentialsTypeOK
<1> QED BY <1>1, <1>2, <1>4, <1>5, <1>6, <1>7

LEMMA NextCredentials == CredentialsInv /\ [CredentialsNext]_cvars => CredentialsInv'
<1> SUFFICES ASSUME CredentialsInv, [CredentialsNext]_cvars PROVE CredentialsInv'
  OBVIOUS
<1>1. CASE UNCHANGED cvars
  BY <1>1 DEF cvars, CredentialsInv, CredentialsTypeOK, NothingYet, MailInv,
              NoMailOnceVerified, GuessInv, InFlight
<1> QED BY <1>1, NextWrongGuess, NextReading, NextUpdates, NextRegistration, NextMail
     DEF CredentialsNext

\* The only update that stores a secret finds the account not enabled.
LEMMA SecretKept ==
  CredentialsInv /\ [CredentialsNext]_cvars =>
    [account.enabled /\ account'.enabled => account'.secret = account.secret]_cvars
<1> SUFFICES ASSUME CredentialsInv, CredentialsNext, account.enabled, account'.enabled
             PROVE  account'.secret = account.secret
  OBVIOUS
<1>0. account \in Account
  BY DEF CredentialsInv, CredentialsTypeOK
<1>1. ASSUME NEW r \in Clients, CreateUser(r) \/ ClearSecret(r) PROVE FALSE
  <2>1. ~ Registered.enabled
    BY DEF Registered, NoAccount
  <2>2. ~ [account EXCEPT !.enabled = FALSE, !.secret = NoSecret].enabled
    BY <1>0 DEF Account
  <2> QED BY <1>1, <2>1, <2>2 DEF CreateUser, ClearSecret
<1>2. ASSUME NEW r \in Clients, NEW s \in Secrets, SaveSecret(r, s)
      PROVE  account'.secret = account.secret
  <2>1. CASE Replaceable(r)
    BY <2>1 DEF Replaceable
  <2>2. CASE ~Replaceable(r)
    BY <1>2, <2>2 DEF SaveSecret
  <2> QED BY <2>1, <2>2
<1>3. ASSUME NEW r \in Clients, WrongGuess(r) \/ RightGuess(r) \/ SetEnabled(r)
      PROVE  account'.secret = account.secret
  BY <1>0, <1>3 DEF WrongGuess, RightGuess, SetEnabled, Unlocked, Account
<1>4. ASSUME Verify \/ LockEnds PROVE account'.secret = account.secret
  BY <1>0, <1>4 DEF Verify, LockEnds, Account
<1>5. CASE UNCHANGED account
  BY <1>5
<1> QED BY <1>1, <1>2, <1>3, <1>4, <1>5
     DEF CredentialsNext, CreateVerification, BeginLogin, SetupTotp, EnableTotp,
         DisableTotp, Reads, Abandons, TokenExpires, ClaimMail, ProviderAccepts,
         DeliveryFails, RecordMail, MailerDies, LoseSession, LostMail
-----------------------------------------------------------------------------

\* However many clients guess at once, an account answers no more wrong
\* guesses than the limit and those in flight when it locks, until the lock
\* ends or a right guess resets it (auth/repository.py record_failed_login).
THEOREM LockoutTheorem == CredentialsSpec => []LockoutBounded
<1>1. CredentialsInv => LockoutBounded
  <2> SUFFICES ASSUME CredentialsInv PROVE LockoutBounded
    OBVIOUS
  <2>1. /\ CredentialsTypeOK /\ wrong \in Nat /\ account.attempts \in Nat
        /\ MaxAttempts \in Nat \ {0}
    BY CredentialsAssumption DEF CredentialsInv, CredentialsTypeOK, Account
  <2>2. account.locked => wrong <= MaxAttempts + Cardinality(Clients) - 1
    BY <2>1, InFlightFinite DEF CredentialsInv, GuessInv
  <2>3. ~account.locked => wrong <= MaxAttempts + Cardinality(Clients) - 1
    BY <2>1, InFlightFinite DEF CredentialsInv, GuessInv
  <2> QED BY <2>1, <2>2, <2>3 DEF LockoutBounded
<1> QED BY <1>1, InitCredentials, NextCredentials, PTL DEF CredentialsSpec

\* As long as its session lives, a worker that hands the provider a
\* verification mail keeps the address unverified and its row queued
\* (email_worker.py deliver_verification).
THEOREM VerifiedTheorem == CredentialsSpec => []NoMailOnceVerified
<1>1. CredentialsInv => NoMailOnceVerified
  BY DEF CredentialsInv, MailInv
<1> QED BY <1>1, InitCredentials, NextCredentials, PTL DEF CredentialsSpec

\* A two-factor secret that is in use is not replaced (auth/repository.py
\* save_totp_secret).
THEOREM SecretTheorem == CredentialsSpec => SecretStays
BY InitCredentials, NextCredentials, SecretKept, PTL DEF CredentialsSpec, SecretStays
===============================================================================
