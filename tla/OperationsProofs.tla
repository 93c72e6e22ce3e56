--------------------------- MODULE OperationsProofs ---------------------------
(***************************************************************************)
(* Exchange connections, forecasts and migrations, for any number of       *)
(* connections, requests, keys, candles, versions, tasks, releases and     *)
(* processes: stored credentials can be decrypted and stay while they are  *)
(* in use, forecasts are made from final values, a version that is used    *)
(* has all its artifacts, and the schema is what its record says.          *)
(***************************************************************************)
EXTENDS Migrations, ExchangeConnections, Forecasts, FiniteSetTheorems, SequenceTheorems, TLAPS

-----------------------------------------------------------------------------
(***************************************************************************)
(* Connections.  A row is bound to its id and encrypted with the key of    *)
(* the backend or with that of a rotation that was reported as failed;     *)
(* what a request is about to store is encrypted with the former.          *)
(***************************************************************************)
IdsUnique ==
  \A s, t \in Slots : row[s].id # NoId /\ row[s].id = row[t].id => s = t

RowsBound ==
  \A s \in Slots : row[s].id # NoId =>
    row[s].text.of = row[s].id /\ row[s].text.key \in {key, other}

\* A request has a text for its id.  An id that is about to be inserted is
\* nobody else's; a request that is about to replace holds the lock.
CallerInv(r) ==
  \/ caller[r] = Quiescent
  \/ /\ up /\ caller[r].pc # "idle" /\ caller[r].id \in Ids
     /\ caller[r].text.of = caller[r].id /\ caller[r].text.key = key
     /\ caller[r].pc = "insert" =>
          ~Exists(caller[r].id) /\ \A q \in Callers : caller[q].id = caller[r].id => q = r
     /\ caller[r].pc = "commit" =>
          /\ Exists(caller[r].id) /\ lock[caller[r].id] = "request"
          /\ exposure[caller[r].id] = {} /\ bot[caller[r].id] # "running"
          /\ \A q \in Callers :
               caller[q].pc = "commit" /\ caller[q].id = caller[r].id => q = r

CallersInv == \A r \in Callers : CallerInv(r)

\* A connection with a lock, a bot, a stray or exposure exists, and its row has
\* the credentials in use under the lock.
UseInv(id) ==
  /\ using[id] # NoCredentials => lock[id] = "worker"
  /\ exposure[id] # {} \/ stray[id] \/ lock[id] = "worker" => bot[id] # "none"
  /\ bot[id] # "none" \/ lock[id] # "free" => Exists(id)
  /\ \A s \in Slots : row[s].id = id =>
       /\ lock[id] = "worker" => row[s].text.credentials = using[id]
       /\ \A c \in exposure[id] \ {"stray"} : row[s].text.credentials = c

ConnectionsInv ==
  /\ ConnectionsTypeOK
  /\ IdsUnique
  /\ RowsBound
  /\ CallersInv
  /\ \A id \in Ids : UseInv(id)

Row == [id: Ids \cup {NoId}, text: Ciphertext]
Request == [pc: {"idle", "insert", "update", "commit", "delete"},
            id: Ids \cup {NoId}, text: Ciphertext]

LEMMA InitConnections == ConnectionsInit => ConnectionsInv
<1> SUFFICES ASSUME ConnectionsInit PROVE ConnectionsInv
  OBVIOUS
<1>1. NoText \in Ciphertext /\ NoConnection \in Row /\ Quiescent \in Request
      /\ NoConnection.id = NoId
  BY DEF NoText, Ciphertext, NoConnection, Quiescent, Row, Request
<1>2. ConnectionsTypeOK
  BY <1>1 DEF ConnectionsInit, ConnectionsTypeOK, Row, Request
<1>3. IdsUnique /\ RowsBound /\ CallersInv
  BY <1>1 DEF ConnectionsInit, IdsUnique, RowsBound, CallersInv, CallerInv
<1>4. \A id \in Ids : UseInv(id)
  BY <1>1, ConnectionsAssumption DEF ConnectionsInit, UseInv, Exists
<1> QED BY <1>2, <1>3, <1>4 DEF ConnectionsInv

\* A row is the only one with its id.
LEMMA SlotOfRow ==
  ASSUME IdsUnique, NEW id \in Ids, Exists(id)
  PROVE  /\ SlotOf(id) \in Slots /\ row[SlotOf(id)].id = id
         /\ \A s \in Slots : row[s].id = id => s = SlotOf(id)
<1>1. PICK s \in Slots : row[s].id = id
  BY DEF Exists
<1>2. SlotOf(id) \in Slots /\ row[SlotOf(id)].id = id
  BY <1>1 DEF SlotOf
<1> QED BY <1>2, ConnectionsAssumption DEF IdsUnique

\* A request goes on or is answered, and nothing else changes.
LEMMA CallerMoves ==
  ASSUME ConnectionsInv, NEW r \in Callers, NEW y \in Request,
         caller' = [caller EXCEPT ![r] = y],
         UNCHANGED <<row, up, key, other, bot, exposure, using, lock, stray>>,
         \/ y = Quiescent
         \/ /\ up /\ y.pc \in {"insert", "update"} /\ y.id \in Ids
            /\ y.text.of = y.id /\ y.text.key = key
            /\ \/ y.pc = "insert" /\ ~Exists(y.id) /\ \A q \in Callers : caller[q].id # y.id
               \/ y.pc = "update" /\ Exists(y.id)
  PROVE  ConnectionsInv'
<1> USE DEF ConnectionsInv
<1>0. /\ caller \in [Callers -> Request]
      /\ caller'[r] = y
      /\ \A q \in Callers : q # r => caller'[q] = caller[q]
      /\ Quiescent.pc = "idle" /\ Quiescent.id = NoId
  BY DEF ConnectionsTypeOK, Request, Quiescent
<1>1. ConnectionsTypeOK'
  BY DEF ConnectionsTypeOK, Request
<1>2. IdsUnique' /\ RowsBound' /\ \A id \in Ids : UseInv(id)'
  BY DEF IdsUnique, RowsBound, UseInv, Exists
<1>3. ASSUME NEW q \in Callers PROVE CallerInv(q)'
  <2>0. CallerInv(q) /\ CallerInv(r)
    BY DEF CallersInv
  <2>1. CASE q = r
    BY <1>0, <2>1, ConnectionsAssumption DEF CallerInv, Exists
  <2>2. CASE q # r /\ y = Quiescent
    BY <1>0, <2>0, <2>2, ConnectionsAssumption DEF CallerInv, Exists
  <2>3. CASE q # r /\ y # Quiescent
    BY <1>0, <2>0, <2>3, ConnectionsAssumption DEF CallerInv, Exists
  <2> QED BY <2>1, <2>2, <2>3
<1> QED BY <1>1, <1>2, <1>3 DEF CallersInv

\* What the steps of one request do to the texts and its own entry.
LEMMA NextCaller ==
  ASSUME ConnectionsInv, NEW r \in Callers,
         \/ \E id \in Ids, c \in Secrets : EncryptNew(r, id, c) \/ ReadRow(r, id, c)
         \/ GiveUp(r) /\ caller[r].pc # "commit"
  PROVE  ConnectionsInv'
<1>1. ASSUME NEW id \in Ids, NEW c \in Secrets, NEW pc \in {"insert", "update"}, up,
             Step(r, pc, id, Encrypt(id, c)),
             UNCHANGED <<row, up, key, other, bot, exposure, using, lock, stray>>,
             \/ pc = "insert" /\ ~Exists(id) /\ \A q \in Callers : caller[q].id # id
             \/ pc = "update" /\ Exists(id)
      PROVE  ConnectionsInv'
  <2> PICK text : text = Encrypt(id, c)
    OBVIOUS
  <2>1. text \in Ciphertext /\ text.of = id /\ text.key = key
    BY DEF Encrypt, Ciphertext, ConnectionsInv, ConnectionsTypeOK
  <2> PICK y : y = [pc |-> pc, id |-> id, text |-> text]
    OBVIOUS
  <2>2. /\ y \in Request /\ y.pc = pc /\ y.id = id
        /\ y.text.of = id /\ y.text.key = key
    BY <2>1 DEF Request
  <2>3. caller' = [caller EXCEPT ![r] = y]
    BY <1>1 DEF Step
  <2>4. up /\ UNCHANGED <<row, up, key, other, bot, exposure, using, lock, stray>>
    BY <1>1
  <2>5. \/ y.pc = "insert" /\ ~Exists(y.id) /\ \A q \in Callers : caller[q].id # y.id
        \/ y.pc = "update" /\ Exists(y.id)
    BY <1>1, <2>2
  <2> QED BY <2>2, <2>3, <2>4, <2>5, CallerMoves
<1>2. ASSUME NEW id \in Ids, NEW c \in Secrets, EncryptNew(r, id, c)
      PROVE  ConnectionsInv'
  BY <1>1, <1>2 DEF EncryptNew, Unused
<1>3. ASSUME NEW id \in Ids, NEW c \in Secrets, ReadRow(r, id, c)
      PROVE  ConnectionsInv'
  BY <1>1, <1>3 DEF ReadRow
<1>4. CASE GiveUp(r) /\ caller[r].pc # "commit"
  <2>1. Quiescent \in Request
    BY DEF Quiescent, Request, NoText, Ciphertext
  <2>2. /\ caller' = [caller EXCEPT ![r] = Quiescent]
        /\ UNCHANGED <<row, up, key, other, bot, exposure, using, lock, stray>>
    BY <1>4 DEF GiveUp, Reply
  <2> QED BY <2>1, <2>2, CallerMoves
<1> QED BY <1>2, <1>3, <1>4

\* The rows change in one slot: x is stored there, and r is answered.  With
\* the old row goes its id, or the id stays and nothing uses its credentials.
Stores(r, s, x, free) ==
  /\ row' = [row EXCEPT ![s] = x]
  /\ lock' = [lock EXCEPT ![x.id] = free]
  /\ caller' = [caller EXCEPT ![r] = Quiescent]
  /\ UNCHANGED <<up, key, other, bot, exposure, using, stray>>

LEMMA StoreRow ==
  ASSUME ConnectionsInv, NEW r \in Callers, NEW s \in Slots, NEW id \in Ids, NEW x \in Row,
         x.id = id, x.text.of = id, x.text.key = key,
         Stores(r, s, x, "free"),
         caller[r].id = id,
         \/ caller[r].pc = "insert" /\ row[s].id = NoId
         \/ caller[r].pc = "commit" /\ row[s].id = id
  PROVE  ConnectionsInv'
<1> USE DEF ConnectionsInv
<1>0. /\ caller \in [Callers -> Request] /\ row \in [Slots -> Row]
      /\ Quiescent \in Request /\ Quiescent.pc = "idle" /\ Quiescent.id = NoId
      /\ lock \in [Ids -> {"free", "worker", "request"}]
  BY DEF ConnectionsTypeOK, Request, Row, Quiescent, NoText, Ciphertext
<1>1. /\ caller' \in [Callers -> Request] /\ caller'[r] = Quiescent
      /\ \A q \in Callers : q # r => caller'[q] = caller[q]
      /\ row' \in [Slots -> Row] /\ row'[s] = x
      /\ \A t \in Slots : t # s => row'[t] = row[t]
      /\ lock' \in [Ids -> {"free", "worker", "request"}] /\ lock'[id] = "free"
      /\ \A i \in Ids : i # id => lock'[i] = lock[i]
      /\ UNCHANGED <<up, key, other, bot, exposure, using, stray>>
  BY <1>0 DEF Stores
<1>2. \A t \in Slots : t # s => row[t].id # id
  <2>1. CASE caller[r].pc = "insert"
    BY <1>0, <2>1, ConnectionsAssumption DEF CallersInv, CallerInv, Exists
  <2>2. CASE row[s].id = id
    BY <2>2, ConnectionsAssumption DEF IdsUnique
  <2> QED BY <2>1, <2>2
<1>3. \A i \in Ids : Exists(i)' <=> (Exists(i) \/ i = id)
  BY <1>1, ConnectionsAssumption DEF Exists
\* the row was new, or locked by this request
<1>4. lock[id] # "worker" /\ exposure[id] = {} /\ using[id] = NoCredentials
  <2>1. CallerInv(r) /\ UseInv(id) /\ caller[r] # Quiescent
    BY <1>0, ConnectionsAssumption DEF CallersInv
  <2> QED BY <2>1 DEF CallerInv, UseInv
<1>5. ConnectionsTypeOK'
  BY <1>1 DEF ConnectionsTypeOK, Row, Request
<1>6. IdsUnique'
  <2> SUFFICES ASSUME NEW t \in Slots, NEW u \in Slots, row'[t].id # NoId, row'[t].id = row'[u].id
               PROVE  t = u
    BY DEF IdsUnique
  <2> QED BY <1>1, <1>2, ConnectionsAssumption DEF IdsUnique
<1>7. RowsBound'
  BY <1>1 DEF RowsBound
<1>8. ASSUME NEW q \in Callers PROVE CallerInv(q)'
  <2>1. CallerInv(q) /\ CallerInv(r) /\ caller[r] # Quiescent
    BY <1>0, ConnectionsAssumption DEF CallersInv
  <2>2. CASE q = r
    BY <1>1, <2>2 DEF CallerInv
  <2>3. CASE q # r /\ caller[q] = Quiescent
    BY <1>1, <2>3 DEF CallerInv
  <2>4. CASE q # r /\ caller[q] # Quiescent
    <3>1. caller'[q] = caller[q] /\ caller[q].id \in Ids /\ up' /\ key' = key
      BY <1>1, <2>1, <2>4 DEF CallerInv
    <3>2. caller[q].pc = "insert" =>
            /\ ~Exists(caller[q].id)'
            /\ \A k \in Callers : caller'[k].id = caller[q].id => k = q
      BY <1>0, <1>1, <1>3, <2>1, <2>4, <3>1, ConnectionsAssumption DEF CallerInv
    <3>3. caller[q].pc = "commit" =>
            /\ Exists(caller[q].id)' /\ lock'[caller[q].id] = "request"
            /\ \A k \in Callers :
                 caller'[k].pc = "commit" /\ caller'[k].id = caller[q].id => k = q
      <4>1. caller[q].pc = "commit" => caller[q].id # id
        BY <1>0, <2>1, <2>4 DEF CallerInv
      <4> QED BY <1>0, <1>1, <1>3, <2>1, <2>4, <3>1, <4>1 DEF CallerInv
    <3> QED BY <1>1, <2>1, <2>4, <3>1, <3>2, <3>3 DEF CallerInv
  <2> QED BY <2>2, <2>3, <2>4
<1>9. ASSUME NEW i \in Ids PROVE UseInv(i)'
  <2>1. UseInv(i) /\ UseInv(id)
    OBVIOUS
  <2>2. CASE i = id
    BY <1>1, <1>3, <1>4, <2>1, <2>2 DEF UseInv
  <2>3. CASE i # id
    <3>1. \A t \in Slots : row'[t].id = i => row[t].id = i /\ row'[t] = row[t]
      BY <1>1, <2>3
    <3>2. /\ lock'[i] = lock[i] /\ bot'[i] = bot[i]
          /\ using'[i] = using[i] /\ exposure'[i] = exposure[i] /\ stray'[i] = stray[i]
      BY <1>1, <2>3
    <3>3. Exists(i)' <=> Exists(i)
      BY <1>3, <2>3
    <3>4. \A t \in Slots : row'[t].id = i =>
            /\ lock'[i] = "worker" => row'[t].text.credentials = using'[i]
            /\ \A c \in exposure'[i] \ {"stray"} : row'[t].text.credentials = c
      <4> HIDE DEF ConnectionsInv
      <4> QED BY <2>1, <3>1, <3>2 DEF UseInv
    <3>5. /\ using'[i] # NoCredentials => lock'[i] = "worker"
          /\ exposure'[i] # {} \/ stray'[i] \/ lock'[i] = "worker" => bot'[i] # "none"
          /\ bot'[i] # "none" \/ lock'[i] # "free" => Exists(i)'
      <4> HIDE DEF ConnectionsInv
      <4> QED BY <2>1, <3>2, <3>3 DEF UseInv
    <3> HIDE DEF ConnectionsInv
    <3> QED BY <3>4, <3>5 DEF UseInv
  <2> QED BY <2>2, <2>3
<1> QED BY <1>5, <1>6, <1>7, <1>8, <1>9 DEF CallersInv

LEMMA NextStore ==
  ASSUME ConnectionsInv, NEW r \in Callers,
         Replace(r) \/ \E s \in Slots : Insert(r, s)
  PROVE  ConnectionsInv'
<1> USE DEF ConnectionsInv
<1> PICK id : id = caller[r].id
  OBVIOUS
<1> PICK text : text = caller[r].text
  OBVIOUS
<1>0. /\ caller[r] # Quiescent => id \in Ids /\ text.of = id /\ text.key = key
      /\ text \in Ciphertext
      /\ lock \in [Ids -> {"free", "worker", "request"}] /\ row \in [Slots -> Row]
      /\ Quiescent \in Request /\ Quiescent.pc = "idle"
  BY DEF CallersInv, CallerInv, ConnectionsTypeOK, Request, Row, Quiescent, NoText, Ciphertext
<1>1. CASE Replace(r)
  <2> PICK s : s = SlotOf(id)
    OBVIOUS
  <2> PICK x : x = [row[s] EXCEPT !.text = text]
    OBVIOUS
  <2>1. /\ caller[r].pc = "commit" /\ id \in Ids /\ Exists(id)
        /\ text.of = id /\ text.key = key
    BY <1>0, <1>1 DEF Replace, CallersInv, CallerInv
  <2>2. s \in Slots /\ row[s].id = id
    BY <2>1, SlotOfRow
  <2>3. x \in Row /\ x.id = id /\ x.text = text
    BY <1>0, <2>1, <2>2 DEF Row
  <2>4. Stores(r, s, x, "free")
    <3>1. row' = [row EXCEPT ![s] = x]
      BY <1>0, <1>1, <2>2 DEF Replace
    <3> QED BY <1>1, <2>3, <3>1 DEF Replace, Reply, Stores
  <2> QED BY <2>1, <2>2, <2>3, <2>4, StoreRow
<1>2. ASSUME NEW s \in Slots, Insert(r, s), row[s].id = NoId PROVE ConnectionsInv'
  <2> PICK x : x = [id |-> id, text |-> text]
    OBVIOUS
  <2>1. /\ caller[r].pc = "insert" /\ id \in Ids /\ ~Exists(id)
        /\ text.of = id /\ text.key = key
    BY <1>0, <1>2 DEF Insert, CallersInv, CallerInv
  <2>2. x \in Row /\ x.id = id /\ x.text = text
    BY <1>0, <2>1 DEF Row
  <2>3. lock[id] = "free"
    BY <2>1 DEF UseInv
  <2>4. lock = [lock EXCEPT ![id] = "free"]
    BY <1>0, <2>3
  <2>5. Stores(r, s, x, "free")
    BY <1>2, <2>2, <2>4 DEF Insert, Reply, Stores
  <2> QED BY <1>2, <2>1, <2>2, <2>5, StoreRow
<1>3. ASSUME NEW s \in Slots, Insert(r, s), row[s].id # NoId PROVE ConnectionsInv'
  <2>1. /\ caller' = [caller EXCEPT ![r] = Quiescent]
        /\ UNCHANGED <<row, up, key, other, bot, exposure, using, lock, stray>>
    BY <1>3 DEF Insert, Reply
  <2> QED BY <1>0, <2>1, CallerMoves
<1> QED BY <1>1, <1>2, <1>3

\* A lock is taken, let go or kept, the bot moves, and exposure changes, all
\* of one connection; a request may go on or be answered.
LEMMA UseOf ==
  ASSUME ConnectionsInv, NEW id \in Ids, Exists(id),
         UNCHANGED <<row, up, key, other>>, ConnectionsTypeOK',
         \A i \in Ids : i # id =>
           /\ lock'[i] = lock[i] /\ bot'[i] = bot[i]
           /\ using'[i] = using[i] /\ exposure'[i] = exposure[i] /\ stray'[i] = stray[i],
         UseInv(id)',
         \A q \in Callers : CallerInv(q)'
  PROVE  ConnectionsInv'
<1>1. IdsUnique' /\ RowsBound'
  BY DEF ConnectionsInv, IdsUnique, RowsBound
<1>2. ASSUME NEW i \in Ids, i # id PROVE UseInv(i)'
  <2>1. UseInv(i) /\ (Exists(i)' <=> Exists(i))
    BY DEF ConnectionsInv, Exists
  <2> QED BY <1>2, <2>1 DEF UseInv
<1> QED BY <1>1, <1>2 DEF ConnectionsInv, CallersInv

\* Taking the lock for a replacement, and giving it back.
LEMMA NextLock ==
  ASSUME ConnectionsInv, NEW r \in Callers,
         LockIdle(r) \/ (GiveUp(r) /\ caller[r].pc = "commit")
  PROVE  ConnectionsInv'
<1> USE DEF ConnectionsInv
<1> PICK id : id = caller[r].id
  OBVIOUS
<1>0. /\ caller \in [Callers -> Request] /\ CallerInv(r)
      /\ Quiescent \in Request /\ Quiescent.pc = "idle" /\ Quiescent.id = NoId
      /\ lock \in [Ids -> {"free", "worker", "request"}]
      /\ UNCHANGED <<row, up, key, other, bot, exposure, using, stray>>
  BY DEF CallersInv, ConnectionsTypeOK, Request, Quiescent, NoText, Ciphertext,
         LockIdle, GiveUp
<1>1. CASE LockIdle(r) /\ Exists(id) /\ LockFree(id) /\ Idle(id)
  <2> PICK y : y = [pc |-> "commit", id |-> id, text |-> caller[r].text]
    OBVIOUS
  <2>1. /\ caller[r].pc = "update" /\ id \in Ids
        /\ caller[r].text.of = id /\ caller[r].text.key = key /\ up
    BY <1>0, <1>1 DEF LockIdle, CallerInv
  <2>2. /\ y \in Request /\ y.pc = "commit" /\ y.id = id
        /\ y.text.of = id /\ y.text.key = key /\ y # Quiescent
    BY <1>0, <2>1 DEF Request
  <2>3. /\ lock' = [lock EXCEPT ![id] = "request"] /\ caller' = [caller EXCEPT ![r] = y]
        /\ lock[id] = "free" /\ bot[id] # "running" /\ exposure[id] = {}
    BY <1>1 DEF LockIdle, Step, LockFree, Idle
  <2>4. /\ caller' \in [Callers -> Request] /\ caller'[r] = y
        /\ \A q \in Callers : q # r => caller'[q] = caller[q]
        /\ lock' \in [Ids -> {"free", "worker", "request"}] /\ lock'[id] = "request"
        /\ \A i \in Ids : i # id => lock'[i] = lock[i]
    BY <1>0, <2>1, <2>2, <2>3
  <2>5. ConnectionsTypeOK'
    BY <1>0, <2>4 DEF ConnectionsTypeOK, Request
  <2>6. UseInv(id)'
    <3>1. UseInv(id)
      BY <2>1
    <3> QED BY <1>0, <1>1, <2>3, <2>4, <3>1 DEF UseInv, Exists
  <2>7. ASSUME NEW q \in Callers PROVE CallerInv(q)'
    <3>1. CallerInv(q) /\ (\A i \in Ids : Exists(i)' <=> Exists(i))
      BY <1>0 DEF CallersInv, Exists
    <3>2. \A k \in Callers : caller[k].pc = "commit" => caller[k].id # id
      BY <1>0, <2>3 DEF CallersInv, CallerInv
    <3>3. CASE q = r
      BY <1>0, <1>1, <2>1, <2>2, <2>3, <2>4, <3>1, <3>2, <3>3 DEF CallerInv
    <3>4. CASE q # r
      BY <1>0, <1>1, <2>1, <2>2, <2>4, <3>1, <3>2, <3>4 DEF CallerInv
    <3> QED BY <3>3, <3>4
  <2> QED BY <1>0, <1>1, <2>1, <2>4, <2>5, <2>6, <2>7, UseOf
<1>2. CASE LockIdle(r) /\ ~ (Exists(id) /\ LockFree(id) /\ Idle(id))
  <2>1. caller' = [caller EXCEPT ![r] = Quiescent] /\ UNCHANGED lock
    BY <1>2 DEF LockIdle, Reply
  <2> QED BY <1>0, <2>1, CallerMoves
<1>3. CASE GiveUp(r) /\ caller[r].pc = "commit"
  <2>1. /\ id \in Ids /\ Exists(id) /\ lock[id] = "request"
        /\ \A q \in Callers : caller[q].pc = "commit" /\ caller[q].id = id => q = r
    BY <1>0, <1>3 DEF CallerInv
  <2>2. /\ lock' = [lock EXCEPT ![id] = "free"]
        /\ caller' = [caller EXCEPT ![r] = Quiescent]
    BY <1>3 DEF GiveUp, Reply
  <2>3. /\ caller' \in [Callers -> Request] /\ caller'[r] = Quiescent
        /\ \A q \in Callers : q # r => caller'[q] = caller[q]
        /\ lock' \in [Ids -> {"free", "worker", "request"}] /\ lock'[id] = "free"
        /\ \A i \in Ids : i # id => lock'[i] = lock[i]
    BY <1>0, <2>1, <2>2
  <2>4. ConnectionsTypeOK'
    BY <1>0, <2>3 DEF ConnectionsTypeOK, Request
  <2>5. UseInv(id)'
    <3>1. UseInv(id)
      BY <2>1
    <3> QED BY <1>0, <2>1, <2>3, <3>1 DEF UseInv, Exists
  <2>6. ASSUME NEW q \in Callers PROVE CallerInv(q)'
    <3>1. CallerInv(q) /\ (\A i \in Ids : Exists(i)' <=> Exists(i))
      BY <1>0 DEF CallersInv, Exists
    <3>2. CASE q = r
      BY <2>3, <3>2 DEF CallerInv
    <3>3. CASE q # r
      BY <1>0, <2>1, <2>3, <3>1, <3>3, ConnectionsAssumption DEF CallerInv
    <3> QED BY <3>2, <3>3
  <2> QED BY <1>0, <2>1, <2>3, <2>4, <2>5, <2>6, UseOf
<1> QED BY <1>1, <1>2, <1>3

LEMMA NextDelete ==
  ASSUME ConnectionsInv, NEW r \in Callers, NEW id \in Ids, Delete(r, id)
  PROVE  ConnectionsInv'
<1> USE DEF ConnectionsInv
<1> PICK s : s = SlotOf(id)
  OBVIOUS
<1>0. /\ Exists(id) /\ lock[id] = "free" /\ bot[id] = "none"
      /\ row' = [row EXCEPT ![s] = NoConnection]
      /\ UNCHANGED <<up, key, other, bot, exposure, lock, using, stray, caller>>
  BY DEF Delete, LockFree
<1>1. s \in Slots /\ row[s].id = id /\ \A t \in Slots : row[t].id = id => t = s
  BY <1>0, SlotOfRow
<1>2. NoConnection \in Row /\ NoConnection.id = NoId
  BY DEF NoConnection, NoText, Row, Ciphertext
<1>3. /\ row' \in [Slots -> Row] /\ row'[s].id = NoId
      /\ \A t \in Slots : t # s => row'[t] = row[t]
  BY <1>0, <1>1, <1>2 DEF ConnectionsTypeOK, Row
<1>4. \A i \in Ids : Exists(i)' <=> (Exists(i) /\ i # id)
  BY <1>1, <1>3, ConnectionsAssumption DEF Exists
<1>5. ConnectionsTypeOK'
  BY <1>0, <1>3 DEF ConnectionsTypeOK, Row
<1>6. IdsUnique' /\ RowsBound'
  BY <1>0, <1>3 DEF IdsUnique, RowsBound
<1>7. ASSUME NEW q \in Callers PROVE CallerInv(q)'
  <2>1. CallerInv(q)
    BY DEF CallersInv
  <2> QED BY <1>0, <1>4, <2>1 DEF CallerInv
<1>8. ASSUME NEW i \in Ids PROVE UseInv(i)'
  <2>1. UseInv(i)
    OBVIOUS
  <2>2. \A t \in Slots : row'[t].id = i => row[t].id = i /\ row'[t] = row[t]
    BY <1>3, ConnectionsAssumption
  <2> QED BY <1>0, <1>4, <2>1, <2>2 DEF UseInv
<1> QED BY <1>5, <1>6, <1>7, <1>8 DEF CallersInv

\* The bots of a connection and its workers.
LEMMA NextUse ==
  ASSUME ConnectionsInv, NEW id \in Ids, WorkerStep(id)
  PROVE  ConnectionsInv'
<1> USE DEF ConnectionsInv
<1>0. /\ UNCHANGED <<row, up, key, other, caller>>
      /\ UseInv(id)
      /\ \A i \in Ids : Exists(i)' <=> Exists(i)
      /\ bot \in [Ids -> {"none", "off", "running"}]
      /\ exposure \in [Ids -> SUBSET (Secrets \cup {"stray"})]
      /\ lock \in [Ids -> {"free", "worker", "request"}]
      /\ using \in [Ids -> Secrets \cup {NoCredentials}]
      /\ stray \in [Ids -> BOOLEAN]
  BY DEF WorkerStep, LinkBot, StartBot, StopBot, SetBot, TakeLock, LoseLock, ReadLate,
         Trade, Settle, SetExposure, Unlock, StrayEnds, Exists, ConnectionsTypeOK
\* it is enough that the connection exists, and is not locked by a request
\* when its bot starts, its lock changes hands or it trades
<1>1. ASSUME Exists(id), UseInv(id)',
             bot' \in [Ids -> {"none", "off", "running"}],
             exposure' \in [Ids -> SUBSET (Secrets \cup {"stray"})],
             lock' \in [Ids -> {"free", "worker", "request"}],
             using' \in [Ids -> Secrets \cup {NoCredentials}],
             stray' \in [Ids -> BOOLEAN],
             \A i \in Ids : i # id =>
               /\ lock'[i] = lock[i] /\ bot'[i] = bot[i]
               /\ using'[i] = using[i] /\ exposure'[i] = exposure[i] /\ stray'[i] = stray[i],
             lock[id] = "request" =>
               /\ lock'[id] = "request" /\ exposure'[id] = exposure[id]
               /\ bot'[id] = "running" => bot[id] = "running"
      PROVE  ConnectionsInv'
  <2>1. ConnectionsTypeOK'
    BY <1>0, <1>1 DEF ConnectionsTypeOK
  <2>2. ASSUME NEW q \in Callers PROVE CallerInv(q)'
    <3>1. CallerInv(q)
      BY DEF CallersInv
    <3> QED BY <1>0, <1>1, <3>1 DEF CallerInv
  <2> QED BY <1>0, <1>1, <2>1, <2>2, UseOf
<1>2. lock[id] = "worker" \/ stray[id] \/ exposure[id] # {} => Exists(id) /\ bot[id] # "none"
  BY <1>0 DEF UseInv
<1>3. CASE LinkBot(id) \/ StartBot(id) \/ StopBot(id)
  <2>1. PICK state \in {"off", "running"} :
          /\ bot' = [bot EXCEPT ![id] = state]
          /\ UNCHANGED <<lock, using, stray, exposure>>
          /\ lock[id] = "request" => state # "running"
    BY <1>3 DEF LinkBot, StartBot, StopBot, SetBot, RowLocked
  <2>2. Exists(id)
    BY <1>0, <1>3 DEF LinkBot, StartBot, StopBot, UseInv
  <2>3. /\ bot' \in [Ids -> {"none", "off", "running"}] /\ bot'[id] = state
        /\ \A i \in Ids : i # id => bot'[i] = bot[i]
    BY <1>0, <2>1
  <2>4. UseInv(id)'
    BY <1>0, <2>1, <2>2, <2>3 DEF UseInv
  <2> QED BY <1>0, <1>1, <2>1, <2>2, <2>3, <2>4
<1>4. CASE TakeLock(id)
  <2> PICK s : s = SlotOf(id)
    OBVIOUS
  <2> PICK c : c = row[s].text.credentials
    OBVIOUS
  <2>1. /\ Exists(id) /\ lock[id] = "free"
        /\ lock' = [lock EXCEPT ![id] = "worker"]
        /\ using' = [using EXCEPT ![id] = c]
        /\ bot[id] # "none"
        /\ UNCHANGED <<bot, exposure, stray>>
    BY <1>2, <1>4 DEF TakeLock, LockFree, Readable, CredentialsOf
  <2>2. s \in Slots /\ row[s].id = id /\ \A t \in Slots : row[t].id = id => t = s
    BY <2>1, SlotOfRow
  <2>3. c \in Secrets \cup {NoCredentials}
    BY <2>2 DEF ConnectionsTypeOK, Ciphertext
  <2>4. /\ lock' \in [Ids -> {"free", "worker", "request"}] /\ lock'[id] = "worker"
        /\ using' \in [Ids -> Secrets \cup {NoCredentials}] /\ using'[id] = c
        /\ \A i \in Ids : i # id => lock'[i] = lock[i] /\ using'[i] = using[i]
    BY <1>0, <2>1, <2>3
  <2>5. UseInv(id)'
    BY <1>0, <2>1, <2>2, <2>4 DEF UseInv
  <2> QED BY <1>0, <1>1, <2>1, <2>4, <2>5
\* at the end of a turn as when the lock is lost, the holder gives it up
<1>5. CASE LoseLock(id) \/ Unlock(id)
  <2>1. PICK goesOn \in BOOLEAN :
          /\ lock[id] = "worker"
          /\ lock' = [lock EXCEPT ![id] = "free"]
          /\ using' = [using EXCEPT ![id] = NoCredentials]
          /\ stray' = [stray EXCEPT ![id] = goesOn]
          /\ UNCHANGED <<bot, exposure>>
    <3>1. CASE LoseLock(id)
      BY <3>1 DEF LoseLock
    <3>2. CASE Unlock(id)
      <4>1. stray' = [stray EXCEPT ![id] = stray[id]] /\ stray[id] \in BOOLEAN
        BY <1>0, <3>2 DEF Unlock
      <4> QED BY <3>2, <4>1 DEF Unlock
    <3> QED BY <1>5, <3>1, <3>2
  <2>2. /\ lock' \in [Ids -> {"free", "worker", "request"}] /\ lock'[id] = "free"
        /\ using' \in [Ids -> Secrets \cup {NoCredentials}] /\ using'[id] = NoCredentials
        /\ stray' \in [Ids -> BOOLEAN]
        /\ \A i \in Ids : i # id =>
             lock'[i] = lock[i] /\ using'[i] = using[i] /\ stray'[i] = stray[i]
    BY <1>0, <2>1
  <2>3. UseInv(id)'
    BY <1>0, <1>2, <2>1, <2>2 DEF UseInv
  <2> QED BY <1>0, <1>1, <1>2, <2>1, <2>2, <2>3
<1>6. CASE ReadLate(id) \/ StrayEnds(id)
  <2>1. PICK goesOn \in BOOLEAN :
          /\ stray' = [stray EXCEPT ![id] = goesOn]
          /\ UNCHANGED <<lock, using, bot, exposure>>
          /\ bot[id] # "none"
    BY <1>2, <1>6 DEF ReadLate, StrayEnds
  <2>2. Exists(id)
    BY <1>0, <2>1 DEF UseInv
  <2>3. /\ stray' \in [Ids -> BOOLEAN]
        /\ \A i \in Ids : i # id => stray'[i] = stray[i]
    BY <1>0, <2>1
  <2>4. UseInv(id)'
    BY <1>0, <2>1, <2>2, <2>3 DEF UseInv
  <2> QED BY <1>0, <1>1, <2>1, <2>2, <2>3, <2>4
<1>7. CASE Trade(id) \/ Settle(id)
  <2>1. PICK E : /\ exposure' = [exposure EXCEPT ![id] = E]
                 /\ E \subseteq exposure[id] \cup InHand(id)
                 /\ UNCHANGED <<bot, lock, using, stray>>
                 /\ lock[id] # "request" /\ InHand(id) # {}
    BY <1>7 DEF Trade, Settle, SetExposure, RowLocked
  <2>2. InHand(id) \subseteq Secrets \cup {"stray"}
    BY <1>0 DEF InHand
  <2>3. lock[id] = "worker" \/ stray[id]
    BY <1>0, <2>1 DEF InHand, UseInv
  <2>4. /\ exposure' \in [Ids -> SUBSET (Secrets \cup {"stray"})] /\ exposure'[id] = E
        /\ \A i \in Ids : i # id => exposure'[i] = exposure[i]
    BY <1>0, <2>1, <2>2
  <2>5. UseInv(id)'
    <3>1. \A c \in E \ {"stray"} : c \in exposure[id] \/ (c = using[id] /\ lock[id] = "worker")
      BY <1>0, <2>1 DEF InHand, UseInv
    <3> QED BY <1>0, <1>2, <2>1, <2>3, <2>4, <3>1 DEF UseInv
  <2> QED BY <1>0, <1>1, <1>2, <2>1, <2>3, <2>4, <2>5
<1> QED BY <1>3, <1>4, <1>5, <1>6, <1>7 DEF WorkerStep

\* The rotation: no request is under way, so that the rows are all there is.
LEMMA NextKey ==
  ASSUME ConnectionsInv,
         \/ StopBackend
         \/ \E old, new \in Keys :
              RotateKey(old, new) \/ RotationFails(new) \/ RotationUnconfirmed(old, new)
  PROVE  ConnectionsInv'
<1> USE DEF ConnectionsInv
<1>0. /\ row \in [Slots -> Row] /\ key \in Keys /\ other \in Keys \cup {NoKey}
      /\ UNCHANGED <<bot, exposure, lock, using, stray, caller>>
  BY DEF ConnectionsTypeOK, Row, StopBackend, RotateKey, RotationFails,
         RotationUnconfirmed, StartBackend
<1>1. \A q \in Callers : caller[q] = Quiescent
  BY ConnectionsAssumption
     DEF StopBackend, RotateKey, RotationFails, RotationUnconfirmed, StartBackend,
         CallersInv, CallerInv
<1>2. ASSUME row' \in [Slots -> Row],
             up' \in BOOLEAN, key' \in Keys, other' \in Keys \cup {NoKey},
             \A s \in Slots :
               /\ row'[s].id = row[s].id
               /\ row'[s].text.of = row[s].text.of
               /\ row'[s].text.credentials = row[s].text.credentials
               /\ row[s].id # NoId => row'[s].text.key \in {key', other'}
      PROVE  ConnectionsInv'
  <2>1. ConnectionsTypeOK'
    BY <1>0, <1>2 DEF ConnectionsTypeOK, Row
  <2>2. IdsUnique' /\ RowsBound'
    BY <1>2 DEF IdsUnique, RowsBound
  <2>3. CallersInv'
    BY <1>0, <1>1 DEF CallersInv, CallerInv
  <2>4. ASSUME NEW i \in Ids PROVE UseInv(i)'
    <3>1. UseInv(i) /\ (Exists(i)' <=> Exists(i))
      BY <1>2 DEF Exists
    <3> QED BY <1>0, <1>2, <3>1 DEF UseInv
  <2> QED BY <2>1, <2>2, <2>3, <2>4
<1>3. CASE StopBackend
  <2>1. row' = row /\ key' = key /\ other' = other /\ up' = FALSE
    BY <1>3 DEF StopBackend
  <2> QED BY <1>0, <1>2, <2>1 DEF RowsBound
<1>4. ASSUME NEW new \in Keys, RotationFails(new) PROVE ConnectionsInv'
  <2>1. row' = [s \in Slots |-> row[s]] /\ key' = key /\ other' = other /\ up' = TRUE
    BY <1>4 DEF RotationFails, FailedRows, Rotated, StartBackend
  <2> QED BY <1>0, <1>2, <2>1 DEF RowsBound
\* whatever the operator is told, the new key is one of those it may be under
<1>5. ASSUME NEW old \in Keys, NEW new \in Keys, RotateKey(old, new) \/ RotationUnconfirmed(old, new)
      PROVE  ConnectionsInv'
  <2>1. /\ row' = [s \in Slots |-> IF row[s].id # NoId
                                  THEN [row[s] EXCEPT !.text.key = new] ELSE row[s]]
        /\ up' = TRUE /\ key' \in {key, new} /\ other' \in {new, NoKey}
        /\ new \in {key', other'}
    BY <1>5 DEF RotateKey, RotationUnconfirmed, Rotated, StartBackend
  <2>2. ASSUME NEW s \in Slots
        PROVE  /\ row'[s] \in Row
               /\ row'[s].id = row[s].id
               /\ row'[s].text.of = row[s].text.of
               /\ row'[s].text.credentials = row[s].text.credentials
               /\ row[s].id # NoId => row'[s].text.key = new
    <3>1. CASE row[s].id = NoId
      BY <1>0, <2>1, <3>1
    <3>2. CASE row[s].id # NoId
      <4> PICK w \in Row : w = row[s]
        BY <1>0
      <4> PICK x : x = [w EXCEPT !.text.key = new]
        OBVIOUS
      <4>1. row'[s] = x
        BY <2>1, <3>2
      <4>2. /\ x \in Row /\ x.id = w.id /\ x.text.of = w.text.of
            /\ x.text.credentials = w.text.credentials /\ x.text.key = new
        BY DEF Row, Ciphertext
      <4> QED BY <4>1, <4>2
    <3> QED BY <3>1, <3>2
  <2>3. row' \in [Slots -> Row]
    BY <2>1, <2>2
  <2>4. up' \in BOOLEAN /\ key' \in Keys /\ other' \in Keys \cup {NoKey}
    BY <1>0, <2>1
  <2> QED BY <1>2, <2>1, <2>2, <2>3, <2>4
<1> QED BY <1>3, <1>4, <1>5

LEMMA NextConnections == ConnectionsInv /\ [ConnectionsNext]_xvars => ConnectionsInv'
<1> SUFFICES ASSUME ConnectionsInv, [ConnectionsNext]_xvars PROVE ConnectionsInv'
  OBVIOUS
<1>1. CASE UNCHANGED xvars
  <2>1. ConnectionsTypeOK' /\ IdsUnique' /\ RowsBound'
    BY <1>1 DEF xvars, ConnectionsInv, ConnectionsTypeOK, IdsUnique, RowsBound
  <2>2. CallersInv' /\ \A i \in Ids : UseInv(i)'
    BY <1>1 DEF xvars, ConnectionsInv, CallersInv, CallerInv, UseInv, Exists
  <2> QED BY <2>1, <2>2 DEF ConnectionsInv
<1>2. ASSUME NEW r \in Callers, CallerStep(r) PROVE ConnectionsInv'
  BY <1>2, NextCaller, NextStore, NextLock, NextDelete DEF CallerStep
<1> QED BY <1>1, <1>2, NextUse, NextKey DEF ConnectionsNext

\* Every stored connection is bound to its identity, and whenever the backend
\* runs it can decrypt it with its key, or could with that of a rotation that
\* was reported as failed although it was committed (exchange/security.py,
\* exchange/repository.py, exchange/rotate_key.py).
THEOREM DecryptableTheorem == ConnectionsSpec => []RowsDecryptable
<1>1. ConnectionsInv => RowsDecryptable
  BY DEF ConnectionsInv, RowsBound, RowsDecryptable
<1> QED BY <1>1, InitConnections, NextConnections, PTL DEF ConnectionsSpec

\* Credentials are neither replaced nor deleted while a worker with the lock
\* has them, or an order or a position of such a worker depends on them, and a
\* connection stays while any worker trades with it
\* (exchange/repository.py require_idle).
THEOREM InUseTheorem == ConnectionsSpec => []CredentialsInUseStay
<1>1. ConnectionsInv => CredentialsInUseStay
  <2> SUFFICES ASSUME ConnectionsInv, NEW id \in Ids,
                      exposure[id] # {} \/ stray[id] \/ lock[id] = "worker"
               PROVE  /\ Exists(id)
                      /\ lock[id] = "worker" => using[id] = CredentialsOf(id)
                      /\ \A c \in exposure[id] \ {"stray"} : c = CredentialsOf(id)
    BY DEF CredentialsInUseStay
  <2>1. UseInv(id)
    BY DEF ConnectionsInv
  <2>2. Exists(id)
    BY <2>1 DEF UseInv
  <2>3. SlotOf(id) \in Slots /\ row[SlotOf(id)].id = id
    BY <2>2, SlotOfRow DEF ConnectionsInv
  <2> QED BY <2>1, <2>2, <2>3 DEF UseInv, CredentialsOf
<1> QED BY <1>1, InitConnections, NextConnections, PTL DEF ConnectionsSpec

-----------------------------------------------------------------------------
(***************************************************************************)
(* Forecasts.  A fetch is stamped before its answer, so that a candle with *)
(* a late enough stamp is final.                                           *)
(***************************************************************************)
Task == [pc: {"free", "history", "ask", "reask", "store", "restore",
              "reread", "save", "saved", "activate"},
         now: Nat, version: Versions \cup {NoVersion}, end: Candles,
         stamp: Nat, answer: Nat, left: SUBSET Candles]

StampInv(p) ==
  /\ task[p].pc \in {"ask", "reask"} => task[p].stamp <= closed
  /\ task[p].pc \in {"store", "restore"} => task[p].stamp <= task[p].answer

\* What a task trains or uses.
VersionInv(p) ==
  /\ task[p].pc \in {"save", "saved"} => task[p].version \in Versions
  /\ task[p].pc = "saved" => artifact[task[p].version] = "complete"
  /\ task[p].pc \in {"activate", "history", "reask", "restore", "reread"} =>
       task[p].version \in Versions /\ model[task[p].version].registered

ForecastsInv ==
  /\ ModelsArePublished
  /\ task \in [Tasks -> Task]
  /\ \A n \in Candles : candle[n].fetched = "late" => candle[n].final
  /\ ForecastsAreFinal
  /\ \A p \in Tasks : StampInv(p) /\ VersionInv(p)

\* A set of candles that is not empty has a last one: counting the later ones
\* tells the candles apart, so one of them has none.
LEMMA LastCandle ==
  ASSUME NEW S \in SUBSET Candles, S # {}
  PROVE  Max(S) \in S
<1>1. S \subseteq Nat /\ MaxClosed \in Nat
  BY ForecastsAssumption DEF Candles
<1>2. IsFiniteSet(Candles)
  BY <1>1, FS_Interval DEF Candles
<1>3. IsFiniteSet(S)
  BY <1>2, FS_Subset
<1>4. PICK k \in Nat : k = Cardinality(S)
  BY <1>3, FS_CardinalityType
<1>5. k # 0
  BY <1>3, <1>4, FS_EmptySet
<1>6. PICK later \in [S -> SUBSET S] : later = [x \in S |-> {y \in S : y > x}]
  OBVIOUS
<1>7. \A x \in S : IsFiniteSet(later[x])
  BY <1>3, FS_Subset
<1>8. PICK f : f = [x \in S |-> Cardinality(later[x])]
  OBVIOUS
<1>9. ASSUME NEW x \in S PROVE f[x] \in 0 .. k - 1
  <2>1. later[x] \in SUBSET (S \ {x})
    BY <1>1, <1>6
  <2>2. IsFiniteSet(S \ {x}) /\ Cardinality(S \ {x}) = k - 1
    BY <1>3, <1>4, FS_RemoveElement
  <2>3. Cardinality(later[x]) <= k - 1
    BY <2>1, <2>2, FS_Subset
  <2>4. Cardinality(later[x]) \in Nat
    BY <1>7, FS_CardinalityType
  <2> QED BY <1>8, <2>3, <2>4
<1>10. ASSUME NEW x \in S, NEW z \in S, x < z PROVE f[x] # f[z]
  <2>1. later[x] = {y \in S : y > x} /\ later[z] = {y \in S : y > z}
    BY <1>6
  <2>2. \A y \in S : y > z => y > x
    BY <1>1, <1>10
  <2>3. z > x /\ ~ (z > z)
    BY <1>1, <1>10
  <2>4. later[z] \in SUBSET later[x] /\ z \in later[x] /\ z \notin later[z]
    BY <2>1, <2>2, <2>3
  <2>5. Cardinality(later[x]) # Cardinality(later[z])
    BY <1>7, <2>4, FS_Subset
  <2> QED BY <1>8, <2>5
<1>11. f \in Injection(S, 0 .. k - 1)
  <2>1. f \in [S -> 0 .. k - 1]
    BY <1>8, <1>9
  <2>2. ASSUME NEW x \in S, NEW z \in S, f[x] = f[z] PROVE x = z
    <3>1. x < z \/ z < x \/ x = z
      BY <1>1
    <3> QED BY <1>10, <2>2, <3>1
  <2> QED BY <2>1, <2>2 DEF Injection, IsInjective
<1>12. IsFiniteSet(0 .. k - 1) /\ Cardinality(0 .. k - 1) = k
  BY <1>5, FS_Interval
<1>13. f \in Surjection(S, 0 .. k - 1)
  BY <1>4, <1>11, <1>12, FS_Injection
<1>14. 0 \in 0 .. k - 1
  BY <1>5
<1>15. PICK x \in S : f[x] = 0
  BY <1>13, <1>14 DEF Surjection
<1>16. later[x] = {}
  BY <1>7, <1>8, <1>15, FS_EmptySet
<1>17. \A y \in S : x >= y
  BY <1>1, <1>6, <1>16
<1> QED BY <1>17 DEF Max

LEMMA InitForecasts == ForecastsInit => ForecastsInv
<1> SUFFICES ASSUME ForecastsInit PROVE ForecastsInv
  OBVIOUS
<1>1. 0 \in Candles /\ Free \in Task /\ Free.pc = "free"
  BY ForecastsAssumption DEF Candles, Free, Task
<1>2. /\ candle \in [Candles -> Candle]
      /\ \A n \in Candles : candle[n].fetched = "unknown"
  <2>1. \A c \in {NoCandle} \cup Legacy : c \in Candle /\ c.fetched = "unknown"
    <3>1. NoCandle \in Candle /\ NoCandle.fetched = "unknown"
      BY DEF Candle, NoCandle
    <3> QED BY <3>1 DEF Legacy
  <2> QED BY <2>1 DEF ForecastsInit
<1>3. /\ forecast \in [version: Versions \cup {NoVersion}, candles: SUBSET Candle]
      /\ forecast.version = NoVersion /\ forecast.candles = {}
  BY DEF ForecastsInit, NoForecast
<1>4. /\ model \in [Versions -> [registered: BOOLEAN, end: Candles]]
      /\ \A v \in Versions : ~ model[v].registered
  BY <1>1 DEF ForecastsInit, NotTrained
<1>5. task \in [Tasks -> Task] /\ \A p \in Tasks : task[p].pc = "free"
  BY <1>1 DEF ForecastsInit
<1>6. ForecastsTypeOK
  BY <1>2, <1>3, <1>4, <1>5 DEF ForecastsInit, ForecastsTypeOK
<1>7. ModelsArePublished /\ ForecastsAreFinal
  BY <1>3, <1>4, <1>6 DEF ForecastsInit, ModelsArePublished, ForecastsAreFinal
<1> QED BY <1>2, <1>5, <1>7 DEF ForecastsInv, StampInv, VersionInv

\* A task goes on as y, and nothing else changes.
LEMMA TaskMoves ==
  ASSUME ForecastsInv, NEW p \in Tasks, NEW y \in Task,
         task' = [task EXCEPT ![p] = y],
         UNCHANGED <<closed, candle, artifact, model, active, forecast>>,
         y.pc \in {"ask", "reask"} => y.stamp <= closed,
         y.pc \in {"store", "restore"} => y.stamp <= y.answer,
         y.pc \in {"save", "saved"} => y.version \in Versions,
         y.pc = "saved" => artifact[y.version] = "complete",
         y.pc \in {"activate", "history", "reask", "restore", "reread"} =>
           y.version \in Versions /\ model[y.version].registered
  PROVE  ForecastsInv'
<1> USE DEF ForecastsInv
<1>1. /\ task' \in [Tasks -> Task] /\ task'[p] = y
      /\ \A q \in Tasks : q # p => task'[q] = task[q]
  OBVIOUS
<1>2. ForecastsTypeOK'
  BY <1>1 DEF ModelsArePublished, ForecastsTypeOK, Task
<1>3. ModelsArePublished' /\ ForecastsAreFinal'
  BY <1>2 DEF ModelsArePublished, ForecastsAreFinal
<1>4. ASSUME NEW q \in Tasks PROVE StampInv(q)' /\ VersionInv(q)'
  <2>1. StampInv(q) /\ VersionInv(q)
    OBVIOUS
  <2>2. CASE q = p
    BY <1>1, <2>2 DEF StampInv, VersionInv
  <2>3. CASE q # p
    BY <1>1, <2>1, <2>3 DEF StampInv, VersionInv
  <2> QED BY <2>2, <2>3
<1> QED BY <1>1, <1>3, <1>4

LEMMA MovingSteps ==
  ASSUME ForecastsInv, NEW p \in Tasks,
         \/ StartFetch(p) \/ ProviderAnswers(p) \/ Stored(p) \/ Predict(p)
         \/ RefreshHistory(p) \/ Abort(p) \/ \E v \in Versions : ReadVersion(p, v)
  PROVE  ForecastsInv'
<1>1. /\ task[p] \in Task /\ StampInv(p) /\ VersionInv(p)
      /\ closed \in Nat /\ closed <= closed /\ ModelsArePublished
      /\ UNCHANGED <<closed, candle, artifact, model, active, forecast>>
  <2>1. task[p] \in Task /\ StampInv(p) /\ VersionInv(p) /\ ModelsArePublished
    BY DEF ForecastsInv
  <2>2. closed \in Candles
    BY <2>1 DEF ModelsArePublished, ForecastsTypeOK
  <2>3. closed \in Nat /\ closed <= closed
    BY <2>2, ForecastsAssumption DEF Candles
  <2>4. UNCHANGED <<closed, candle, artifact, model, active, forecast>>
    BY DEF StartFetch, ProviderAnswers, Stored, Predict, RefreshHistory, Abort, ReadVersion
  <2> QED BY <2>1, <2>3, <2>4
<1>2. 0 \in Candles
  BY ForecastsAssumption DEF Candles
<1>3. Free \in Task /\ Free.pc = "free"
  BY <1>2 DEF Free, Task
<1>4. CASE StartFetch(p)
  <2>1. PICK y : y = [Free EXCEPT !.pc = "ask", !.stamp = closed]
    OBVIOUS
  <2>2. y \in Task /\ y.pc = "ask" /\ y.stamp = closed
    BY <1>1, <1>3, <2>1 DEF Task
  <2>3. task' = [task EXCEPT ![p] = y]
    BY <1>4, <2>1 DEF StartFetch, Goto
  <2> QED BY <1>1, <2>2, <2>3, TaskMoves
<1>5. CASE ProviderAnswers(p)
  <2>1. PICK answered \in SUBSET Candles, next \in {"store", "restore"} :
           /\ task' = [task EXCEPT ![p] = [task[p] EXCEPT !.pc = next, !.answer = closed,
                                                          !.left = answered]]
           /\ next = IF task[p].pc = "ask" THEN "store" ELSE "restore"
    BY <1>5 DEF ProviderAnswers, Goto
  <2>2. PICK y : y = [task[p] EXCEPT !.pc = next, !.answer = closed, !.left = answered]
    OBVIOUS
  <2>3. task[p].pc \in {"ask", "reask"}
    BY <1>5 DEF ProviderAnswers
  <2>4. /\ y \in Task /\ y.version = task[p].version /\ y.pc = next
        /\ y.stamp = task[p].stamp /\ y.answer = closed
    BY <1>1, <2>1, <2>2 DEF Task
  <2>5. y.stamp <= y.answer
    BY <1>1, <2>3, <2>4 DEF StampInv
  <2>6. y.pc = "restore" => y.version \in Versions /\ model[y.version].registered
    BY <1>1, <2>1, <2>3, <2>4 DEF VersionInv
  <2> QED BY <1>1, <2>1, <2>2, <2>4, <2>5, <2>6, TaskMoves
<1>6. CASE Stored(p)
  <2>1. CASE task[p].pc = "store"
    BY <1>1, <1>3, <1>6, <2>1, TaskMoves DEF Stored, Ends, Goto
  <2>2. CASE task[p].pc = "restore"
    <3>1. PICK y : y = [Free EXCEPT !.pc = "reread", !.now = task[p].now,
                                    !.version = task[p].version]
      OBVIOUS
    <3>2. y \in Task /\ y.pc = "reread" /\ y.version = task[p].version
      BY <1>1, <1>3, <3>1 DEF Task
    <3>3. task' = [task EXCEPT ![p] = y]
      BY <1>6, <2>2, <3>1 DEF Stored, Goto
    <3>4. y.version \in Versions /\ model[y.version].registered
      BY <1>1, <2>2, <3>2 DEF VersionInv
    <3> QED BY <1>1, <3>2, <3>3, <3>4, TaskMoves
  <2> QED BY <1>6, <2>1, <2>2 DEF Stored
<1>7. CASE Predict(p)
  <2>1. PICK y : y = [Free EXCEPT !.pc = "history", !.now = closed, !.version = active]
    OBVIOUS
  <2>2. active \in Versions /\ model[active].registered
    BY <1>1, <1>7 DEF Predict, ModelsArePublished, ForecastsTypeOK
  <2>3. y \in Task /\ y.pc = "history" /\ y.version = active
    BY <1>1, <1>3, <2>1, <2>2 DEF Task
  <2>4. task' = [task EXCEPT ![p] = y]
    BY <1>7, <2>1 DEF Predict, Goto
  <2> QED BY <1>1, <2>2, <2>3, <2>4, TaskMoves
<1>8. CASE RefreshHistory(p)
  <2>1. PICK y : y = [task[p] EXCEPT !.pc = "reask", !.stamp = closed]
    OBVIOUS
  <2>2. y \in Task /\ y.pc = "reask" /\ y.version = task[p].version /\ y.stamp = closed
    BY <1>1, <2>1 DEF Task
  <2>3. task' = [task EXCEPT ![p] = y] /\ task[p].pc = "history"
    BY <1>8, <2>1 DEF RefreshHistory, NeedsRefresh, Goto
  <2>4. y.version \in Versions /\ model[y.version].registered
    BY <1>1, <2>2, <2>3 DEF VersionInv
  <2> QED BY <1>1, <2>2, <2>3, <2>4, TaskMoves
<1>9. CASE Abort(p)
  BY <1>1, <1>3, <1>9, TaskMoves DEF Abort, Ends, Goto
<1>10. CASE \E v \in Versions : ReadVersion(p, v)
  <2>1. PICK v \in Versions : ReadVersion(p, v)
    BY <1>10
  <2>2. PICK y : y = [Free EXCEPT !.pc = "activate", !.version = v]
    OBVIOUS
  <2>3. y \in Task /\ y.pc = "activate" /\ y.version = v
    BY <1>3, <2>2 DEF Task
  <2>4. task' = [task EXCEPT ![p] = y] /\ model[v].registered
    BY <2>1, <2>2 DEF ReadVersion, Goto
  <2> QED BY <1>1, <2>3, <2>4, TaskMoves
<1> QED BY <1>4, <1>5, <1>6, <1>7, <1>8, <1>9, <1>10

\* A candle that counts as late was fetched by a request sent after its close.
LEMMA StoreStep ==
  ASSUME ForecastsInv, NEW p \in Tasks, NEW n \in Candles, Store(p, n)
  PROVE  ForecastsInv'
<1>1. /\ task[p] \in Task /\ StampInv(p) /\ ModelsArePublished /\ ForecastsTypeOK
      /\ UNCHANGED <<closed, artifact, model, active, forecast>>
  BY DEF ForecastsInv, ModelsArePublished, Store
<1>2. PICK c : /\ c = [stored |-> TRUE, fetched |-> IF n < FetchedAt(p) THEN "late" ELSE "early",
                       final |-> n < task[p].answer]
               /\ candle' = [candle EXCEPT ![n] = c]
  BY DEF Store
<1>3. c \in Candle
  BY <1>2 DEF Candle
<1>4. c.fetched = "late" => c.final
  <2>1. /\ task[p].stamp \in Nat /\ task[p].answer \in Nat /\ n \in Nat
        /\ task[p].stamp <= task[p].answer
    BY <1>1 DEF Task, Candles, StampInv, Store
  <2>2. n < task[p].stamp => n < task[p].answer
    BY <2>1
  <2>3. (c.fetched = "late" <=> n < task[p].stamp) /\ (c.final <=> n < task[p].answer)
    BY <1>2 DEF FetchedAt
  <2> QED BY <2>2, <2>3
<1>5. candle' \in [Candles -> Candle]
  BY <1>1, <1>2, <1>3 DEF ForecastsTypeOK
<1>6. \A m \in Candles : candle'[m].fetched = "late" => candle'[m].final
  BY <1>1, <1>2, <1>4 DEF ForecastsInv, ForecastsTypeOK
<1>7. PICK y : y = [task[p] EXCEPT !.left = @ \ {n}] /\ task' = [task EXCEPT ![p] = y]
  BY DEF Store, Goto
<1>8. /\ y \in Task /\ y.pc = task[p].pc /\ y.version = task[p].version
      /\ y.stamp = task[p].stamp /\ y.answer = task[p].answer
  BY <1>1, <1>7 DEF Task
<1>9. /\ task' \in [Tasks -> Task] /\ task'[p] = y
      /\ \A q \in Tasks : q # p => task'[q] = task[q]
  BY <1>7, <1>8 DEF ForecastsInv
<1>10. ForecastsTypeOK'
  BY <1>1, <1>5, <1>9 DEF ForecastsTypeOK, Task
<1>11. ModelsArePublished' /\ ForecastsAreFinal'
  BY <1>1, <1>10 DEF ForecastsInv, ModelsArePublished, ForecastsAreFinal
<1>12. ASSUME NEW q \in Tasks PROVE StampInv(q)' /\ VersionInv(q)'
  <2>1. StampInv(q) /\ VersionInv(q)
    BY DEF ForecastsInv
  <2>2. CASE q = p
    BY <1>1, <1>8, <1>9, <2>1, <2>2 DEF StampInv, VersionInv
  <2>3. CASE q # p
    BY <1>1, <1>9, <2>1, <2>3 DEF StampInv, VersionInv
  <2> QED BY <2>2, <2>3
<1> QED BY <1>6, <1>9, <1>11, <1>12 DEF ForecastsInv

LEMMA CloseStep ==
  ASSUME ForecastsInv, CandleCloses
  PROVE  ForecastsInv'
<1>1. /\ ModelsArePublished /\ ForecastsTypeOK /\ task \in [Tasks -> Task]
      /\ closed < MaxClosed /\ closed' = closed + 1
      /\ UNCHANGED <<candle, artifact, model, active, task, forecast>>
  BY DEF ForecastsInv, ModelsArePublished, CandleCloses
<1>2. closed \in Nat /\ closed' \in Candles /\ closed <= closed'
  BY <1>1, ForecastsAssumption DEF ForecastsTypeOK, Candles
<1>3. ForecastsTypeOK'
  BY <1>1, <1>2 DEF ForecastsTypeOK
<1>4. ModelsArePublished' /\ ForecastsAreFinal'
  BY <1>1, <1>3 DEF ForecastsInv, ModelsArePublished, ForecastsAreFinal
<1>5. ASSUME NEW q \in Tasks PROVE StampInv(q)' /\ VersionInv(q)'
  <2>1. StampInv(q) /\ VersionInv(q) /\ task[q].stamp \in Nat
    BY <1>1 DEF ForecastsInv, Task
  <2>2. StampInv(q)'
    BY <1>1, <1>2, <2>1 DEF StampInv
  <2>3. VersionInv(q)'
    BY <1>1, <2>1 DEF VersionInv
  <2> QED BY <2>2, <2>3
<1> QED BY <1>1, <1>4, <1>5 DEF ForecastsInv


\* The artifacts of a version only grow, and the version of a task that trains
\* or uses one is kept.
LEMMA TrainStep ==
  ASSUME ForecastsInv, NEW p \in Tasks, NEW v \in Versions, Train(p, v)
  PROVE  ForecastsInv'
<1>1. /\ ModelsArePublished /\ ForecastsTypeOK /\ artifact[v] = "none"
      /\ artifact' = [artifact EXCEPT ![v] = "partial"]
      /\ UNCHANGED <<closed, candle, model, active, forecast>>
  BY DEF ForecastsInv, ModelsArePublished, Train
<1>2. Max(Frame(closed)) \in Candles
  <2>1. Frame(closed) \in SUBSET Candles
    BY DEF Frame
  <2>2. Cardinality(Frame(closed)) >= MinClosed
    BY DEF Train, FrameOK
  <2>3. Frame(closed) # {}
    BY <2>2, FS_EmptySet, ForecastsAssumption
  <2> QED BY <2>1, <2>3, LastCandle
<1>3. Free \in Task
  BY ForecastsAssumption DEF Free, Task, Candles
<1>4. PICK last \in Candles : last = Max(Frame(closed))
  BY <1>2
<1>5. PICK y : /\ y = [Free EXCEPT !.pc = "save", !.version = v, !.end = last]
               /\ task' = [task EXCEPT ![p] = y]
  BY <1>4 DEF Train, Goto
<1>6. y \in Task /\ y.pc = "save" /\ y.version = v
  BY <1>3, <1>5 DEF Task
<1>7. /\ task' \in [Tasks -> Task] /\ task'[p] = y
      /\ \A q \in Tasks : q # p => task'[q] = task[q]
  BY <1>5, <1>6 DEF ForecastsInv
<1>8. ForecastsTypeOK'
  BY <1>1, <1>7 DEF ForecastsTypeOK, Task
<1>9. \A w \in Versions : artifact[w] = "complete" => artifact'[w] = "complete"
  BY <1>1 DEF ForecastsTypeOK
<1>10. ModelsArePublished' /\ ForecastsAreFinal'
  BY <1>1, <1>8, <1>9 DEF ForecastsInv, ModelsArePublished, ForecastsAreFinal
<1>11. ASSUME NEW q \in Tasks PROVE StampInv(q)' /\ VersionInv(q)'
  <2>1. StampInv(q) /\ VersionInv(q)
    BY DEF ForecastsInv
  <2>2. CASE q = p
    BY <1>6, <1>7, <2>2 DEF StampInv, VersionInv
  <2>3. CASE q # p
    BY <1>1, <1>7, <1>9, <2>1, <2>3 DEF StampInv, VersionInv
  <2> QED BY <2>2, <2>3
<1> QED BY <1>1, <1>7, <1>10, <1>11 DEF ForecastsInv

LEMMA SaveStep ==
  ASSUME ForecastsInv, NEW p \in Tasks, SaveManifest(p)
  PROVE  ForecastsInv'
<1>1. /\ ModelsArePublished /\ ForecastsTypeOK /\ task[p] \in Task
      /\ task[p].version \in Versions
      /\ artifact' = [artifact EXCEPT ![task[p].version] = "complete"]
      /\ UNCHANGED <<closed, candle, model, active, forecast>>
  BY DEF ForecastsInv, ModelsArePublished, SaveManifest, VersionInv
<1>2. PICK y : y = [task[p] EXCEPT !.pc = "saved"] /\ task' = [task EXCEPT ![p] = y]
  BY DEF SaveManifest, Goto
<1>3. y \in Task /\ y.pc = "saved" /\ y.version = task[p].version
  BY <1>1, <1>2 DEF Task
<1>4. /\ task' \in [Tasks -> Task] /\ task'[p] = y
      /\ \A q \in Tasks : q # p => task'[q] = task[q]
  BY <1>2, <1>3 DEF ForecastsInv
<1>5. /\ \A w \in Versions : artifact[w] = "complete" => artifact'[w] = "complete"
      /\ artifact'[y.version] = "complete"
      /\ artifact' \in [Versions -> {"none", "partial", "complete"}]
  BY <1>1, <1>3 DEF ForecastsTypeOK
<1>6. ForecastsTypeOK'
  BY <1>1, <1>4, <1>5 DEF ForecastsTypeOK, Task
<1>7. ModelsArePublished' /\ ForecastsAreFinal'
  BY <1>1, <1>5, <1>6 DEF ForecastsInv, ModelsArePublished, ForecastsAreFinal
<1>8. ASSUME NEW q \in Tasks PROVE StampInv(q)' /\ VersionInv(q)'
  <2>1. StampInv(q) /\ VersionInv(q)
    BY DEF ForecastsInv
  <2>2. CASE q = p
    BY <1>1, <1>3, <1>4, <1>5, <2>2 DEF StampInv, VersionInv
  <2>3. CASE q # p
    BY <1>1, <1>4, <1>5, <2>1, <2>3 DEF StampInv, VersionInv
  <2> QED BY <2>2, <2>3
<1> QED BY <1>1, <1>4, <1>7, <1>8 DEF ForecastsInv

\* A task ends; rows of models are added, and a forecast is of a registered one.
LEMMA EndingSteps ==
  ASSUME ForecastsInv, NEW p \in Tasks,
         \/ \E activate \in BOOLEAN : Register(p, activate)
         \/ Activate(p)
         \/ RecordForecast(p)
  PROVE  ForecastsInv'
<1>1. /\ ModelsArePublished /\ ForecastsTypeOK /\ task[p] \in Task
      /\ StampInv(p) /\ VersionInv(p)
      /\ task' = [task EXCEPT ![p] = Free]
      /\ UNCHANGED <<closed, candle, artifact>>
  BY DEF ForecastsInv, ModelsArePublished, Register, Activate, RecordForecast, Ends, Goto
<1>2. Free \in Task /\ Free.pc = "free"
  BY ForecastsAssumption DEF Free, Task, Candles
<1>3. /\ task' \in [Tasks -> Task] /\ task'[p] = Free
      /\ \A q \in Tasks : q # p => task'[q] = task[q]
  BY <1>1, <1>2 DEF ForecastsInv
<1>4. /\ model' \in [Versions -> [registered: BOOLEAN, end: Candles]]
      /\ \A v \in Versions : model[v].registered => model'[v].registered
      /\ \A v \in Versions : model'[v].registered => artifact[v] = "complete"
      /\ active' \in Versions \cup {NoVersion}
      /\ active' # NoVersion => model'[active'].registered
      /\ forecast' \in [version: Versions \cup {NoVersion}, candles: SUBSET Candle]
      /\ forecast'.version # NoVersion => model'[forecast'.version].registered
      /\ \A c \in forecast'.candles : c.fetched # "unknown" => c.final
  <2>1. /\ model \in [Versions -> [registered: BOOLEAN, end: Candles]]
        /\ active \in Versions \cup {NoVersion}
        /\ forecast \in [version: Versions \cup {NoVersion}, candles: SUBSET Candle]
        /\ \A v \in Versions : model[v].registered => artifact[v] = "complete"
        /\ active # NoVersion => model[active].registered
        /\ forecast.version # NoVersion => model[forecast.version].registered
        /\ \A c \in forecast.candles : c.fetched # "unknown" => c.final
    BY <1>1 DEF ForecastsInv, ForecastsAreFinal, ModelsArePublished, ForecastsTypeOK
  <2>2. ASSUME NEW activate \in BOOLEAN, Register(p, activate)
        PROVE  <1>4
    <3>1. PICK v : v = task[p].version
      OBVIOUS
    <3>2. v \in Versions /\ artifact[v] = "complete" /\ task[p].end \in Candles
      BY <1>1, <2>2, <3>1 DEF Register, Registrable, VersionInv, Task
    <3>3. PICK r : r = [registered |-> TRUE, end |-> task[p].end]
      OBVIOUS
    <3>4. r \in [registered: BOOLEAN, end: Candles] /\ r.registered
      BY <3>2, <3>3
    <3>5. /\ model' = [model EXCEPT ![v] = r]
          /\ active' = IF activate THEN v ELSE active
          /\ forecast' = forecast
      BY <2>2, <3>1, <3>3 DEF Register
    <3>6. /\ model' \in [Versions -> [registered: BOOLEAN, end: Candles]]
          /\ model'[v].registered
          /\ \A w \in Versions : w # v => model'[w] = model[w]
      BY <2>1, <3>2, <3>4, <3>5
    <3> QED BY <2>1, <3>2, <3>5, <3>6
  <2>3. CASE Activate(p)
    <3>1. active' = task[p].version /\ model' = model /\ forecast' = forecast
      BY <2>3 DEF Activate
    <3>2. task[p].version \in Versions /\ model[task[p].version].registered
      BY <1>1, <2>3 DEF Activate, VersionInv
    <3> QED BY <2>1, <3>1, <3>2
  <2>4. CASE RecordForecast(p)
    <3>1. /\ model' = model /\ active' = active
          /\ forecast' = forecast \/ forecast' = Forecast(p)
      BY <2>4 DEF RecordForecast
    <3>2. task[p].version \in Versions /\ model[task[p].version].registered
      BY <1>1, <2>4 DEF RecordForecast, VersionInv
    <3>3. ASSUME NEW n \in Frame(task[p].now)
          PROVE  candle[n] \in Candle /\ (candle[n].fetched # "unknown" => candle[n].final)
      <4>1. n \in Candles /\ candle[n] \in Candle /\ candle[n].fetched # "early"
        BY <1>1 DEF Frame, Partial, ForecastsTypeOK
      <4>2. candle[n].fetched \in {"unknown", "early", "late"}
        BY <4>1 DEF Candle
      <4> QED BY <4>1, <4>2 DEF ForecastsInv
    <3>4. PICK t : t = Forecast(p)
      OBVIOUS
    <3>5. /\ t.version = task[p].version
          /\ \A c \in t.candles : c \in Candle /\ (c.fetched # "unknown" => c.final)
      BY <3>3, <3>4 DEF Forecast
    <3>6. t \in [version: Versions \cup {NoVersion}, candles: SUBSET Candle]
      BY <3>2, <3>4, <3>5 DEF Forecast
    <3> QED BY <2>1, <3>1, <3>2, <3>4, <3>5, <3>6
  <2> QED BY <2>2, <2>3, <2>4
<1>5. ForecastsTypeOK'
  BY <1>1, <1>3, <1>4 DEF ForecastsTypeOK, Task
<1>6. ModelsArePublished' /\ ForecastsAreFinal'
  BY <1>1, <1>4, <1>5 DEF ModelsArePublished, ForecastsAreFinal
<1>7. ASSUME NEW q \in Tasks PROVE StampInv(q)' /\ VersionInv(q)'
  <2>1. StampInv(q) /\ VersionInv(q)
    BY DEF ForecastsInv
  <2>2. CASE q = p
    BY <1>2, <1>3, <2>2 DEF StampInv, VersionInv
  <2>3. CASE q # p
    BY <1>1, <1>3, <1>4, <2>1, <2>3 DEF StampInv, VersionInv
  <2> QED BY <2>2, <2>3
<1>8. \A n \in Candles : candle'[n].fetched = "late" => candle'[n].final
  BY <1>1 DEF ForecastsInv
<1> QED BY <1>3, <1>6, <1>7, <1>8 DEF ForecastsInv

LEMMA NextForecasts ==
  ASSUME ForecastsInv, [ForecastsNext]_fvars
  PROVE  ForecastsInv'
<1>1. CASE UNCHANGED fvars
  BY <1>1 DEF fvars, ForecastsInv, ModelsArePublished, ForecastsTypeOK,
              ForecastsAreFinal, StampInv, VersionInv
<1>2. CASE CandleCloses
  BY <1>2, CloseStep
<1>3. ASSUME NEW p \in Tasks,
             \/ StartFetch(p) \/ ProviderAnswers(p) \/ Stored(p) \/ Predict(p)
             \/ RefreshHistory(p) \/ Abort(p) \/ \E v \in Versions : ReadVersion(p, v)
      PROVE  ForecastsInv'
  BY <1>3, MovingSteps
<1>4. ASSUME NEW p \in Tasks, NEW n \in Candles, Store(p, n)
      PROVE  ForecastsInv'
  BY <1>4, StoreStep
<1>5. ASSUME NEW p \in Tasks, NEW v \in Versions, Train(p, v)
      PROVE  ForecastsInv'
  BY <1>5, TrainStep
<1>6. ASSUME NEW p \in Tasks, SaveManifest(p)
      PROVE  ForecastsInv'
  BY <1>6, SaveStep
<1>7. ASSUME NEW p \in Tasks,
             \/ \E activate \in BOOLEAN : Register(p, activate)
             \/ Activate(p)
             \/ RecordForecast(p)
      PROVE  ForecastsInv'
  BY <1>7, EndingSteps
<1> QED BY <1>1, <1>2, <1>3, <1>4, <1>5, <1>6, <1>7 DEF ForecastsNext

\* No forecast is made from values that a candle with a fetched_at had before it
\* closed: of these candles the frame has only those whose request was sent after
\* their close (market/providers.py, prediction/data.py feature_frame).
THEOREM FinalTheorem == ForecastsSpec => []ForecastsAreFinal
<1>1. ForecastsInv => ForecastsAreFinal
  BY DEF ForecastsInv
<1> QED BY <1>1, InitForecasts, NextForecasts, PTL DEF ForecastsSpec

\* A registered, active or used version has all its artifacts, whichever
\* training dies and whoever activates at the same time
\* (prediction/artifacts.py, registry.py).
THEOREM PublishedTheorem == ForecastsSpec => []ModelsArePublished
<1>1. ForecastsInv => ModelsArePublished
  BY DEF ForecastsInv
<1> QED BY <1>1, InitForecasts, NextForecasts, PTL DEF ForecastsSpec

-----------------------------------------------------------------------------
(***************************************************************************)
(* Migrations.  A process that is past the lock is the only one; a         *)
(* baseline that was not misjudged has found its release in the database;  *)
(* and while a file is executed, the record is what was in the database    *)
(* before it, and has no version of the file.                              *)
(***************************************************************************)
Content == Nat \X Contents
Process == [pc: {"off", "lock", "create", "read", "loop", "file"},
            files: Releases \cup {<<>>}, baseline: BOOLEAN, at: Nat]

Begun(r) == runner[r].pc \in {"read", "loop", "file"}
Holds(r) == runner[r].pc = "create" \/ Begun(r)

ProcessInv(r) ==
  /\ Holds(r) <=> holder = r
  /\ runner[r].pc # "off" =>
       runner[r].files \in Releases /\ runner[r].at \in 1 .. Len(runner[r].files) + 1
  /\ runner[r].pc \in {"lock", "create", "read"} => runner[r].at = 1
  /\ runner[r].pc = "file" => runner[r].at <= Len(runner[r].files)
  /\ Begun(r) => tracked

Passed(r) == {<<n, runner[r].files[n]>> : n \in 1 .. runner[r].at - 1}

BaselineInv(r) ==
  Begun(r) /\ runner[r].baseline =>
    /\ "misjudged" \in flaws \/ Files(runner[r].files) = Applied
    /\ recorded = Passed(r)

ReleaseInv(r) ==
  /\ runner[r].pc \in {"loop", "file"} => Passed(r) \subseteq recorded
  /\ runner[r].pc = "file" => ~Known(r)
  /\ runner[r].pc = "file" /\ ~runner[r].baseline =>
       /\ schema = Append(Front(schema), Current(r)) /\ Front(schema) \in Seq(Content)
       /\ "misjudged" \in flaws \/ recorded \subseteq Range(Front(schema))
       /\ flaws # {} \/ recorded = Range(Front(schema))

UntrackedInv == ~tracked => recorded = {}

Busy(r) == runner[r].pc = "file" \/ (Begun(r) /\ runner[r].baseline)

RecordInv ==
  /\ \A f, g \in recorded : f[1] = g[1] => f = g
  /\ "misjudged" \in flaws \/ recorded \subseteq Applied
  /\ tracked /\ flaws = {} /\ (\A r \in Runners : ~Busy(r)) => Applied = recorded

MigrationsInv ==
  /\ MigrationsTypeOK /\ schema \in Seq(Content) /\ runner \in [Runners -> Process]
  /\ \A r \in Runners : ProcessInv(r) /\ BaselineInv(r) /\ ReleaseInv(r)
  /\ UntrackedInv /\ RecordInv /\ EachFileOnce

\* The content at the end of a sequence, and the sequence without it.
LEMMA AppendFacts ==
  ASSUME NEW S, NEW s \in Seq(S), NEW x \in S
  PROVE  /\ Append(s, x) \in Seq(S) /\ Front(Append(s, x)) = s
         /\ Range(Append(s, x)) = Range(s) \cup {x}
<1> DEFINE t == Append(s, x)
<1>1. /\ t \in Seq(S) /\ Len(t) = Len(s) + 1 /\ t[Len(s) + 1] = x
      /\ \A i \in 1 .. Len(s) : t[i] = s[i]
  BY AppendProperties
<1>2. Len(s) \in Nat /\ DOMAIN s = 1 .. Len(s) /\ DOMAIN t = 1 .. Len(s) + 1
  BY <1>1, LenProperties
<1>3. Front(t) = SubSeq(t, 1, Len(s))
  BY <1>1, <1>2 DEF Front
<1>4. \A i \in 1 .. Len(s) : t[i] \in S
  BY <1>1, <1>2, ElementOfSeq
<1>5. /\ Front(t) \in Seq(S) /\ Len(Front(t)) = Len(s)
      /\ \A i \in 1 .. Len(s) : Front(t)[i] = s[i]
  BY <1>1, <1>2, <1>3, <1>4, SubSeqProperties, Z3
<1>6. Front(t) = s
  BY <1>5, SeqEqual
<1>7. Range(t) = Range(s) \cup {x}
  BY <1>1, <1>2 DEF Range
<1> QED BY <1>1, <1>6, <1>7

LEMMA ReleaseFacts ==
  ASSUME NEW release \in Releases
  PROVE  /\ release \in Seq(Contents) /\ Len(release) \in Nat /\ release # <<>>
         /\ DOMAIN release = 1 .. Len(release)
         /\ \A n \in DOMAIN release : <<n, release[n]>> \in Content
<1>1. release \in Seq(Contents) /\ release # <<>>
  BY MigrationsAssumption
<1>2. Len(release) \in Nat /\ DOMAIN release = 1 .. Len(release)
  BY <1>1, LenProperties
<1>3. \A n \in 1 .. Len(release) : release[n] \in Contents
  BY <1>1, ElementOfSeq
<1> QED BY <1>1, <1>2, <1>3 DEF Content

LEMMA InitMigrations == MigrationsInit => MigrationsInv
<1> SUFFICES ASSUME MigrationsInit PROVE MigrationsInv
  OBVIOUS
<1>1. Off \in Process
  BY DEF Off, Process
<1>2. /\ \A r \in Runners : runner[r] = Off
      /\ runner \in [Runners -> Process] /\ MigrationsTypeOK
  BY <1>1 DEF MigrationsInit, MigrationsTypeOK, Off
<1>3. \A r \in Runners : ProcessInv(r) /\ BaselineInv(r) /\ ReleaseInv(r)
  BY <1>2, MigrationsAssumption
     DEF MigrationsInit, Off, ProcessInv, BaselineInv, ReleaseInv, Holds, Begun
<1>4. PICK s \in Untracked \cup {<<>>} : schema = [n \in DOMAIN s |-> <<n, s[n]>>]
  BY DEF MigrationsInit
<1>5. s \in Seq(Contents)
  BY MigrationsAssumption, EmptySeq
<1>6. Len(s) \in Nat /\ DOMAIN s = 1 .. Len(s) /\ \A n \in 1 .. Len(s) : s[n] \in Contents
  BY <1>5, LenProperties, ElementOfSeq
<1>7. schema \in [1 .. Len(s) -> Content]
  BY <1>4, <1>6 DEF Content
<1>8. schema \in Seq(Content)
  BY <1>6, <1>7, SeqDef
<1>9. EachFileOnce
  BY <1>4, <1>6 DEF EachFileOnce
<1>10. UntrackedInv /\ RecordInv
  BY DEF MigrationsInit, UntrackedInv, RecordInv
<1> QED BY <1>2, <1>3, <1>8, <1>9, <1>10 DEF MigrationsInv

\* The other processes are not past the lock while one is, and before the
\* table exists nobody writes.
LEMMA OthersStay ==
  ASSUME MigrationsInv, NEW r \in Runners, NEW q \in Runners, q # r, runner'[q] = runner[q],
         \/ UNCHANGED <<schema, tracked, recorded, holder, flaws>>
         \/ UNCHANGED <<schema, tracked, recorded, flaws>> /\ holder = NoRunner /\ holder' = r
         \/ holder = r /\ holder' \in {r, NoRunner} /\ (tracked => tracked')
  PROVE  ProcessInv(q)' /\ BaselineInv(q)' /\ ReleaseInv(q)'
<1>1. ProcessInv(q) /\ BaselineInv(q) /\ ReleaseInv(q)
  BY DEF MigrationsInv
<1>2. CASE UNCHANGED <<schema, tracked, recorded, holder, flaws>>
  BY <1>1, <1>2 DEF ProcessInv, BaselineInv, ReleaseInv, Holds, Begun, Passed, Current,
                    Known, Applied, Files
<1>3. CASE UNCHANGED <<schema, tracked, recorded, flaws>> /\ holder = NoRunner /\ holder' = r
  BY <1>1, <1>3, MigrationsAssumption
     DEF ProcessInv, BaselineInv, ReleaseInv, Holds, Begun, Known, Applied, Files
<1>4. CASE holder = r /\ holder' \in {r, NoRunner} /\ (tracked => tracked')
  BY <1>1, <1>4, MigrationsAssumption
     DEF ProcessInv, BaselineInv, ReleaseInv, Holds, Begun, Known, Applied, Files
<1> QED BY <1>2, <1>3, <1>4

\* With the database and its record unchanged, the record stays true unless
\* this process was writing and no longer is.
LEMMA RecordStays ==
  ASSUME MigrationsInv, NEW r \in Runners, NEW y \in Process,
         runner' = [runner EXCEPT ![r] = y],
         UNCHANGED <<schema, recorded, flaws>>,
         tracked' = tracked,
         ~Busy(r) \/ Busy(r)'
  PROVE  RecordInv' /\ EachFileOnce'
<1>1. RecordInv /\ EachFileOnce /\ runner \in [Runners -> Process]
  BY DEF MigrationsInv
<1>2. \A q \in Runners : q # r => runner'[q] = runner[q]
  BY <1>1
<1>3. (\A q \in Runners : ~Busy(q)') => \A q \in Runners : ~Busy(q)
  BY <1>2 DEF Busy, Begun
<1> QED BY <1>1, <1>3 DEF RecordInv, EachFileOnce, Applied

LEMMA StartStep ==
  ASSUME MigrationsInv, NEW r \in Runners, NEW release \in Releases, NEW baseline \in BOOLEAN,
         Start(r, release, baseline)
  PROVE  MigrationsInv'
<1> DEFINE y == [pc |-> "lock", files |-> release, baseline |-> baseline, at |-> 1]
<1>1. /\ runner[r].pc = "off" /\ runner' = [runner EXCEPT ![r] = y]
      /\ UNCHANGED <<schema, tracked, recorded, holder, flaws>>
  BY DEF Start
<1>2. /\ MigrationsTypeOK /\ schema \in Seq(Content) /\ runner \in [Runners -> Process]
      /\ ProcessInv(r) /\ UntrackedInv
  BY DEF MigrationsInv
<1>3. y \in Process /\ runner'[r] = y /\ \A q \in Runners : q # r => runner'[q] = runner[q]
  BY <1>1, <1>2 DEF Process
<1>4. /\ MigrationsTypeOK' /\ (schema \in Seq(Content))' /\ (runner \in [Runners -> Process])'
      /\ UntrackedInv'
  BY <1>1, <1>2, <1>3 DEF MigrationsTypeOK, UntrackedInv
<1>5. ProcessInv(r)' /\ BaselineInv(r)' /\ ReleaseInv(r)'
  BY <1>1, <1>2, <1>3, ReleaseFacts
     DEF ProcessInv, BaselineInv, ReleaseInv, Holds, Begun, Applied
<1>6. \A q \in Runners : q # r => ProcessInv(q)' /\ BaselineInv(q)' /\ ReleaseInv(q)'
  BY <1>1, <1>3, OthersStay
<1>7. RecordInv' /\ EachFileOnce'
  BY <1>1, <1>3, RecordStays DEF Busy, Begun
<1> QED BY <1>4, <1>5, <1>6, <1>7 DEF MigrationsInv

LEMMA LockStep ==
  ASSUME MigrationsInv, NEW r \in Runners, Lock(r)
  PROVE  MigrationsInv'
<1> DEFINE y == [runner[r] EXCEPT !.pc = "create"]
<1>1. /\ runner[r].pc = "lock" /\ runner' = [runner EXCEPT ![r] = y]
      /\ holder = NoRunner /\ holder' = r
      /\ UNCHANGED <<schema, tracked, recorded, flaws>>
  BY DEF Lock, Set
<1>2. /\ MigrationsTypeOK /\ schema \in Seq(Content) /\ runner \in [Runners -> Process]
      /\ ProcessInv(r) /\ UntrackedInv
  BY DEF MigrationsInv
<1>3. /\ y \in Process /\ runner'[r] = y /\ \A q \in Runners : q # r => runner'[q] = runner[q]
      /\ y.pc = "create" /\ y.files = runner[r].files
      /\ y.at = runner[r].at /\ y.baseline = runner[r].baseline
  BY <1>1, <1>2 DEF Process
<1>4. /\ MigrationsTypeOK' /\ (schema \in Seq(Content))' /\ (runner \in [Runners -> Process])'
      /\ UntrackedInv'
  BY <1>1, <1>2, <1>3 DEF MigrationsTypeOK, UntrackedInv
<1>5. ProcessInv(r)' /\ BaselineInv(r)' /\ ReleaseInv(r)'
  BY <1>1, <1>2, <1>3
     DEF ProcessInv, BaselineInv, ReleaseInv, Holds, Begun, Applied
<1>6. \A q \in Runners : q # r => ProcessInv(q)' /\ BaselineInv(q)' /\ ReleaseInv(q)'
  BY <1>1, <1>3, OthersStay
<1>7. RecordInv' /\ EachFileOnce'
  BY <1>1, <1>3, RecordStays DEF Busy, Begun
<1> QED BY <1>4, <1>5, <1>6, <1>7 DEF MigrationsInv

\* A process that ends without having changed anything, and was not writing, has
\* recorded everything or was misjudged.
LEMMA LeaveStep ==
  ASSUME MigrationsInv, NEW r \in Runners, Leave(r),
         ~Busy(r) \/ recorded = Applied \/ flaws # {},
         UNCHANGED <<schema, tracked, recorded, flaws>>
  PROVE  MigrationsInv'
<1>1. /\ runner' = [runner EXCEPT ![r] = Off]
      /\ holder' = IF holder = r THEN NoRunner ELSE holder
  BY DEF Leave
<1>2. /\ MigrationsTypeOK /\ schema \in Seq(Content) /\ runner \in [Runners -> Process]
      /\ UntrackedInv
  BY DEF MigrationsInv
<1>3. /\ Off \in Process /\ runner'[r] = Off /\ Off.pc = "off"
      /\ \A q \in Runners : q # r => runner'[q] = runner[q]
  BY <1>1, <1>2 DEF Process, Off
<1>4. /\ MigrationsTypeOK' /\ (schema \in Seq(Content))' /\ (runner \in [Runners -> Process])'
      /\ UntrackedInv'
  BY <1>1, <1>2, <1>3 DEF MigrationsTypeOK, UntrackedInv
<1>5. ProcessInv(r)' /\ BaselineInv(r)' /\ ReleaseInv(r)'
  BY <1>1, <1>3, MigrationsAssumption DEF ProcessInv, BaselineInv, ReleaseInv, Holds, Begun
<1>6. \A q \in Runners : q # r => ProcessInv(q)' /\ BaselineInv(q)' /\ ReleaseInv(q)'
  BY <1>1, <1>3, OthersStay
<1>7. RecordInv' /\ EachFileOnce'
  <2>1. CASE ~Busy(r)
    BY <1>1, <1>3, <2>1, RecordStays
  <2>2. CASE recorded = Applied \/ flaws # {}
    BY <2>2 DEF MigrationsInv, RecordInv, EachFileOnce, Applied
  <2> QED BY <2>1, <2>2
<1> QED BY <1>4, <1>5, <1>6, <1>7 DEF MigrationsInv

\* A baseline that is not refused finds no record; any other run finds an empty
\* database or a record.
LEMMA AcceptedFacts ==
  ASSUME MigrationsInv, NEW r \in Runners, runner[r].pc = "create", ~Refused(r)
  PROVE  /\ runner[r].baseline => recorded = {}
         /\ ~runner[r].baseline => tracked \/ schema = <<>>
BY DEF Refused, MigrationsInv, UntrackedInv

LEMMA CreateStep ==
  ASSUME MigrationsInv, NEW r \in Runners, CreateTable(r)
  PROVE  MigrationsInv'
<1>1. runner[r].pc = "create" /\ UNCHANGED <<schema, recorded>>
  BY DEF CreateTable
<1>2. CASE Refused(r)
  BY <1>1, <1>2, LeaveStep DEF CreateTable, Busy, Begun
<1>3. CASE ~Refused(r)
  <2> DEFINE y == [runner[r] EXCEPT !.pc = "read"]
  <2>1. /\ tracked' = TRUE /\ holder' = holder /\ runner' = [runner EXCEPT ![r] = y]
        /\ flaws' = flaws \cup IF Misjudged(r) THEN {"misjudged"} ELSE {}
    BY <1>3 DEF CreateTable, Set
  <2>0. /\ flaws \subseteq flaws' /\ flaws' \subseteq flaws \cup {"misjudged"}
        /\ Misjudged(r) => "misjudged" \in flaws'
        /\ ~Misjudged(r) => flaws' = flaws
    BY <2>1
  <2>2. /\ MigrationsTypeOK /\ schema \in Seq(Content) /\ runner \in [Runners -> Process]
        /\ ProcessInv(r) /\ UntrackedInv /\ RecordInv /\ EachFileOnce
    BY DEF MigrationsInv
  <2>3. /\ y \in Process /\ runner'[r] = y /\ \A q \in Runners : q # r => runner'[q] = runner[q]
        /\ y.pc = "read" /\ y.files = runner[r].files
        /\ y.at = runner[r].at /\ y.baseline = runner[r].baseline
    BY <2>1, <2>2 DEF Process
  <2>4. /\ MigrationsTypeOK' /\ (schema \in Seq(Content))' /\ (runner \in [Runners -> Process])'
        /\ UntrackedInv' /\ EachFileOnce'
    BY <1>1, <2>0, <2>1, <2>2, <2>3 DEF MigrationsTypeOK, UntrackedInv, EachFileOnce
  <2>5. runner[r].at = 1 /\ holder = r /\ runner[r].files \in Releases
    BY <1>1, <2>2 DEF ProcessInv, Holds
  <2>6. Passed(r)' = {}
    BY <2>3, <2>5 DEF Passed
  <2>7. ProcessInv(r)' /\ ReleaseInv(r)'
    BY <2>1, <2>2, <2>3, <2>5, ReleaseFacts DEF ProcessInv, ReleaseInv, Holds, Begun
  <2>8. BaselineInv(r)'
    BY <1>1, <1>3, <2>0, <2>3, <2>6, AcceptedFacts DEF BaselineInv, Misjudged, Applied
  <2>9. \A q \in Runners : q # r => ProcessInv(q)' /\ BaselineInv(q)' /\ ReleaseInv(q)'
    BY <1>1, <2>1, <2>3, <2>5, OthersStay
  <2>10. RecordInv'
    <3>1. CASE ~runner[r].baseline /\ ~tracked
      <4>1. schema = <<>> /\ recorded = {}
        BY <1>1, <1>3, <2>2, <3>1, AcceptedFacts DEF UntrackedInv
      <4>2. Applied = {}
        BY <4>1 DEF Applied, Range
      <4> QED BY <1>1, <4>1, <4>2 DEF RecordInv, Applied
    <3>2. CASE ~runner[r].baseline /\ tracked
      BY <1>1, <2>0, <2>1, <2>2, <2>3, <3>2, RecordStays DEF Busy, Begun, Misjudged
    <3>3. CASE runner[r].baseline
      BY <1>1, <2>0, <2>2, <2>3, <3>3 DEF RecordInv, Busy, Begun, Applied
    <3> QED BY <3>1, <3>2, <3>3
  <2> QED BY <2>4, <2>7, <2>8, <2>9, <2>10 DEF MigrationsInv
<1> QED BY <1>2, <1>3

\* What a process knows once it holds the lock and has found the table.
LEMMA BegunFacts ==
  ASSUME MigrationsInv, NEW r \in Runners, Begun(r)
  PROVE  /\ holder = r /\ tracked /\ runner[r] \in Process
         /\ runner[r].files \in Releases /\ runner[r].files \in Seq(Contents)
         /\ DOMAIN runner[r].files = 1 .. Len(runner[r].files)
         /\ Len(runner[r].files) \in Nat
         /\ runner[r].at \in 1 .. Len(runner[r].files) + 1
         /\ \A q \in Runners : Busy(q) => q = r
<1>1. ProcessInv(r) /\ runner[r] \in Process
  BY DEF MigrationsInv
<1>2. holder = r /\ tracked /\ runner[r].files \in Releases
  BY <1>1 DEF ProcessInv, Holds, Begun
<1>3. \A q \in Runners : Busy(q) => q = r
  BY <1>2 DEF MigrationsInv, ProcessInv, Holds, Busy, Begun
<1> QED BY <1>1, <1>2, <1>3, ReleaseFacts DEF ProcessInv, Begun

\* A run goes on from one file, or from the check of the rows, to the next.
LEMMA GoesOn ==
  ASSUME MigrationsInv, NEW r \in Runners, NEW at,
         \/ runner[r].pc = "read" /\ at = 1
         \/ runner[r].pc = "loop" /\ at = runner[r].at + 1,
         at \in 1 .. Len(runner[r].files) + 1,
         runner' = [runner EXCEPT ![r] = [runner[r] EXCEPT !.pc = "loop", !.at = at]],
         {<<n, runner[r].files[n]>> : n \in 1 .. at - 1} \subseteq recorded,
         runner[r].baseline => recorded = {<<n, runner[r].files[n]>> : n \in 1 .. at - 1},
         UNCHANGED <<schema, tracked, recorded, holder, flaws>>
  PROVE  MigrationsInv'
<1> DEFINE y == [runner[r] EXCEPT !.pc = "loop", !.at = at]
<1>1. /\ MigrationsTypeOK /\ schema \in Seq(Content) /\ runner \in [Runners -> Process]
      /\ ProcessInv(r) /\ BaselineInv(r) /\ UntrackedInv
  BY DEF MigrationsInv
<1>2. Begun(r)
  BY DEF Begun
<1>3. /\ holder = r /\ tracked /\ runner[r] \in Process /\ runner[r].files \in Releases
      /\ Len(runner[r].files) \in Nat
  BY <1>2, BegunFacts
<1>4. /\ y \in Process /\ runner'[r] = y /\ \A q \in Runners : q # r => runner'[q] = runner[q]
      /\ y.pc = "loop" /\ y.files = runner[r].files
      /\ y.at = at /\ y.baseline = runner[r].baseline
  <2>1. at \in Nat
    BY <1>3
  <2>2. /\ y \in Process /\ y.pc = "loop" /\ y.files = runner[r].files
        /\ y.at = at /\ y.baseline = runner[r].baseline
    BY <1>3, <2>1 DEF Process
  <2> QED BY <1>1, <2>2
<1>5. /\ MigrationsTypeOK' /\ (schema \in Seq(Content))' /\ (runner \in [Runners -> Process])'
      /\ UntrackedInv'
  BY <1>1, <1>4 DEF MigrationsTypeOK, UntrackedInv
<1>6. Passed(r)' = {<<n, runner[r].files[n]>> : n \in 1 .. at - 1}
  <2>1. runner'[r].files = runner[r].files /\ runner'[r].at = at
    BY <1>4
  <2> QED BY <2>1 DEF Passed
<1>7. ProcessInv(r)' /\ BaselineInv(r)' /\ ReleaseInv(r)'
  BY <1>1, <1>2, <1>3, <1>4, <1>6
     DEF ProcessInv, BaselineInv, ReleaseInv, Holds, Begun, Applied
<1>8. \A q \in Runners : q # r => ProcessInv(q)' /\ BaselineInv(q)' /\ ReleaseInv(q)'
  BY <1>4, OthersStay
<1>9. RecordInv' /\ EachFileOnce'
  BY <1>4, RecordStays DEF Busy, Begun
<1> QED BY <1>5, <1>7, <1>8, <1>9 DEF MigrationsInv

LEMMA ReadStep ==
  ASSUME MigrationsInv, NEW r \in Runners, ReadApplied(r)
  PROVE  MigrationsInv'
<1>1. /\ runner[r].pc = "read" /\ UNCHANGED <<schema, tracked, recorded, flaws>>
      /\ BaselineInv(r) /\ runner[r] \in Process /\ runner[r].at = 1
      /\ runner \in [Runners -> Process]
  BY DEF ReadApplied, MigrationsInv, ProcessInv
<1>2. Begun(r) /\ Passed(r) = {} /\ {<<n, runner[r].files[n]>> : n \in 1 .. 1 - 1} = {}
  BY <1>1 DEF Begun, Passed
<1>3. runner[r].baseline => recorded = {}
  BY <1>1, <1>2 DEF BaselineInv
<1>4. CASE \E f \in recorded : f[1] \notin DOMAIN runner[r].files
  <2>1. Leave(r)
    BY <1>4 DEF ReadApplied
  <2> QED BY <1>1, <1>3, <1>4, <2>1, LeaveStep DEF Busy
<1>5. CASE ~ \E f \in recorded : f[1] \notin DOMAIN runner[r].files
  <2>1. holder' = holder /\ runner' = [runner EXCEPT ![r] = [runner[r] EXCEPT !.pc = "loop"]]
    BY <1>5 DEF ReadApplied, Set
  <2>2. [runner[r] EXCEPT !.pc = "loop"] = [runner[r] EXCEPT !.pc = "loop", !.at = 1]
    BY <1>1 DEF Process
  <2>3. 1 \in 1 .. Len(runner[r].files) + 1
    BY <1>2, BegunFacts
  <2> QED BY <1>1, <1>2, <1>3, <2>1, <2>2, <2>3, GoesOn
<1> QED BY <1>4, <1>5

LEMMA SkipStep ==
  ASSUME MigrationsInv, NEW r \in Runners, Skip(r)
  PROVE  MigrationsInv'
<1>1. /\ runner[r].pc = "loop" /\ runner[r].at \in DOMAIN runner[r].files /\ Known(r)
      /\ UNCHANGED <<schema, tracked, recorded, flaws>>
      /\ BaselineInv(r) /\ ReleaseInv(r) /\ runner \in [Runners -> Process]
  BY DEF Skip, MigrationsInv
<1>2. /\ Begun(r) /\ runner[r] \in Process /\ Len(runner[r].files) \in Nat
      /\ runner[r].at \in 1 .. Len(runner[r].files)
  BY <1>1, BegunFacts DEF Begun
<1>3. ~runner[r].baseline
  BY <1>1, <1>2 DEF BaselineInv, Known, Passed
<1>4. CASE Mismatch(r)
  BY <1>1, <1>3, <1>4, LeaveStep DEF Skip, Busy
<1>5. CASE ~Mismatch(r)
  <2>0. PICK at : at = runner[r].at + 1
    OBVIOUS
  <2>1. holder' = holder /\ runner' = [runner EXCEPT ![r] = [runner[r] EXCEPT !.at = at]]
    BY <1>1, <1>5, <2>0 DEF Skip
  <2>2. [runner[r] EXCEPT !.at = at] = [runner[r] EXCEPT !.pc = "loop", !.at = at]
    BY <1>1, <1>2 DEF Process
  <2>3. Current(r) \in recorded /\ Passed(r) \subseteq recorded
    BY <1>1, <1>5 DEF Mismatch, ReleaseInv
  <2>4. {<<n, runner[r].files[n]>> : n \in 1 .. at - 1} = Passed(r) \cup {Current(r)}
    BY <1>2, <2>0 DEF Passed, Current
  <2>5. at \in 1 .. Len(runner[r].files) + 1
    BY <1>2, <2>0
  <2>6. {<<n, runner[r].files[n]>> : n \in 1 .. at - 1} \subseteq recorded
    BY <2>3, <2>4
  <2>7. runner' = [runner EXCEPT ![r] = [runner[r] EXCEPT !.pc = "loop", !.at = at]]
    BY <2>1, <2>2
  <2> QED BY <1>1, <1>3, <2>0, <2>1, <2>5, <2>6, <2>7, GoesOn
<1> QED BY <1>4, <1>5

LEMMA FinishStep ==
  ASSUME MigrationsInv, NEW r \in Runners, Finish(r)
  PROVE  MigrationsInv'
<1>1. /\ runner[r].pc = "loop" /\ runner[r].at \notin DOMAIN runner[r].files
      /\ Leave(r) /\ UNCHANGED <<schema, tracked, recorded, flaws>>
      /\ BaselineInv(r) /\ RecordInv
  BY DEF Finish, MigrationsInv
<1>2. CASE ~runner[r].baseline
  BY <1>1, <1>2, LeaveStep DEF Busy
<1>3. CASE runner[r].baseline
  <2>1. /\ Begun(r) /\ runner[r].at \in 1 .. Len(runner[r].files) + 1
        /\ Len(runner[r].files) \in Nat /\ DOMAIN runner[r].files = 1 .. Len(runner[r].files)
    BY <1>1, BegunFacts DEF Begun
  <2>2. runner[r].at - 1 = Len(runner[r].files)
    BY <1>1, <2>1
  <2>3. recorded = Applied \/ flaws # {}
    BY <1>1, <1>3, <2>1, <2>2 DEF BaselineInv, Passed, Files
  <2> QED BY <1>1, <2>3, LeaveStep
<1> QED BY <1>2, <1>3

LEMMA ExecuteStep ==
  ASSUME MigrationsInv, NEW r \in Runners, Execute(r)
  PROVE  MigrationsInv'
<1> DEFINE y == [runner[r] EXCEPT !.pc = "file"]
<1>1. /\ runner[r].pc = "loop" /\ runner[r].at \in DOMAIN runner[r].files /\ ~Known(r)
      /\ runner' = [runner EXCEPT ![r] = y]
      /\ UNCHANGED <<tracked, recorded, holder, flaws>>
  BY DEF Execute, Set
<1>2. /\ MigrationsTypeOK /\ schema \in Seq(Content) /\ runner \in [Runners -> Process]
      /\ ProcessInv(r) /\ BaselineInv(r) /\ ReleaseInv(r)
      /\ UntrackedInv /\ RecordInv /\ EachFileOnce
  BY DEF MigrationsInv
<1>3. /\ Begun(r) /\ holder = r /\ tracked /\ runner[r] \in Process
      /\ runner[r].files \in Releases /\ Len(runner[r].files) \in Nat
      /\ runner[r].at \in 1 .. Len(runner[r].files)
      /\ \A q \in Runners : Busy(q) => q = r
  BY <1>1, BegunFacts DEF Begun
<1>4. /\ y \in Process /\ runner'[r] = y /\ \A q \in Runners : q # r => runner'[q] = runner[q]
      /\ y.pc = "file" /\ y.files = runner[r].files
      /\ y.at = runner[r].at /\ y.baseline = runner[r].baseline
  BY <1>1, <1>2 DEF Process
<1>5. Passed(r)' = Passed(r) /\ Current(r)' = Current(r)
  BY <1>4 DEF Passed, Current
<1>6. Current(r) \in Content
  BY <1>1, <1>3, ReleaseFacts DEF Current
<1>7. MigrationsTypeOK' /\ (runner \in [Runners -> Process])' /\ UntrackedInv' /\ ProcessInv(r)'
  BY <1>1, <1>2, <1>3, <1>4 DEF MigrationsTypeOK, UntrackedInv, ProcessInv, Holds, Begun
<1>8. \A q \in Runners : q # r => ProcessInv(q)' /\ BaselineInv(q)' /\ ReleaseInv(q)'
  BY <1>1, <1>3, <1>4, OthersStay
<1>9. CASE runner[r].baseline
  <2>1. schema' = schema
    BY <1>9 DEF Execute
  <2>2. BaselineInv(r)' /\ ReleaseInv(r)'
    BY <1>1, <1>2, <1>3, <1>4, <1>5, <1>9, <2>1
       DEF BaselineInv, ReleaseInv, Begun, Known, Applied
  <2>3. RecordInv' /\ EachFileOnce'
    BY <1>1, <1>4, <2>1, RecordStays DEF Busy
  <2> QED BY <1>2, <1>7, <1>8, <2>1, <2>2, <2>3 DEF MigrationsInv
<1>10. CASE ~runner[r].baseline
  <2>1. schema' = Append(schema, Current(r))
    BY <1>10 DEF Execute
  <2>2. /\ schema' \in Seq(Content) /\ Front(schema') = schema
        /\ Range(schema') = Applied \cup {Current(r)}
    BY <1>2, <1>6, <2>1, AppendFacts DEF Applied
  <2>3. flaws # {} \/ recorded = Applied
    BY <1>1, <1>2, <1>3, <1>10 DEF RecordInv, Busy
  <2>4. ReleaseInv(r)'
    BY <1>1, <1>2, <1>4, <1>5, <2>1, <2>2, <2>3 DEF ReleaseInv, RecordInv, Known, Applied
  <2>5. BaselineInv(r)'
    BY <1>4, <1>10 DEF BaselineInv
  <2>6. RecordInv'
    BY <1>1, <1>2, <1>4, <2>2 DEF RecordInv, Busy, Applied
  <2>7. EachFileOnce'
    <3>1. SUFFICES ASSUME flaws = {} PROVE EachFileOnce'
      BY <1>1 DEF EachFileOnce
    <3>2. /\ Len(schema) \in Nat /\ DOMAIN schema = 1 .. Len(schema)
          /\ DOMAIN schema' = 1 .. Len(schema) + 1
          /\ schema'[Len(schema) + 1] = Current(r)
          /\ \A i \in 1 .. Len(schema) : schema'[i] = schema[i]
      BY <1>2, <1>6, <2>1, AppendProperties, LenProperties
    <3>3. \A i \in 1 .. Len(schema) : schema[i][1] # Current(r)[1]
      BY <1>1, <2>3, <3>1, <3>2 DEF Known, Current, Applied, Range
    <3>4. \A m, n \in 1 .. Len(schema) : schema[m][1] = schema[n][1] => m = n
      BY <1>2, <3>1, <3>2 DEF EachFileOnce
    <3> QED BY <3>2, <3>3, <3>4 DEF EachFileOnce
  <2> QED BY <1>7, <1>8, <2>2, <2>4, <2>5, <2>6, <2>7 DEF MigrationsInv
<1> QED BY <1>9, <1>10

LEMMA CommitStep ==
  ASSUME MigrationsInv, NEW r \in Runners, Commit(r)
  PROVE  MigrationsInv'
<1>0. PICK at : at = runner[r].at + 1
  OBVIOUS
<1> DEFINE y == [runner[r] EXCEPT !.pc = "loop", !.at = at]
<1>1. /\ runner[r].pc = "file" /\ recorded' = recorded \cup {Current(r)}
      /\ runner' = [runner EXCEPT ![r] = y]
      /\ UNCHANGED <<schema, tracked, holder, flaws>>
  BY <1>0 DEF Commit
<1>2. /\ MigrationsTypeOK /\ schema \in Seq(Content) /\ runner \in [Runners -> Process]
      /\ ProcessInv(r) /\ BaselineInv(r) /\ ReleaseInv(r)
      /\ UntrackedInv /\ RecordInv /\ EachFileOnce
  BY DEF MigrationsInv
<1>3. /\ Begun(r) /\ holder = r /\ tracked /\ runner[r] \in Process
      /\ runner[r].files \in Releases /\ Len(runner[r].files) \in Nat
      /\ DOMAIN runner[r].files = 1 .. Len(runner[r].files)
      /\ runner[r].at \in 1 .. Len(runner[r].files)
  BY <1>1, <1>2, BegunFacts DEF Begun, ProcessInv
<1>4. /\ y \in Process /\ runner'[r] = y /\ \A q \in Runners : q # r => runner'[q] = runner[q]
      /\ y.pc = "loop" /\ y.files = runner[r].files
      /\ y.at = at /\ y.baseline = runner[r].baseline
  <2>1. at \in Nat
    BY <1>0, <1>3
  <2>2. /\ y \in Process /\ y.pc = "loop" /\ y.files = runner[r].files
        /\ y.at = at /\ y.baseline = runner[r].baseline
    BY <1>3, <2>1 DEF Process
  <2> QED BY <1>1, <1>2, <2>2
<1>5. Passed(r)' = Passed(r) \cup {Current(r)}
  <2>1. runner'[r].files = runner[r].files /\ runner'[r].at = at
    BY <1>4
  <2>2. 1 .. at - 1 = (1 .. runner[r].at - 1) \cup {runner[r].at}
    BY <1>0, <1>3
  <2> QED BY <2>1, <2>2 DEF Passed, Current
<1>6. Current(r) \in Files(runner[r].files)
  BY <1>3 DEF Current, Files
<1>7. ProcessInv(r)'
  BY <1>0, <1>1, <1>2, <1>3, <1>4 DEF ProcessInv, Holds, Begun
<1>8. MigrationsTypeOK'
  <2>1. \A q \in Runners : runner'[q].pc \in {"off", "lock", "create", "read", "loop", "file"}
    BY <1>2, <1>4 DEF MigrationsTypeOK
  <2>2. (recorded \subseteq UNION {Files(release) : release \in Releases})'
    BY <1>1, <1>2, <1>3, <1>6 DEF MigrationsTypeOK
  <2> QED BY <1>1, <1>2, <2>1, <2>2 DEF MigrationsTypeOK
<1>9. UntrackedInv' /\ EachFileOnce' /\ (runner \in [Runners -> Process])'
  BY <1>1, <1>2, <1>3, <1>4 DEF UntrackedInv, EachFileOnce
<1>10. \A q \in Runners : q # r => ProcessInv(q)' /\ BaselineInv(q)' /\ ReleaseInv(q)'
  BY <1>1, <1>3, <1>4, OthersStay
<1>11. BaselineInv(r)' /\ ReleaseInv(r)'
  BY <1>1, <1>2, <1>3, <1>4, <1>5 DEF BaselineInv, ReleaseInv, Applied
<1>12. RecordInv'
  <2>0. \A f, g \in recorded' : f[1] = g[1] => f = g
    <3>1. \A f \in recorded : f[1] # Current(r)[1]
      BY <1>1, <1>2 DEF ReleaseInv, Known, Current
    <3> QED BY <1>1, <1>2, <3>1 DEF RecordInv
  <2>1. CASE runner[r].baseline
    <3>1. "misjudged" \in flaws \/ recorded' \subseteq Applied
      BY <1>1, <1>2, <1>3, <1>6, <2>1 DEF RecordInv, BaselineInv
    <3> QED BY <1>1, <1>4, <2>0, <2>1, <3>1 DEF RecordInv, Busy, Begun, Applied
  <2>2. CASE ~runner[r].baseline
    <3>1. /\ Front(schema) \in Seq(Content) /\ schema = Append(Front(schema), Current(r))
          /\ "misjudged" \in flaws \/ recorded \subseteq Range(Front(schema))
          /\ flaws # {} \/ recorded = Range(Front(schema))
      BY <1>1, <1>2, <2>2 DEF ReleaseInv
    <3>2. Current(r) \in Content
      BY <1>3, ReleaseFacts DEF Current
    <3>3. Applied = Range(Front(schema)) \cup {Current(r)}
      <4>1. PICK s \in Seq(Content) : s = Front(schema) /\ schema = Append(s, Current(r))
        BY <3>1
      <4>2. Range(schema) = Range(s) \cup {Current(r)}
        BY <3>2, <4>1, AppendFacts
      <4> QED BY <4>1, <4>2 DEF Applied
    <3>4. /\ "misjudged" \in flaws \/ recorded' \subseteq Applied'
          /\ flaws = {} => Applied' = recorded'
      <4>1. Applied' = Applied /\ recorded' = recorded \cup {Current(r)}
        BY <1>1 DEF Applied
      <4> QED BY <3>1, <3>3, <4>1
    <3> QED BY <1>1, <2>0, <3>4 DEF RecordInv
  <2> QED BY <2>1, <2>2
<1> QED BY <1>1, <1>2, <1>7, <1>8, <1>9, <1>10, <1>11, <1>12 DEF MigrationsInv

\* A process that dies takes back the file it was at, and nobody else's work.
LEMMA DieStep ==
  ASSUME MigrationsInv, NEW r \in Runners, Die(r)
  PROVE  MigrationsInv'
<1>1. /\ Leave(r) /\ UNCHANGED <<tracked, recorded>> /\ schema' = RolledBack(r)
      /\ runner' = [runner EXCEPT ![r] = Off]
      /\ holder' = IF holder = r THEN NoRunner ELSE holder
      /\ flaws' = flaws \cup IF runner[r].baseline /\ runner[r].pc \in {"read", "loop", "file"}
                             THEN {"halfway"} ELSE {}
  BY DEF Die, Leave
<1>2. /\ MigrationsTypeOK /\ schema \in Seq(Content) /\ runner \in [Runners -> Process]
      /\ UntrackedInv /\ RecordInv /\ EachFileOnce /\ ReleaseInv(r) /\ flaws \subseteq {"misjudged", "halfway"}
  BY DEF MigrationsInv, MigrationsTypeOK
<1>3. CASE ~Busy(r)
  <2>1. schema' = schema
    BY <1>1, <1>3 DEF RolledBack, Busy
  <2>2. flaws' = flaws
    BY <1>1, <1>2, <1>3 DEF Busy, Begun
  <2> QED BY <1>1, <1>3, <2>1, <2>2, LeaveStep
<1>4. CASE Busy(r)
  <2>1. Begun(r)
    BY <1>4 DEF Busy, Begun
  <2>2. holder = r /\ tracked /\ \A q \in Runners : Busy(q) => q = r
    BY <2>1, BegunFacts
  <2>3. /\ Off \in Process /\ runner'[r] = Off /\ Off.pc = "off"
        /\ \A q \in Runners : q # r => runner'[q] = runner[q]
    BY <1>1, <1>2 DEF Process, Off
  <2>4. /\ MigrationsTypeOK' /\ (runner \in [Runners -> Process])' /\ UntrackedInv'
        /\ ProcessInv(r)' /\ BaselineInv(r)' /\ ReleaseInv(r)'
    BY <1>1, <1>2, <2>2, <2>3, MigrationsAssumption
       DEF MigrationsTypeOK, UntrackedInv, ProcessInv, BaselineInv, ReleaseInv, Holds, Begun
  <2>5. \A q \in Runners : q # r => ProcessInv(q)' /\ BaselineInv(q)' /\ ReleaseInv(q)'
    BY <1>1, <2>2, <2>3, OthersStay
  <2>6. (schema \in Seq(Content))' /\ RecordInv' /\ EachFileOnce'
    <3>1. CASE runner[r].baseline
      <4>1. schema' = schema /\ flaws' # {} /\ ("misjudged" \in flaws => "misjudged" \in flaws')
        BY <1>1, <2>1, <3>1 DEF RolledBack, Begun
      <4> QED BY <1>1, <1>2, <4>1 DEF RecordInv, EachFileOnce, Applied
    <3>2. CASE ~runner[r].baseline
      <4>1. runner[r].pc = "file"
        BY <1>4, <3>2 DEF Busy
      <4>2. schema' = Front(schema) /\ flaws' = flaws
        BY <1>1, <1>2, <3>2, <4>1 DEF RolledBack
      <4>3. /\ Front(schema) \in Seq(Content) /\ schema = Append(Front(schema), Current(r))
            /\ "misjudged" \in flaws \/ recorded \subseteq Range(Front(schema))
            /\ flaws # {} \/ recorded = Range(Front(schema))
        BY <1>2, <3>2, <4>1 DEF ReleaseInv
      <4>4. RecordInv'
        BY <1>1, <1>2, <4>2, <4>3 DEF RecordInv, Applied
      <4>5. /\ DOMAIN Front(schema) \subseteq DOMAIN schema
            /\ \A i \in DOMAIN Front(schema) : Front(schema)[i] = schema[i]
        <5>1. runner[r].files \in Releases /\ runner[r].at \in DOMAIN runner[r].files
          BY <2>1, <4>1, BegunFacts DEF MigrationsInv, ProcessInv
        <5>2. Current(r) \in Content
          BY <5>1, ReleaseFacts DEF Current
        <5> QED BY <4>3, <5>2, AppendProperties, LenProperties
      <4>6. EachFileOnce'
        BY <1>2, <4>2, <4>5 DEF EachFileOnce
      <4> QED BY <4>2, <4>3, <4>4, <4>6
    <3> QED BY <3>1, <3>2
  <2> QED BY <2>4, <2>5, <2>6 DEF MigrationsInv
<1> QED BY <1>3, <1>4

LEMMA NextMigrations == MigrationsInv /\ [MigrationsNext]_mvars => MigrationsInv'
<1> SUFFICES ASSUME MigrationsInv, [MigrationsNext]_mvars PROVE MigrationsInv'
  OBVIOUS
<1>1. CASE UNCHANGED mvars
  BY <1>1 DEF mvars, MigrationsInv, MigrationsTypeOK, ProcessInv, BaselineInv, ReleaseInv,
     UntrackedInv, RecordInv, EachFileOnce, Holds, Begun, Busy, Passed, Current, Known,
     Applied
<1>2. ASSUME NEW r \in Runners, NEW release \in Releases, NEW baseline \in BOOLEAN,
             Start(r, release, baseline)
      PROVE  MigrationsInv'
  BY <1>2, StartStep
<1>3. ASSUME NEW r \in Runners,
             \/ Lock(r) \/ CreateTable(r) \/ ReadApplied(r)
             \/ Skip(r) \/ Execute(r) \/ Commit(r) \/ Finish(r) \/ Die(r)
      PROVE  MigrationsInv'
  BY <1>3, LockStep, CreateStep, ReadStep, SkipStep, ExecuteStep, CommitStep, FinishStep, DieStep
<1> QED BY <1>1, <1>2, <1>3 DEF MigrationsNext

\* Whatever runs, dies or is started beside another run, one version of each
\* file is recorded, and it is this release's of the files that a run has
\* passed; and unless a baseline was misjudged or died halfway, each file has
\* been executed once and the schema is what the record says (migrate.py run).
THEOREM RecordTheorem == MigrationsSpec => []SchemaMatchesRecord
<1>1. MigrationsInv => SchemaMatchesRecord
  <2> SUFFICES ASSUME MigrationsInv PROVE SchemaMatchesRecord
    OBVIOUS
  <2>1. MigrationsTypeOK /\ EachFileOnce
    BY DEF MigrationsInv
  <2>2. RecordIsTrue
    BY DEF MigrationsInv, RecordInv, RecordIsTrue, Busy
  <2>3. NoDrift
    BY DEF MigrationsInv, NoDrift, RecordInv, ReleaseInv, Passed
  <2> QED BY <2>1, <2>2, <2>3 DEF SchemaMatchesRecord
<1> QED BY <1>1, InitMigrations, NextMigrations, PTL DEF MigrationsSpec
=============================================================================
