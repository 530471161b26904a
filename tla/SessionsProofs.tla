--------------------------- MODULE SessionsProofs ---------------------------
(***************************************************************************)
(* Proofs of OneOpenEnd, RevokedIsFinal, RevocationReaches and             *)
(* NoFalseAlarm, for any number of sessions, tabs, requests and changes of *)
(* the password.                                                           *)
(*                                                                         *)
(* All rest on the row that a refresh has closed and not committed: it is *)
(* open until the commit (Holding), and no other request holds it          *)
(* (HeldOnce), because the conditional UPDATE and every revocation wait    *)
(* for its lock.  So the successor is inserted at the one open end of the  *)
(* chain, and never behind a revoked row.  Chains says that a chain is     *)
(* named by a row of the table: a login starts one that has no row yet.    *)
(*                                                                         *)
(* ReachInv follows a revocation from the rows it found to its end, and    *)
(* CalmInv the browser while nothing went wrong: the token of its cookie,  *)
(* the tokens of the answers under way and those that are presented.       *)
(***************************************************************************)
EXTENDS Sessions, TLAPS

SessionTypes ==
  /\ session \in [Ids -> SessionRow]
  /\ password \in 0..MaxPassword
  /\ cookie \in Ids \union {NoSession}
  /\ access \in [Tabs -> Ids \union {NoSession}]
  /\ req \in [Tabs -> Request]

Unmade == \A s \in Ids : session[s].made \/ ~session[s].revoked

Chains == \A s \in Made : session[s].chain \in Made

(* Tokens and the rows a revocation works on are rows of the table. *)
Known ==
  /\ cookie \in Made \union {NoSession}
  /\ \A w \in Tabs : /\ access[w] \in Made \union {NoSession}
                     /\ req[w].token \in Made \union {NoSession}
                     /\ req[w].rows \subseteq Made

Holding == \A w \in Tabs :
  /\ req[w].pc \in {"lookup", "close", "superseded", "answer"} => req[w].token \in Ids
  /\ req[w].pc = "commit" => req[w].token \in Ids /\ Open(req[w].token)

HeldOnce == \A v, w \in Tabs : v # w /\ req[v].pc = "commit" /\ req[w].pc = "commit"
                                 => req[v].token # req[w].token

ChainInv == SessionTypes /\ Unmade /\ Chains /\ Known /\ Holding /\ HeldOnce /\ OneOpenEnd

-----------------------------------------------------------------------------
Revoking(w) == req[w].pc = "revoke"
Replaces(w) == Revoking(w) /\ req[w].kind \in {"reset", "change"}

(* The rows a revocation did not find: inserted since, or the caller's. *)
OldPasswords == \A w \in Tabs : Replaces(w) => \A s \in Unrevoked :
  \/ s \in req[w].rows \union slipped
  \/ /\ req[w].kind = "change" /\ req[w].token \in Made
     /\ session[s].chain = session[req[w].token].chain

OldSuccessors == \A w \in Tabs : Revoking(w) => \A p \in req[w].rows :
  session[p].successor \in Unrevoked =>
    \/ session[p].successor \in req[w].rows \union slipped
    \/ req[w].kind = "change" /\ session[p].successor = req[w].token

ReachInv == OldPasswords /\ OldSuccessors /\ RevocationReaches

-----------------------------------------------------------------------------
Presents(w) == req[w].pc \in {"lookup", "close", "commit", "superseded"}

(* The answer that replaces a stale cookie is on its way. *)
CookieIsFresh == cookie # NoSession =>
  \/ session[cookie].superseded = "no"
  \/ /\ session[cookie].superseded = "recent"
     /\ \E w \in Tabs : At(w, "answer") /\ req[w].token = session[cookie].successor

(* A token that is on its way to the browser is nowhere else. *)
AnswersAreNew == \A w \in Tabs : At(w, "answer") =>
  /\ session[req[w].token].superseded = "no" /\ cookie # req[w].token
  /\ \A v \in Tabs \ {w} : Presents(v) \/ At(v, "answer") => req[v].token # req[w].token

NoneIsLate == \A w \in Tabs :
  /\ Presents(w) => session[req[w].token].superseded # "old"
  /\ At(w, "superseded") => session[req[w].token].superseded # "no"

Calm == /\ ~alarm /\ user = "active" /\ \A s \in Ids : ~session[s].revoked
        /\ \A w \in Tabs : req[w].kind # "reuse"
        /\ CookieIsFresh /\ AnswersAreNew /\ NoneIsLate

CalmInv == trouble \/ Calm

-----------------------------------------------------------------------------
(* Small facts: an idle tab, an empty row. *)
LEMMA IdleIsRequest == Idle \in Request /\ Idle.pc = "idle"
  BY SessionAssumption DEF Idle, Request

LEMMA NoRowIsRow ==
  /\ NoRow \in SessionRow /\ ~NoRow.made /\ ~NoRow.revoked
  /\ NoRow.superseded = "no" /\ NoRow.successor = NoSession
  BY SessionAssumption DEF NoRow, SessionRow

LEMMA NewRowIsRow ==
  ASSUME NEW chain \in Ids, NEW proof \in 0..MaxPassword
  PROVE  /\ NewRow(chain, proof) \in SessionRow
         /\ NewRow(chain, proof).made /\ ~NewRow(chain, proof).revoked
         /\ NewRow(chain, proof).superseded = "no"
         /\ NewRow(chain, proof).successor = NoSession
         /\ NewRow(chain, proof).chain = chain
  BY DEF NewRow, NoRow, SessionRow

(* A step of one tab that leaves the table alone: what counts is whether   *)
(* the tab holds a row now.                                                *)
LEMMA SameTable ==
  ASSUME ChainInv, NEW w \in Tabs, NEW q \in Request,
         session' = session, password' = password,
         req' = [req EXCEPT ![w] = q],
         cookie' \in Made \union {NoSession}, access' \in [Tabs -> Made \union {NoSession}],
         q.token \in Made \union {NoSession}, q.rows \subseteq Made,
         q.pc \in {"lookup", "close", "superseded", "answer"} => q.token \in Ids,
         q.pc = "commit" => /\ q.token \in Ids /\ Open(q.token)
                            /\ \A v \in Tabs \ {w} : req[v].pc = "commit" => req[v].token # q.token
  PROVE  ChainInv'
<1>. USE DEF ChainInv
<1>1. SessionTypes' /\ Made' = Made
  BY DEF SessionTypes, Made
<1>2. \A v \in Tabs : req'[v] = IF v = w THEN q ELSE req[v]
  BY DEF SessionTypes
<1>3. Unmade' /\ Chains' /\ OneOpenEnd'
  BY DEF Unmade, Chains, OneOpenEnd, Made
<1>4. Known'
  BY <1>1, <1>2 DEF Known
<1>5. Holding'
  BY <1>2 DEF Holding, Open
<1>6. HeldOnce'
  BY <1>2 DEF HeldOnce
<1>. QED
  BY <1>1, <1>3, <1>4, <1>5, <1>6

(* Rows are revoked, or age, or their proof is renewed, while none of them *)
(* is held: nothing else of the table changes.                             *)
LEMMA SameChains ==
  ASSUME ChainInv,
         session' \in [Ids -> SessionRow], password' \in 0..MaxPassword,
         \A s \in Ids : /\ session'[s].made = session[s].made
                        /\ session'[s].chain = session[s].chain
                        /\ session'[s].successor = session[s].successor
                        /\ session'[s].superseded = "no" <=> session[s].superseded = "no"
                        /\ session[s].made \/ ~session'[s].revoked
                        /\ Locked(s) => session'[s].revoked = session[s].revoked,
         req' \in [Tabs -> Request],
         \A v \in Tabs : req'[v] = req[v] \/ req'[v] = Idle,
         cookie' \in Made \union {NoSession}, access' \in [Tabs -> Made \union {NoSession}]
  PROVE  ChainInv'
<1>. USE DEF ChainInv
<1>1. SessionTypes' /\ Made' = Made
  BY DEF SessionTypes, Made
<1>2. Unmade'
  BY DEF Unmade
<1>3. Chains'
  BY <1>1 DEF Chains, Made
<1>4. OneOpenEnd'
  BY <1>1 DEF OneOpenEnd, Made
<1>5. Known'
  BY <1>1 DEF Known, Idle
<1>6. HeldOnce'
  BY DEF HeldOnce, Idle
<1>7. ASSUME NEW v \in Tabs
      PROVE  /\ req'[v].pc \in {"lookup", "close", "superseded", "answer"} => req'[v].token \in Ids
             /\ req'[v].pc = "commit" =>
                  /\ req'[v].token \in Ids /\ session'[req'[v].token].made
                  /\ ~session'[req'[v].token].revoked /\ session'[req'[v].token].superseded = "no"
  <2>1. CASE req'[v] = req[v]
    <3>1. req[v].pc = "commit" => /\ req[v].token \in Ids /\ Open(req[v].token)
                                  /\ Locked(req[v].token)
      BY DEF Holding, Locked, At
    <3>. QED
      BY <2>1, <3>1 DEF Holding, Open
  <2>2. CASE req'[v] = Idle
    BY <2>2 DEF Idle
  <2>. QED
    BY <2>1, <2>2
<1>8. Holding'
  BY <1>7 DEF Holding, Open
<1>. QED
  BY <1>1, <1>2, <1>3, <1>4, <1>5, <1>6, <1>8

LEMMA AccessKnown ==
  ASSUME ChainInv
  PROVE  /\ access \in [Tabs -> Made \union {NoSession}]
         /\ \A w \in Tabs, s \in Made \union {NoSession} :
              [access EXCEPT ![w] = s] \in [Tabs -> Made \union {NoSession}]
  BY DEF ChainInv, SessionTypes, Known

-----------------------------------------------------------------------------
(* Requests that leave the table alone. *)
LEMMA BeginsPreserves ==
  ASSUME ChainInv, NEW w \in Tabs,
         Login(w) \/ Refresh(w) \/ (\E kind \in RevokingKinds : StartRevoking(w, kind))
  PROVE  ChainInv'
<1>. USE IdleIsRequest, AccessKnown
<1>1. CASE Login(w)
  <2>. DEFINE q == [Idle EXCEPT !.kind = "login", !.pc = "create", !.proof = password]
  <2>1. q \in Request /\ q.pc = "create" /\ q.token = NoSession /\ q.rows = {}
    BY DEF ChainInv, SessionTypes, Idle, Request
  <2>2. req' = [req EXCEPT ![w] = q] /\ UNCHANGED <<session, password, cookie, access>>
    BY <1>1 DEF Login, Begins, database, browser
  <2>. HIDE DEF q
  <2>. QED
    BY <2>1, <2>2, SameTable DEF ChainInv, Known
<1>2. CASE Refresh(w)
  <2>. DEFINE q == [Idle EXCEPT !.kind = "refresh", !.pc = "lookup", !.token = cookie]
  <2>1. q \in Request /\ q.pc = "lookup" /\ q.token = cookie /\ q.rows = {} /\ cookie \in Ids
    BY <1>2 DEF Refresh, ChainInv, SessionTypes, Idle, Request
  <2>2. req' = [req EXCEPT ![w] = q] /\ UNCHANGED <<session, password, cookie, access>>
    BY <1>2 DEF Refresh, Begins, database, browser
  <2>. HIDE DEF q
  <2>. QED
    BY <2>1, <2>2, SameTable DEF ChainInv, Known
<1>3. ASSUME NEW kind \in RevokingKinds, StartRevoking(w, kind)
      PROVE  ChainInv'
  <2>. DEFINE q == [Idle EXCEPT !.kind = kind, !.pc = "revoke",
                          !.token = IF kind = "change" THEN access[w] ELSE NoSession,
                          !.rows = Unrevoked \ Kept(w, kind)]
  <2>1. q \in Request /\ q.pc = "revoke" /\ q.token \in Made \union {NoSession}
        /\ q.rows \subseteq Made
    BY DEF ChainInv, SessionTypes, Known, Idle, Request, RevokingKinds, Unrevoked, Made
  <2>2. req' = [req EXCEPT ![w] = q] /\ UNCHANGED <<session, password, cookie, access>>
    BY <1>3 DEF StartRevoking, Begins, database, browser
  <2>. HIDE DEF q
  <2>. QED
    BY <2>1, <2>2, SameTable DEF ChainInv, Known
<1>. QED
  BY <1>1, <1>2, <1>3

LEMMA RefusedPreserves ==
  ASSUME ChainInv, NEW w \in Tabs, Refused(w), UNCHANGED <<session, password>>
  PROVE  ChainInv'
<1>1. Idle \in Request /\ Idle.pc = "idle" /\ Idle.token = NoSession /\ Idle.rows = {}
  BY IdleIsRequest DEF Idle
<1>2. /\ req' = [req EXCEPT ![w] = Idle] /\ cookie' = cookie
      /\ access' \in [Tabs -> Made \union {NoSession}]
  BY AccessKnown DEF Refused, Goes
<1>. QED
  BY <1>1, <1>2, SameTable DEF ChainInv, Known

(* The next program counter of a request that keeps its token. *)
LEMMA GoesPreserves ==
  ASSUME ChainInv, NEW w \in Tabs, NEW pc \in {"close", "superseded", "commit"},
         req[w].pc \in {"lookup", "close"},
         Goes(w, [req[w] EXCEPT !.pc = pc]), UNCHANGED <<session, password, browser>>,
         pc = "commit" => Open(req[w].token) /\ ~Locked(req[w].token)
  PROVE  ChainInv'
<1>. DEFINE q == [req[w] EXCEPT !.pc = pc]
<1>1. q \in Request /\ q.pc = pc /\ q.token = req[w].token /\ q.rows = req[w].rows
  BY DEF ChainInv, SessionTypes, Request
<1>2. /\ q.token \in Ids /\ q.token \in Made \union {NoSession} /\ q.rows \subseteq Made
  BY <1>1 DEF ChainInv, Holding, Known
<1>3. pc = "commit" => \A v \in Tabs \ {w} : req[v].pc = "commit" => req[v].token # q.token
  BY <1>1 DEF Locked, At
<1>4. req' = [req EXCEPT ![w] = q] /\ cookie' = cookie /\ access' = access
  BY DEF Goes, browser
<1>. HIDE DEF q
<1>. QED
  BY <1>1, <1>2, <1>3, <1>4, SameTable, AccessKnown DEF ChainInv, Known

LEMMA LookupPreserves ==
  ASSUME ChainInv, NEW w \in Tabs, Lookup(w)
  PROVE  ChainInv'
<1>1. UNCHANGED <<session, password>> /\ req[w].pc = "lookup"
  BY DEF Lookup, database, At
<1>. QED
  BY <1>1, RefusedPreserves, GoesPreserves DEF Lookup

(* The conditional UPDATE takes the lock of an open row that nobody holds. *)
LEMMA ClosePreserves ==
  ASSUME ChainInv, NEW w \in Tabs, Close(w)
  PROVE  ChainInv'
<1>1. UNCHANGED <<session, password, browser>> /\ req[w].pc = "close" /\ ~Locked(req[w].token)
  BY DEF Close, database, At
<1>2. CASE Open(req[w].token)
  BY <1>1, <1>2, GoesPreserves DEF Close, Closes
<1>3. CASE ~Open(req[w].token)
  BY <1>1, <1>3, GoesPreserves DEF Close, Closes
<1>. QED
  BY <1>2, <1>3

LEMMA AbortPreserves ==
  ASSUME ChainInv, NEW w \in Tabs, Abort(w)
  PROVE  ChainInv'
  BY RefusedPreserves DEF Abort, database

(* The access token of a successor is one of the table. *)
LEMMA ResolvePreserves ==
  ASSUME ChainInv, NEW w \in Tabs, ResolveGrace(w) \/ ResolveReuse(w)
  PROVE  ChainInv'
<1>. USE DEF ChainInv
<1>1. req[w].pc = "superseded" /\ req[w].token \in Made /\ UNCHANGED <<session, password, cookie>>
  BY SessionAssumption
     DEF ResolveGrace, ResolveReuse, At, Holding, Known, database, browser
<1>2. CASE ResolveGrace(w)
  <2>1. session[req[w].token].successor \in Made \union {NoSession}
    BY <1>1 DEF OneOpenEnd, SessionTypes, SessionRow, Made
  <2>2. access' \in [Tabs -> Made \union {NoSession}] /\ req' = [req EXCEPT ![w] = Idle]
    BY <1>2, <2>1, AccessKnown DEF ResolveGrace, Goes
  <2>3. Idle \in Request /\ Idle.pc = "idle" /\ Idle.token = NoSession /\ Idle.rows = {}
    BY IdleIsRequest DEF Idle
  <2>. QED
    BY <1>1, <2>2, <2>3, SameTable DEF Known
<1>3. CASE ResolveReuse(w)
  <2>. DEFINE q == [req[w] EXCEPT !.kind = "reuse", !.pc = "revoke", !.rows = Unrevoked]
  <2>1. q \in Request /\ q.pc = "revoke" /\ q.token = req[w].token /\ q.rows \subseteq Made
    BY DEF SessionTypes, Request, Unrevoked, Made
  <2>2. req' = [req EXCEPT ![w] = q] /\ access' = access
    BY <1>3 DEF ResolveReuse, Goes, browser
  <2>. HIDE DEF q
  <2>. QED
    BY <1>1, <2>1, <2>2, SameTable, AccessKnown DEF Known
<1>. QED
  BY <1>2, <1>3

LEMMA AnswerPreserves ==
  ASSUME ChainInv, NEW w \in Tabs, Answer(w) \/ LoseAnswer(w)
  PROVE  ChainInv'
<1>. USE DEF ChainInv
<1>1. Idle \in Request /\ Idle.pc = "idle" /\ Idle.token = NoSession /\ Idle.rows = {}
  BY IdleIsRequest DEF Idle
<1>2. req' = [req EXCEPT ![w] = Idle] /\ UNCHANGED <<session, password>>
  BY DEF Answer, LoseAnswer, Goes, database
<1>3. /\ cookie' \in Made \union {NoSession}
      /\ access' \in [Tabs -> Made \union {NoSession}]
  BY AccessKnown DEF Answer, LoseAnswer, Known
<1>. QED
  BY <1>1, <1>2, <1>3, SameTable

-----------------------------------------------------------------------------
(* Revocations wait for the rows that are held; rows age. *)
LEMMA RevokeOnePreserves ==
  ASSUME ChainInv, NEW w \in Tabs, Logout(w) \/ \E s \in Ids : RevokeSession(w, s)
  PROVE  ChainInv'
<1>. USE DEF ChainInv
<1>1. PICK s \in Made : /\ ~Locked(s) /\ password' = password
                        /\ session' = [session EXCEPT ![s].revoked = TRUE]
  BY DEF Logout, RevokeSession, RevokeOne, Known, Made
<1>2. /\ req' = [req EXCEPT ![w] = Idle]
      /\ cookie' \in Made \union {NoSession}
      /\ access' \in [Tabs -> Made \union {NoSession}]
  BY AccessKnown DEF Logout, RevokeSession, Begins, browser, Known
<1>3. session' \in [Ids -> SessionRow]
  BY <1>1 DEF SessionTypes, SessionRow, Made
<1>4. \A t \in Ids : session'[t] = IF t = s THEN [session[t] EXCEPT !.revoked = TRUE]
                                            ELSE session[t]
  BY <1>1 DEF SessionTypes, Made
<1>5. ASSUME NEW t \in Ids
      PROVE  /\ session'[t].made = session[t].made
             /\ session'[t].chain = session[t].chain
             /\ session'[t].successor = session[t].successor
             /\ session'[t].superseded = session[t].superseded
             /\ session[t].made \/ ~session'[t].revoked
             /\ Locked(t) => session'[t].revoked = session[t].revoked
  BY <1>1, <1>4 DEF SessionTypes, SessionRow, Unmade, Made
<1>6. req' \in [Tabs -> Request] /\ \A v \in Tabs : req'[v] = req[v] \/ req'[v] = Idle
  BY <1>2, IdleIsRequest DEF SessionTypes
<1>7. password' \in 0..MaxPassword
  BY <1>1 DEF SessionTypes
<1>. QED
  BY <1>2, <1>3, <1>5, <1>6, <1>7, SameChains

LEMMA EndRevokingPreserves ==
  ASSUME ChainInv, NEW w \in Tabs, EndRevoking(w)
  PROVE  ChainInv'
<1>. USE DEF ChainInv
<1>. DEFINE now == IF req[w].kind \in {"reset", "change"} THEN password + 1 ELSE password
<1>1. now \in 0..MaxPassword /\ password' = now
  <2>1. password' = now
    BY DEF EndRevoking
  <2>2. /\ req[w].kind \in {"reset", "change"} => password < MaxPassword
        /\ password \in 0..MaxPassword /\ MaxPassword \in Nat
    BY SessionAssumption DEF EndRevoking, SessionTypes
  <2>. QED
    BY <2>1, <2>2
<1>2. session' = [s \in Ids |->
        [session[s] EXCEPT !.revoked = @ \/ s \in req[w].rows,
                           !.proof = IF Reproved(w, s) THEN now ELSE @]]
  BY DEF EndRevoking, RevokedRows
<1>. HIDE DEF now
<1>3. ASSUME NEW s \in Ids
      PROVE  /\ session'[s] \in SessionRow
             /\ session'[s].made = session[s].made
             /\ session'[s].chain = session[s].chain
             /\ session'[s].successor = session[s].successor
             /\ session'[s].superseded = session[s].superseded
             /\ session'[s].revoked = (session[s].revoked \/ s \in req[w].rows)
  <2>. DEFINE r == session[s].revoked \/ s \in req[w].rows
              p == IF Reproved(w, s) THEN now ELSE session[s].proof
  <2>1. session[s] \in SessionRow /\ r \in BOOLEAN /\ p \in 0..MaxPassword
    BY <1>1 DEF SessionTypes, SessionRow
  <2>2. session'[s] = [session[s] EXCEPT !.revoked = r, !.proof = p]
    BY <1>2
  <2>. HIDE DEF r, p
  <2>3. /\ session'[s] \in SessionRow
        /\ session'[s].made = session[s].made
        /\ session'[s].chain = session[s].chain
        /\ session'[s].successor = session[s].successor
        /\ session'[s].superseded = session[s].superseded
        /\ session'[s].revoked = r
    BY <2>1, <2>2 DEF SessionRow
  <2>. QED
    BY <2>3 DEF r
<1>4. session' \in [Ids -> SessionRow]
  BY <1>2, <1>3
<1>5. ASSUME NEW s \in Ids
      PROVE  /\ session[s].made \/ ~session'[s].revoked
             /\ Locked(s) => session'[s].revoked = session[s].revoked
  <2>1. s \in req[w].rows => session[s].made /\ ~Locked(s)
    BY DEF EndRevoking, Known, Made
  <2>2. session[s].made \/ ~session[s].revoked
    BY DEF Unmade
  <2>3. session[s].revoked \in BOOLEAN
    BY DEF SessionTypes, SessionRow
  <2>. QED
    BY <1>3, <2>1, <2>2, <2>3
<1>6. /\ req' = [req EXCEPT ![w] = Idle]
      /\ cookie' \in Made \union {NoSession}
      /\ access' \in [Tabs -> Made \union {NoSession}]
  BY AccessKnown DEF EndRevoking, Goes, Known
<1>7. req' \in [Tabs -> Request] /\ \A v \in Tabs : req'[v] = req[v] \/ req'[v] = Idle
  BY <1>6, IdleIsRequest DEF SessionTypes
<1>. QED
  BY <1>1, <1>3, <1>4, <1>5, <1>6, <1>7, SameChains

LEMMA GraceEndsPreserves ==
  ASSUME ChainInv, NEW s \in Ids, GraceEnds(s)
  PROVE  ChainInv'
<1>. USE DEF ChainInv
<1>1. /\ session' = [session EXCEPT ![s].superseded = "old"] /\ session[s].superseded = "recent"
      /\ UNCHANGED <<password, cookie, access, req>>
  BY DEF GraceEnds, browser
<1>2. session' \in [Ids -> SessionRow]
  BY <1>1 DEF SessionTypes, SessionRow
<1>3. ASSUME NEW t \in Ids
      PROVE  /\ session'[t].made = session[t].made
             /\ session'[t].chain = session[t].chain
             /\ session'[t].successor = session[t].successor
             /\ session'[t].superseded = "no" <=> session[t].superseded = "no"
             /\ session'[t].revoked = session[t].revoked
  BY <1>1 DEF SessionTypes, SessionRow
<1>4. \A t \in Ids : session[t].made \/ ~session'[t].revoked
  BY <1>3 DEF Unmade
<1>5. /\ password' \in 0..MaxPassword /\ req' \in [Tabs -> Request]
      /\ \A v \in Tabs : req'[v] = req[v] \/ req'[v] = Idle
      /\ cookie' \in Made \union {NoSession} /\ access' \in [Tabs -> Made \union {NoSession}]
  BY <1>1, AccessKnown DEF SessionTypes, Known
<1>. QED
  BY <1>2, <1>3, <1>4, <1>5, SameChains

-----------------------------------------------------------------------------
(* New rows.  A login starts a chain: no row has its name. *)
LEMMA CreatePreserves ==
  ASSUME ChainInv, NEW w \in Tabs, NEW s \in Ids, CreateSession(w, s)
  PROVE  ChainInv'
<1>. USE DEF ChainInv
<1>. DEFINE row == NewRow(s, req[w].proof)
            q == [req[w] EXCEPT !.pc = "answer", !.token = s]
<1>1. /\ ~session[s].made /\ session' = [session EXCEPT ![s] = row]
      /\ req' = [req EXCEPT ![w] = q] /\ UNCHANGED <<password, cookie, access>>
  BY DEF CreateSession, Goes, browser
<1>2. /\ row \in SessionRow /\ row.made /\ ~row.revoked /\ row.superseded = "no"
      /\ row.successor = NoSession /\ row.chain = s
  <2>1. req[w].proof \in 0..MaxPassword
    BY DEF SessionTypes, Request
  <2>. QED
    BY <2>1, NewRowIsRow
<1>3. q \in Request /\ q.pc = "answer" /\ q.token = s /\ q.rows = req[w].rows
  BY DEF SessionTypes, Request
<1>. HIDE DEF row, q
<1>4. /\ \A t \in Ids : session'[t] = IF t = s THEN row ELSE session[t]
      /\ \A v \in Tabs : req'[v] = IF v = w THEN q ELSE req[v]
  BY <1>1 DEF SessionTypes
<1>5. SessionTypes'
  BY <1>1, <1>2, <1>3 DEF SessionTypes
<1>6. Made' = Made \union {s} /\ s \notin Made
  BY <1>1, <1>2, <1>4 DEF Made
<1>7. Unmade'
  BY <1>2, <1>4 DEF Unmade
<1>8. Chains'
  BY <1>2, <1>4, <1>6 DEF Chains, Made
<1>9. Known'
  BY <1>1, <1>3, <1>4, <1>6 DEF Known
<1>10. HeldOnce'
  BY <1>3, <1>4 DEF HeldOnce
<1>11. ASSUME NEW v \in Tabs
       PROVE  /\ req'[v].pc \in {"lookup", "close", "superseded", "answer"} => req'[v].token \in Ids
              /\ req'[v].pc = "commit" =>
                   /\ req'[v].token \in Ids /\ session'[req'[v].token].made
                   /\ ~session'[req'[v].token].revoked /\ session'[req'[v].token].superseded = "no"
  BY <1>1, <1>3, <1>4 DEF Holding, Open
<1>12. Holding'
  BY <1>11 DEF Holding, Open
<1>13. ASSUME NEW t \in Made', NEW u \in Made', session'[t].chain = session'[u].chain, t # u
       PROVE  ~(session'[t].superseded = "no" /\ session'[u].superseded = "no")
  <2>1. \A x \in Made : session'[x] = session[x] /\ session'[x].chain # s
    BY <1>4, <1>6 DEF Chains, Made
  <2>2. session'[s].chain = s
    BY <1>2, <1>4
  <2>3. t \in Made /\ u \in Made
    BY <1>6, <1>13, <2>1, <2>2
  <2>. QED
    BY <1>13, <2>1, <2>3 DEF OneOpenEnd
<1>14. ASSUME NEW t \in Made'
       PROVE  /\ session'[t].superseded # "no" => session'[t].successor \in Made'
              /\ session'[t].superseded = "no" => session'[t].successor = NoSession
  BY <1>2, <1>4, <1>6 DEF OneOpenEnd, Made
<1>15. OneOpenEnd'
  BY <1>13, <1>14 DEF OneOpenEnd
<1>. QED
  BY <1>5, <1>7, <1>8, <1>9, <1>10, <1>12, <1>15

(* The successor is inserted behind the row that the request holds, which  *)
(* is the open end of its chain.                                           *)
LEMMA CommitPreserves ==
  ASSUME ChainInv, NEW w \in Tabs, NEW new \in Ids, Commit(w, new)
  PROVE  /\ ChainInv'
         /\ \A t \in Ids : session[t].revoked => session'[t] = session[t]
<1>. USE DEF ChainInv
<1>. DEFINE s == req[w].token
            row == NewRow(session[s].chain, session[s].proof)
            q == [req[w] EXCEPT !.pc = "answer", !.token = new]
<1>1. /\ req[w].pc = "commit" /\ ~session[new].made
      /\ req' = [req EXCEPT ![w] = q] /\ UNCHANGED <<password, cookie, access>>
      /\ session' = [session EXCEPT ![s].superseded = "recent", ![s].successor = new,
                                    ![new] = row]
  BY DEF Commit, Goes, browser, At
<1>2. s \in Made /\ s # new /\ Open(s)
  BY <1>1 DEF Holding, Open, Made
<1>3. /\ row \in SessionRow /\ row.made /\ ~row.revoked /\ row.superseded = "no"
      /\ row.successor = NoSession /\ row.chain = session[s].chain
  <2>1. session[s].chain \in Ids /\ session[s].proof \in 0..MaxPassword
    BY <1>2 DEF Chains, Made, SessionTypes, SessionRow
  <2>. QED
    BY <2>1, NewRowIsRow
<1>4. q \in Request /\ q.pc = "answer" /\ q.token = new /\ q.rows = req[w].rows
  BY DEF SessionTypes, Request
<1>5. \A v \in Tabs : req'[v] = IF v = w THEN q ELSE req[v]
  BY <1>1 DEF SessionTypes
<1>6. ASSUME NEW v \in Tabs, v # w, req[v].pc = "commit"
      PROVE  req[v].token # s
  BY <1>1, <1>6 DEF HeldOnce
<1>. HIDE DEF s, row, q
<1>7. \A t \in Ids : session'[t] = IF t = new THEN row
                                   ELSE IF t = s THEN [session[s] EXCEPT !.superseded = "recent",
                                                                        !.successor = new]
                                   ELSE session[t]
  BY <1>1, <1>2 DEF SessionTypes, Made
<1>8. /\ session'[s] \in SessionRow /\ session'[s].made /\ ~session'[s].revoked
      /\ session'[s].superseded = "recent" /\ session'[s].successor = new
      /\ session'[s].chain = session[s].chain
  <2>1. session'[s] = [session[s] EXCEPT !.superseded = "recent", !.successor = new]
    BY <1>2, <1>7 DEF Made
  <2>2. session[s] \in SessionRow /\ session[s].made /\ ~session[s].revoked
    BY <1>2 DEF SessionTypes, Open, Made
  <2>. QED
    BY <2>1, <2>2 DEF SessionRow
<1>9. \A t \in Ids \ {s, new} : session'[t] = session[t]
  BY <1>7
<1>10. session'[new] = row
  BY <1>7
<1>11. SessionTypes'
  <2>1. session' \in [Ids -> SessionRow]
    <3>1. \A t \in Ids : session'[t] \in SessionRow
      BY <1>3, <1>8, <1>9, <1>10 DEF SessionTypes
    <3>2. DOMAIN session' = Ids /\ session' = [t \in Ids |-> session'[t]]
      BY <1>1 DEF SessionTypes
    <3>. QED
      BY <3>1, <3>2
  <2>. QED
    BY <1>1, <1>4, <2>1 DEF SessionTypes
<1>12. Made' = Made \union {new} /\ new \notin Made
  BY <1>1, <1>2, <1>3, <1>8, <1>9, <1>10 DEF Made
<1>13. Unmade'
  BY <1>3, <1>8, <1>9, <1>10 DEF Unmade
<1>14. Chains'
  BY <1>2, <1>3, <1>8, <1>9, <1>10, <1>12 DEF Chains, Made
<1>15. Known'
  BY <1>1, <1>4, <1>5, <1>12 DEF Known
<1>16. HeldOnce'
  BY <1>4, <1>5 DEF HeldOnce
<1>17. ASSUME NEW v \in Tabs
       PROVE  /\ req'[v].pc \in {"lookup", "close", "superseded", "answer"} => req'[v].token \in Ids
              /\ req'[v].pc = "commit" =>
                   /\ req'[v].token \in Ids /\ session'[req'[v].token].made
                   /\ ~session'[req'[v].token].revoked /\ session'[req'[v].token].superseded = "no"
  <2>1. CASE v = w
    BY <1>4, <1>5, <2>1
  <2>2. CASE v # w
    <3>1. req'[v] = req[v]
      BY <1>5, <2>2
    <3>2. req[v].pc = "commit" =>
            /\ req[v].token \in Ids \ {s, new} /\ session[req[v].token].made
            /\ ~session[req[v].token].revoked /\ session[req[v].token].superseded = "no"
      BY <1>1, <1>6, <2>2 DEF Holding, Open
    <3>. QED
      BY <1>9, <3>1, <3>2 DEF Holding
  <2>. QED
    BY <2>1, <2>2
<1>18. Holding'
  BY <1>17 DEF Holding, Open
<1>19. ASSUME NEW t \in Made', NEW u \in Made', session'[t].chain = session'[u].chain, t # u
       PROVE  ~(session'[t].superseded = "no" /\ session'[u].superseded = "no")
  <2>1. ASSUME NEW x \in Made, x # s, session[x].chain = session[s].chain
        PROVE  session'[x].superseded # "no"
    BY <1>2, <1>9, <1>12, <2>1 DEF OneOpenEnd, Open, Made
  <2>2. CASE t = new
    BY <1>3, <1>8, <1>9, <1>10, <1>12, <1>19, <2>1, <2>2 DEF Made
  <2>3. CASE u = new
    BY <1>3, <1>8, <1>9, <1>10, <1>12, <1>19, <2>1, <2>3 DEF Made
  <2>4. CASE t # new /\ u # new
    BY <1>8, <1>9, <1>12, <1>19, <2>1, <2>4 DEF OneOpenEnd, Made
  <2>. QED
    BY <2>2, <2>3, <2>4
<1>20. ASSUME NEW t \in Made'
       PROVE  /\ session'[t].superseded # "no" => session'[t].successor \in Made'
              /\ session'[t].superseded = "no" => session'[t].successor = NoSession
  BY <1>3, <1>8, <1>9, <1>10, <1>12 DEF OneOpenEnd, Made
<1>21. OneOpenEnd'
  BY <1>19, <1>20 DEF OneOpenEnd
<1>22. \A t \in Ids : session[t].revoked => session'[t] = session[t]
  BY <1>1, <1>2, <1>9 DEF Unmade, Open
<1>. QED
  BY <1>11, <1>13, <1>14, <1>15, <1>16, <1>18, <1>21, <1>22

-----------------------------------------------------------------------------
LEMMA InitChain == Init => ChainInv
<1>. SUFFICES ASSUME Init PROVE ChainInv
  OBVIOUS
<1>1. SessionTypes
  BY SessionAssumption, NoRowIsRow, IdleIsRequest DEF Init, SessionTypes
<1>2. Made = {}
  BY NoRowIsRow DEF Init, Made
<1>3. Unmade /\ Chains /\ OneOpenEnd
  BY <1>2, NoRowIsRow DEF Init, Unmade, Chains, OneOpenEnd
<1>4. Known /\ Holding /\ HeldOnce
  BY DEF Init, Known, Holding, HeldOnce, Idle
<1>. QED
  BY <1>1, <1>3, <1>4 DEF ChainInv

LEMMA StepChain == ChainInv /\ [Next]_vars => ChainInv'
<1>. SUFFICES ASSUME ChainInv, [Next]_vars PROVE ChainInv'
  OBVIOUS
<1>1. ASSUME NEW w \in Tabs, Login(w) \/ Refresh(w) PROVE ChainInv'
  BY <1>1, BeginsPreserves
<1>2. ASSUME NEW w \in Tabs, Lookup(w) PROVE ChainInv'
  BY <1>2, LookupPreserves
<1>3. ASSUME NEW w \in Tabs, Close(w) PROVE ChainInv'
  BY <1>3, ClosePreserves
<1>4. ASSUME NEW w \in Tabs, Abort(w) PROVE ChainInv'
  BY <1>4, AbortPreserves
<1>5. ASSUME NEW w \in Tabs, ResolveGrace(w) \/ ResolveReuse(w) PROVE ChainInv'
  BY <1>5, ResolvePreserves
<1>6. ASSUME NEW w \in Tabs, Answer(w) \/ LoseAnswer(w) PROVE ChainInv'
  BY <1>6, AnswerPreserves
<1>7. ASSUME NEW w \in Tabs, Logout(w) \/ \E s \in Ids : RevokeSession(w, s) PROVE ChainInv'
  BY <1>7, RevokeOnePreserves
<1>8. ASSUME NEW w \in Tabs, EndRevoking(w) PROVE ChainInv'
  BY <1>8, EndRevokingPreserves
<1>9. ASSUME NEW w \in Tabs, NEW s \in Ids, CreateSession(w, s) PROVE ChainInv'
  BY <1>9, CreatePreserves
<1>10. ASSUME NEW w \in Tabs, NEW s \in Ids, Commit(w, s) PROVE ChainInv'
  BY <1>10, CommitPreserves
<1>11. ASSUME NEW w \in Tabs, NEW kind \in RevokingKinds, StartRevoking(w, kind) PROVE ChainInv'
  BY <1>11, BeginsPreserves
<1>12. ASSUME NEW s \in Ids, GraceEnds(s) PROVE ChainInv'
  BY <1>12, GraceEndsPreserves
<1>13. CASE UNCHANGED vars
  BY <1>13 DEF vars, database, browser, ChainInv, SessionTypes, Unmade, Chains, Known, Holding,
               HeldOnce, OneOpenEnd, Made, Open
<1>. QED
  BY <1>1, <1>2, <1>3, <1>4, <1>5, <1>6, <1>7, <1>8, <1>9, <1>10, <1>11, <1>12, <1>13 DEF Next

THEOREM ChainAlways == Spec => []ChainInv
  BY InitChain, StepChain, PTL DEF Spec

(* The rows that descend from one login form one chain with one open end:  *)
(* of the refreshes of one token, in however many tabs, one inserts its    *)
(* successor ("The old token cannot spawn a second live session").         *)
THEOREM OneLiveSession == Spec => []OneOpenEnd
<1>1. ChainInv => OneOpenEnd
  BY DEF ChainInv
<1>. QED
  BY <1>1, ChainAlways, PTL

(* A step that changes the table keeps every revoked row as it is, or      *)
(* changes at most its age and its proof.                                  *)
LEMMA RevokedStays ==
  ASSUME ChainInv, Next, NEW s \in Ids, session[s].revoked
  PROVE  session'[s].revoked /\ session'[s].successor = session[s].successor
<1>. USE DEF ChainInv
<1>1. CASE session' = session
  BY <1>1
<1>2. ASSUME NEW w \in Tabs, NEW new \in Ids, CreateSession(w, new)
      PROVE  session'[s] = session[s]
  <2>1. s # new
    BY <1>2 DEF CreateSession, Unmade
  <2>. QED
    BY <1>2, <2>1 DEF CreateSession, SessionTypes
<1>3. ASSUME NEW w \in Tabs, NEW new \in Ids, Commit(w, new)
      PROVE  session'[s] = session[s]
  BY <1>3, CommitPreserves
<1>4. ASSUME NEW t \in Ids, RevokeOne(t)
      PROVE  session'[s].revoked /\ session'[s].successor = session[s].successor
  BY <1>4 DEF RevokeOne, SessionTypes, SessionRow
<1>5. ASSUME NEW w \in Tabs, EndRevoking(w)
      PROVE  session'[s].revoked /\ session'[s].successor = session[s].successor
  <2>1. \E p : session'[s] = [session[s] EXCEPT !.revoked = @ \/ s \in req[w].rows, !.proof = p]
    BY <1>5 DEF EndRevoking, RevokedRows
  <2>. QED
    BY <2>1 DEF SessionTypes, SessionRow
<1>6. ASSUME NEW t \in Ids, GraceEnds(t)
      PROVE  session'[s].revoked /\ session'[s].successor = session[s].successor
  BY <1>6 DEF GraceEnds, SessionTypes, SessionRow
<1>7. \A w \in Tabs : Logout(w) => access[w] \in Ids
  BY DEF Logout, SessionTypes
<1>8. \/ session' = session
      \/ \E w \in Tabs, t \in Ids : CreateSession(w, t) \/ Commit(w, t)
      \/ \E t \in Ids : RevokeOne(t) \/ GraceEnds(t)
      \/ \E w \in Tabs : EndRevoking(w)
  BY <1>7 DEF Next, Login, Refresh, Lookup, Close, Abort, ResolveGrace, ResolveReuse, Answer,
              LoseAnswer, Logout, RevokeSession, StartRevoking, database
<1>. QED
  BY <1>1, <1>2, <1>3, <1>4, <1>5, <1>6, <1>8

(* A revoked session never comes back and never gets a successor, whatever *)
(* refreshes of its token are in flight.                                   *)
THEOREM RevokedForGood == Spec => RevokedIsFinal
<1>1. ChainInv /\ [Next]_vars =>
        [\A s \in Ids : session[s].revoked =>
           /\ session'[s].revoked
           /\ session'[s].successor = session[s].successor]_vars
  BY RevokedStays
<1>. QED
  BY <1>1, ChainAlways, PTL DEF Spec, RevokedIsFinal

-----------------------------------------------------------------------------
(* What a revocation reaches *)

(* A step of one tab: a revocation begins with every unrevoked row. *)
LEMMA ReachBegins ==
  ASSUME ChainInv, ReachInv, NEW w \in Tabs, NEW q, req' = [req EXCEPT ![w] = q],
         UNCHANGED <<session, password, slipped>>, detached \subseteq detached',
         q.pc = "revoke" => \A s \in Unrevoked : s \in q.rows \/ (q.kind = "change" /\ s = q.token)
  PROVE  ReachInv'
<1>1. \A v \in Tabs : req'[v] = IF v = w THEN q ELSE req[v]
  BY DEF ChainInv, SessionTypes
<1>2. Unrevoked' = Unrevoked /\ Made' = Made /\ Unrevoked \subseteq Made
  BY DEF Unrevoked, Made
<1>3. OldPasswords'
  BY <1>1, <1>2 DEF ReachInv, OldPasswords, Replaces, Revoking
<1>4. OldSuccessors'
  BY <1>1, <1>2 DEF ReachInv, OldSuccessors, Revoking
<1>5. RevocationReaches'
  BY <1>2 DEF ReachInv, RevocationReaches
<1>. QED
  BY <1>3, <1>4, <1>5 DEF ReachInv

(* Rows are revoked or age, and requests end. *)
LEMMA ReachShrinks ==
  ASSUME ChainInv, ReachInv, slipped' = slipped,
         \A s \in Ids : /\ session'[s].made = session[s].made /\ session'[s].chain = session[s].chain
                        /\ session'[s].successor = session[s].successor
                        /\ session[s].revoked => session'[s].revoked,
         \A v \in Tabs : req'[v] = req[v] \/ req'[v] = Idle,
         RevocationReaches'
  PROVE  ReachInv'
<1>1. Made' = Made /\ Unrevoked' \subseteq Unrevoked /\ Unrevoked \subseteq Ids
  BY DEF Made, Unrevoked
<1>2. ASSUME NEW w \in Tabs, req'[w].pc = "revoke" PROVE req'[w] = req[w] /\ req[w].rows \subseteq Ids
  BY <1>2 DEF Idle, ChainInv, SessionTypes, Known, Made
<1>3. OldPasswords'
  <2>. SUFFICES ASSUME NEW w \in Tabs, req'[w].pc = "revoke", req'[w].kind \in {"reset", "change"},
                       NEW s \in Unrevoked'
                PROVE  \/ s \in req'[w].rows \union slipped'
                       \/ /\ req'[w].kind = "change" /\ req'[w].token \in Made'
                          /\ session'[s].chain = session'[req'[w].token].chain
    BY DEF OldPasswords, Replaces, Revoking
  <2>1. /\ req'[w] = req[w] /\ s \in Unrevoked /\ s \in Ids
        /\ \/ s \in req[w].rows \union slipped
           \/ /\ req[w].kind = "change" /\ req[w].token \in Made
              /\ session[s].chain = session[req[w].token].chain
    BY <1>1, <1>2 DEF ReachInv, OldPasswords, Replaces, Revoking
  <2>2. req[w].token \in Made => session'[req[w].token].chain = session[req[w].token].chain
    BY DEF Made
  <2>. QED
    BY <1>1, <2>1, <2>2
<1>4. OldSuccessors'
  BY <1>1, <1>2 DEF ReachInv, OldSuccessors, Revoking
<1>. QED
  BY <1>3, <1>4 DEF ReachInv

(* The steps that leave the table alone. *)
LEMMA ReachQuiet ==
  ASSUME ChainInv, ReachInv, NEW w \in Tabs,
         \/ Login(w) \/ Refresh(w) \/ Lookup(w) \/ Close(w) \/ Abort(w) \/ ResolveGrace(w)
         \/ ResolveReuse(w) \/ Answer(w) \/ LoseAnswer(w)
         \/ \E kind \in RevokingKinds : StartRevoking(w, kind)
  PROVE  ReachInv'
<1>1. PICK q : /\ req' = [req EXCEPT ![w] = q]
               /\ q.pc = "revoke" =>
                    \A s \in Unrevoked : s \in q.rows \/ (q.kind = "change" /\ s = q.token)
  <2>0. req[w] \in Request
    BY DEF ChainInv, SessionTypes
  <2>1. ASSUME NEW f, Begins(w, f) \/ Goes(w, f), f.pc # "revoke"
        PROVE  \E q : /\ req' = [req EXCEPT ![w] = q] /\ q.pc # "revoke"
    BY <2>1 DEF Begins, Goes
  <2>2. CASE Login(w)
    <3>. DEFINE f == [Idle EXCEPT !.kind = "login", !.pc = "create", !.proof = password]
    <3>1. f.pc # "revoke"
      BY DEF Idle
    <3>. QED
      BY <2>1, <2>2, <3>1 DEF Login
  <2>3. CASE Refresh(w)
    <3>. DEFINE f == [Idle EXCEPT !.kind = "refresh", !.pc = "lookup", !.token = cookie]
    <3>1. f.pc # "revoke"
      BY DEF Idle
    <3>. QED
      BY <2>1, <2>3, <3>1 DEF Refresh
  <2>4. CASE Lookup(w) \/ Close(w) \/ Abort(w) \/ ResolveGrace(w) \/ Answer(w) \/ LoseAnswer(w)
    <3>1. Idle.pc # "revoke" /\ \A pc \in {"superseded", "close", "commit"} :
                                  [req[w] EXCEPT !.pc = pc].pc # "revoke"
      BY <2>0, IdleIsRequest DEF Request
    <3>. QED
      BY <2>1, <2>4, <3>1 DEF Lookup, Close, Abort, ResolveGrace, Answer, LoseAnswer, Refused
  <2>5. CASE ResolveReuse(w)
    <3>. DEFINE f == [req[w] EXCEPT !.kind = "reuse", !.pc = "revoke", !.rows = Unrevoked]
    <3>1. req' = [req EXCEPT ![w] = f] /\ f.rows = Unrevoked
      BY <2>0, <2>5 DEF ResolveReuse, Goes, Request
    <3>. QED
      BY <3>1
  <2>6. ASSUME NEW kind \in RevokingKinds, StartRevoking(w, kind)
        PROVE  \E q : /\ req' = [req EXCEPT ![w] = q]
                      /\ \A s \in Unrevoked : s \in q.rows \/ (q.kind = "change" /\ s = q.token)
    <3>. DEFINE f == [Idle EXCEPT !.kind = kind, !.pc = "revoke",
                          !.token = IF kind = "change" THEN access[w] ELSE NoSession,
                          !.rows = Unrevoked \ Kept(w, kind)]
    <3>1. /\ req' = [req EXCEPT ![w] = f] /\ f.rows = Unrevoked \ Kept(w, kind) /\ f.kind = kind
          /\ kind = "change" => f.token = access[w]
      BY <2>6 DEF StartRevoking, Begins, Idle
    <3>. HIDE DEF f
    <3>. QED
      BY <3>1 DEF Kept
  <2>. QED
    BY <2>2, <2>3, <2>4, <2>5, <2>6
<1>2. UNCHANGED <<session, password, slipped, detached>>
  BY DEF Login, Refresh, Lookup, Close, Abort, ResolveGrace, ResolveReuse, Answer, LoseAnswer,
         StartRevoking, database, history
<1>. QED
  BY <1>1, <1>2, ReachBegins

(* The row revoked on its own passes its mark to its successor. *)
LEMMA ReachRevokesOne ==
  ASSUME ChainInv, ReachInv, NEW w \in Tabs, Logout(w) \/ \E s \in Ids : RevokeSession(w, s)
  PROVE  ReachInv'
<1>1. PICK s \in Ids : RevokeOne(s)
  BY DEF Logout, RevokeSession, ChainInv, SessionTypes
<1>2. \A v \in Tabs : req'[v] = req[v] \/ req'[v] = Idle
  BY DEF Logout, RevokeSession, Begins, ChainInv, SessionTypes
<1>3. \A t \in Ids : /\ session'[t] = IF t = s THEN [session[t] EXCEPT !.revoked = TRUE]
                                               ELSE session[t]
                    /\ session[t] \in SessionRow
  BY <1>1 DEF RevokeOne, ChainInv, SessionTypes
<1>4. \A t \in Ids : /\ session'[t].made = session[t].made /\ session'[t].chain = session[t].chain
                     /\ session'[t].successor = session[t].successor
                     /\ session'[t].proof = session[t].proof
                     /\ session'[t].revoked = (session[t].revoked \/ t = s)
  BY <1>3 DEF SessionRow
<1>5. RevocationReaches'
  <2>. SUFFICES ASSUME NEW t \in Unrevoked'
                PROVE  /\ session'[t].proof = password' \/ t \in slipped'
                       /\ \A p \in Made' : session'[p].successor = t /\ session'[p].revoked =>
                            t \in slipped' \union detached'
    BY DEF RevocationReaches
  <2>1. t \in Unrevoked /\ t \in Ids /\ Made' = Made /\ Made \subseteq Ids
    BY <1>4 DEF Unrevoked, Made
  <2>2. session'[t].proof = password' \/ t \in slipped'
    BY <1>1, <1>4, <2>1 DEF RevokeOne, ReachInv, RevocationReaches
  <2>3. ASSUME NEW p \in Made, session'[p].successor = t, session'[p].revoked
        PROVE  t \in slipped' \union detached'
    BY <1>1, <1>4, <2>1, <2>3, SessionAssumption DEF RevokeOne, ReachInv, RevocationReaches
  <2>. QED
    BY <2>1, <2>2, <2>3
<1>. QED
  BY <1>1, <1>2, <1>4, <1>5, ReachShrinks DEF RevokeOne

LEMMA ReachAges ==
  ASSUME ChainInv, ReachInv, NEW s \in Ids, GraceEnds(s)
  PROVE  ReachInv'
<1>1. \A t \in Ids : /\ session'[t] = IF t = s THEN [session[t] EXCEPT !.superseded = "old"]
                                               ELSE session[t]
                    /\ session[t] \in SessionRow
  BY DEF GraceEnds, ChainInv, SessionTypes
<1>2. \A t \in Ids : /\ session'[t].made = session[t].made /\ session'[t].chain = session[t].chain
                     /\ session'[t].successor = session[t].successor
                     /\ session'[t].proof = session[t].proof
                     /\ session'[t].revoked = session[t].revoked
  BY <1>1 DEF SessionRow
<1>3. Made' = Made /\ Made \subseteq Ids /\ Unrevoked' = Unrevoked /\ Unrevoked \subseteq Ids
  BY <1>2 DEF Made, Unrevoked
<1>4. UNCHANGED <<password, req, slipped, detached>>
  BY DEF GraceEnds
<1>5. RevocationReaches'
  BY <1>2, <1>3, <1>4 DEF ReachInv, RevocationReaches
<1>. QED
  BY <1>2, <1>4, <1>5, ReachShrinks

(* A new row is a row that no revocation has found. *)
LEMMA ReachCreates ==
  ASSUME ChainInv, ReachInv, NEW w \in Tabs, NEW s \in Ids, CreateSession(w, s)
  PROVE  ReachInv'
<1>. USE DEF ChainInv
<1>. DEFINE row == NewRow(s, req[w].proof)
<1>1. /\ ~session[s].made /\ session' = [session EXCEPT ![s] = row]
      /\ UNCHANGED <<password, detached>> /\ slipped \subseteq slipped'
      /\ req[w].proof # password \/ Replacing => s \in slipped'
  BY DEF CreateSession
<1>2. row.made /\ ~row.revoked /\ row.successor = NoSession /\ row.proof = req[w].proof
  BY NoRowIsRow DEF NewRow, NoRow
<1>3. \A v \in Tabs : req'[v].pc = "revoke" => req'[v] = req[v] /\ req[v].pc = "revoke"
  BY DEF CreateSession, Goes, SessionTypes, Request
<1>. HIDE DEF row
<1>4. \A t \in Ids : session'[t] = IF t = s THEN row ELSE session[t]
  BY <1>1 DEF SessionTypes
<1>5. /\ Made' = Made \union {s} /\ s \notin Made /\ Unrevoked' = Unrevoked \union {s}
      /\ Unrevoked \subseteq Made /\ Made \subseteq Ids
  BY <1>1, <1>2, <1>4 DEF Made, Unrevoked
<1>6. \A t \in Made : session'[t] = session[t] /\ session[t].successor \in Made \union {NoSession}
  BY <1>4, <1>5 DEF OneOpenEnd
<1>7. NoSession \notin Made'
  BY SessionAssumption DEF Made
<1>8. OldPasswords'
  <2>. SUFFICES ASSUME NEW v \in Tabs, req'[v].pc = "revoke", req'[v].kind \in {"reset", "change"},
                       NEW t \in Unrevoked'
                PROVE  \/ t \in req'[v].rows \union slipped'
                       \/ /\ req'[v].kind = "change" /\ req'[v].token \in Made'
                          /\ session'[t].chain = session'[req'[v].token].chain
    BY DEF OldPasswords, Replaces, Revoking
  <2>1. CASE t = s
    BY <1>1, <1>3, <2>1 DEF Replacing, At
  <2>2. CASE t \in Unrevoked
    BY <1>1, <1>3, <1>5, <1>6, <2>2 DEF ReachInv, OldPasswords, Replaces, Revoking
  <2>. QED
    BY <1>5, <2>1, <2>2
<1>9. OldSuccessors'
  <2>. SUFFICES ASSUME NEW v \in Tabs, req'[v].pc = "revoke", NEW p \in req'[v].rows,
                       session'[p].successor \in Unrevoked'
                PROVE  \/ session'[p].successor \in req'[v].rows \union slipped'
                       \/ req'[v].kind = "change" /\ session'[p].successor = req'[v].token
    BY DEF OldSuccessors, Revoking
  <2>1. req'[v] = req[v] /\ req[v].pc = "revoke" /\ p \in Made
    BY <1>3 DEF Known
  <2>2. session'[p] = session[p] /\ session[p].successor \in Unrevoked
    BY <1>5, <1>6, <1>7, <2>1
  <2>. QED
    BY <1>1, <2>1, <2>2 DEF ReachInv, OldSuccessors, Revoking
<1>10. RevocationReaches'
  <2>. SUFFICES ASSUME NEW t \in Unrevoked'
                PROVE  /\ session'[t].proof = password' \/ t \in slipped'
                       /\ \A p \in Made' : session'[p].successor = t /\ session'[p].revoked =>
                            t \in slipped' \union detached'
    BY DEF RevocationReaches
  <2>1. \A p \in Made' : session'[p].successor # s
    BY <1>2, <1>4, <1>5, <1>6, <1>7
  <2>2. CASE t = s
    BY <1>1, <1>2, <1>4, <2>1, <2>2
  <2>3. CASE t \in Unrevoked
    <3>1. session'[t] = session[t]
      BY <1>5, <1>6, <2>3
    <3>2. ASSUME NEW p \in Made', session'[p].successor = t
          PROVE  p \in Made /\ session'[p] = session[p]
      BY <1>2, <1>4, <1>5, <1>6, <1>7, <2>3, <3>2
    <3>. QED
      BY <1>1, <2>3, <3>1, <3>2 DEF ReachInv, RevocationReaches
  <2>. QED
    BY <1>5, <2>2, <2>3
<1>. QED
  BY <1>8, <1>9, <1>10 DEF ReachInv

(* A successor is marked when its predecessor was found, or is marked.     *)
LEMMA ReachCommits ==
  ASSUME ChainInv, ReachInv, NEW w \in Tabs, NEW new \in Ids, Commit(w, new)
  PROVE  ReachInv'
<1>. USE DEF ChainInv
<1>. DEFINE row == NewRow(session[req[w].token].chain, session[req[w].token].proof)
<1>1. PICK s \in Ids : s = req[w].token
  BY DEF Commit, At, Holding
<1>2. /\ ~session[new].made /\ Open(s)
      /\ session' = [session EXCEPT ![s].superseded = "recent", ![s].successor = new,
                                    ![new] = row]
  BY <1>1 DEF Commit, At, Holding
<1>3. /\ UNCHANGED <<password, detached>> /\ slipped \subseteq slipped'
      /\ Overtaken(s) \/ s \in slipped => new \in slipped'
  BY <1>1 DEF Commit
<1>4. /\ row.made /\ ~row.revoked /\ row.successor = NoSession
      /\ row.proof = session[s].proof /\ row.chain = session[s].chain
  BY <1>1, NoRowIsRow DEF NewRow, NoRow
<1>5. \A v \in Tabs : req'[v].pc = "revoke" => req'[v] = req[v] /\ req[v].pc = "revoke"
  BY DEF Commit, Goes, SessionTypes, Request
<1>. HIDE DEF row
<1>6. \A t \in Ids : session'[t] = IF t = new THEN row
                                   ELSE IF t = s THEN [session[s] EXCEPT !.superseded = "recent",
                                                                        !.successor = new]
                                   ELSE session[t]
  BY <1>2 DEF SessionTypes, Open
<1>7. /\ session'[s].made /\ ~session'[s].revoked /\ session'[s].successor = new
      /\ session'[s].chain = session[s].chain /\ session'[s].proof = session[s].proof
      /\ s # new /\ s \in Made /\ s \in Unrevoked
  <2>1. s # new /\ session[s].made /\ ~session[s].revoked /\ session[s] \in SessionRow
    BY <1>2 DEF SessionTypes, Open
  <2>2. session'[s] = [session[s] EXCEPT !.superseded = "recent", !.successor = new]
    BY <1>6, <2>1
  <2>. QED
    BY <2>1, <2>2 DEF SessionRow, Made, Unrevoked
<1>8. /\ Made' = Made \union {new} /\ new \notin Made /\ Unrevoked' = Unrevoked \union {new}
      /\ Unrevoked \subseteq Made /\ Made \subseteq Ids
  <2>1. new \notin Made /\ Made \subseteq Ids /\ Unrevoked \subseteq Made
    BY <1>2 DEF Made, Unrevoked
  <2>2. \A t \in Ids : /\ session'[t].made <=> session[t].made \/ t = new
                       /\ session'[t].revoked <=> session[t].revoked /\ t # new
    BY <1>4, <1>6, <1>7 DEF Made, Unrevoked
  <2>3. Made' = Made \union {new}
    BY <2>2 DEF Made
  <2>4. Unrevoked' = Unrevoked \union {new}
    BY <2>1, <2>2, <2>3 DEF Made, Unrevoked
  <2>. QED
    BY <2>1, <2>3, <2>4
<1>9. \A t \in Made : session[t].successor \in Made \union {NoSession}
  BY DEF OneOpenEnd
<1>10. \A t \in Made \ {s} : session'[t] = session[t]
  BY <1>6, <1>8
<1>11. /\ session'[new].successor = NoSession /\ session'[new].proof = session[s].proof
       /\ session'[new].chain = session[s].chain
  BY <1>4, <1>6
<1>12. NoSession \notin Made'
  BY SessionAssumption DEF Made
<1>13. \A t \in Made : session'[t].chain = session[t].chain /\ session'[t].proof = session[t].proof
  BY <1>7, <1>10
<1>14. OldPasswords'
  <2>. SUFFICES ASSUME NEW v \in Tabs, req'[v].pc = "revoke", req'[v].kind \in {"reset", "change"},
                       NEW t \in Unrevoked'
                PROVE  \/ t \in req'[v].rows \union slipped'
                       \/ /\ req'[v].kind = "change" /\ req'[v].token \in Made'
                          /\ session'[t].chain = session'[req'[v].token].chain
    BY DEF OldPasswords, Replaces, Revoking
  <2>1. \A u \in Unrevoked : \/ u \in req[v].rows \union slipped
                             \/ /\ req[v].kind = "change" /\ req[v].token \in Made
                                /\ session[u].chain = session[req[v].token].chain
    BY <1>5 DEF ReachInv, OldPasswords, Replaces, Revoking
  <2>2. s \in req[v].rows => Overtaken(s)
    BY <1>5 DEF Overtaken, At
  <2>3. \A u \in Unrevoked : session'[u].chain = session[u].chain
    BY <1>8, <1>13
  <2>4. req[v].token \in Made => req[v].token \in Made'
                                /\ session'[req[v].token].chain = session[req[v].token].chain
    BY <1>8, <1>13
  <2>5. req'[v] = req[v]
    BY <1>5
  <2>6. CASE t = new
    <3>1. s \in Unrevoked /\ session'[t].chain = session[s].chain
      BY <1>7, <1>11, <2>6
    <3>. QED
      BY <1>3, <2>1, <2>2, <2>4, <2>5, <2>6, <3>1
  <2>7. CASE t \in Unrevoked
    BY <1>3, <2>1, <2>3, <2>4, <2>5, <2>7
  <2>. QED
    BY <1>8, <2>6, <2>7
<1>15. OldSuccessors'
  <2>. SUFFICES ASSUME NEW v \in Tabs, req'[v].pc = "revoke", NEW p \in req'[v].rows,
                       session'[p].successor \in Unrevoked'
                PROVE  \/ session'[p].successor \in req'[v].rows \union slipped'
                       \/ req'[v].kind = "change" /\ session'[p].successor = req'[v].token
    BY DEF OldSuccessors, Revoking
  <2>1. req'[v] = req[v] /\ req[v].pc = "revoke" /\ p \in Made
    BY <1>5 DEF Known
  <2>2. CASE p = s
    BY <1>7, <1>3, <2>1, <2>2 DEF Overtaken, At
  <2>3. CASE p # s
    <3>1. session'[p] = session[p] /\ session[p].successor \in Unrevoked
      BY <1>8, <1>9, <1>10, <1>12, <2>1, <2>3
    <3>. QED
      BY <1>3, <2>1, <3>1 DEF ReachInv, OldSuccessors, Revoking
  <2>. QED
    BY <2>2, <2>3
<1>16. RevocationReaches'
  <2>. SUFFICES ASSUME NEW t \in Unrevoked'
                PROVE  /\ session'[t].proof = password' \/ t \in slipped'
                       /\ \A p \in Made' : session'[p].successor = t /\ session'[p].revoked =>
                            t \in slipped' \union detached'
    BY DEF RevocationReaches
  <2>1. CASE t = new
    <3>1. session[s].proof = password \/ s \in slipped
      BY <1>7 DEF ReachInv, RevocationReaches
    <3>2. ASSUME NEW p \in Made', session'[p].successor = new PROVE p = s
      BY <1>8, <1>9, <1>10, <1>11, <1>12, <3>2
    <3>. QED
      BY <1>7, <1>11, <1>3, <2>1, <3>1, <3>2
  <2>2. CASE t \in Unrevoked
    <3>1. session'[t].proof = password' \/ t \in slipped'
      BY <1>8, <1>13, <1>3, <2>2 DEF ReachInv, RevocationReaches
    <3>2. ASSUME NEW p \in Made', session'[p].successor = t, session'[p].revoked
          PROVE  p \in Made /\ session'[p] = session[p]
      BY <1>7, <1>8, <1>10, <1>11, <1>12, <2>2, <3>2
    <3>. QED
      BY <1>3, <2>2, <3>1, <3>2 DEF ReachInv, RevocationReaches
  <2>. QED
    BY <1>8, <2>1, <2>2
<1>. QED
  BY <1>14, <1>15, <1>16 DEF ReachInv

(* A revocation ends: what it did not revoke it did not find. *)
LEMMA ReachEnds ==
  ASSUME ChainInv, ReachInv, NEW w \in Tabs, EndRevoking(w)
  PROVE  ReachInv'
<1>. USE DEF ChainInv
<1>. DEFINE now == IF req[w].kind \in {"reset", "change"} THEN password + 1 ELSE password
<1>1. /\ Revoking(w) /\ password' = now /\ slipped' = slipped /\ req[w] \in Request
      /\ detached' = IF req[w].kind = "change" THEN detached \union {req[w].token} ELSE detached
      /\ req' = [req EXCEPT ![w] = Idle]
  BY DEF EndRevoking, Goes, At, Revoking, SessionTypes
<1>2. session' = [s \in Ids |->
        [session[s] EXCEPT !.revoked = @ \/ s \in req[w].rows,
                           !.proof = IF Reproved(w, s) THEN now ELSE @]]
  BY DEF EndRevoking, RevokedRows
<1>. HIDE DEF now
<1>3. ASSUME NEW s \in Ids
      PROVE  /\ session'[s].made = session[s].made
             /\ session'[s].chain = session[s].chain
             /\ session'[s].successor = session[s].successor
             /\ session'[s].revoked <=> session[s].revoked \/ s \in req[w].rows
             /\ session'[s].proof = IF Reproved(w, s) THEN now ELSE session[s].proof
  <2>. DEFINE r == session[s].revoked \/ s \in req[w].rows
              p == IF Reproved(w, s) THEN now ELSE session[s].proof
  <2>1. session[s] \in SessionRow
    BY DEF SessionTypes
  <2>2. session'[s] = [session[s] EXCEPT !.revoked = r, !.proof = p]
    BY <1>2
  <2>. HIDE DEF r, p
  <2>3. /\ session'[s].made = session[s].made
        /\ session'[s].chain = session[s].chain
        /\ session'[s].successor = session[s].successor
        /\ session'[s].revoked = r /\ session'[s].proof = p
    BY <2>1, <2>2 DEF SessionRow
  <2>. QED
    BY <2>3 DEF r, p
<1>4. /\ Made' = Made /\ Made \subseteq Ids /\ Unrevoked \subseteq Made
      /\ Unrevoked' = Unrevoked \ req[w].rows
  BY <1>3 DEF Made, Unrevoked
<1>5. RevocationReaches'
  <2>. SUFFICES ASSUME NEW s \in Unrevoked'
                PROVE  /\ session'[s].proof = password' \/ s \in slipped'
                       /\ \A p \in Made' : session'[p].successor = s /\ session'[p].revoked =>
                            s \in slipped' \union detached'
    BY DEF RevocationReaches
  <2>1. s \in Unrevoked /\ s \notin req[w].rows /\ s \in Made /\ s \in Ids
    BY <1>4
  <2>2. session[s].proof = password \/ s \in slipped
    BY <2>1 DEF ReachInv, RevocationReaches
  <2>3. session'[s].proof = password' \/ s \in slipped'
    <3>1. \/ session'[s].proof = password'
          \/ s \in slipped
      <4>1. CASE req[w].kind \in {"reset", "change"}
        <5>1. \/ s \in slipped
              \/ req[w].kind = "change" /\ session[s].chain = session[req[w].token].chain
          BY <1>1, <2>1, <4>1 DEF ReachInv, OldPasswords, Replaces
        <5>. QED
          BY <1>1, <1>3, <2>1, <5>1 DEF Reproved
      <4>2. CASE req[w].kind \notin {"reset", "change"}
        <5>1. now = password /\ ~Reproved(w, s)
          BY <4>2 DEF now, Reproved
        <5>. QED
          BY <1>1, <1>3, <2>1, <2>2, <5>1
      <4>. QED
        BY <4>1, <4>2
    <3>. QED
      BY <1>1, <3>1
  <2>4. ASSUME NEW p \in Made, session'[p].successor = s, session'[p].revoked
        PROVE  s \in slipped' \union detached'
    <3>1. session[p].successor = s /\ p \in Ids
      BY <1>3, <1>4, <2>4
    <3>2. CASE session[p].revoked
      BY <1>1, <2>1, <3>1, <3>2 DEF ReachInv, RevocationReaches
    <3>3. CASE p \in req[w].rows
      BY <1>1, <2>1, <3>1, <3>3 DEF ReachInv, OldSuccessors
    <3>. QED
      BY <1>3, <2>4, <3>1, <3>2, <3>3
  <2>. QED
    BY <1>4, <2>3, <2>4
<1>6. \A v \in Tabs : req'[v] = req[v] \/ req'[v] = Idle
  BY <1>1 DEF SessionTypes
<1>. QED
  BY <1>1, <1>3, <1>5, <1>6, ReachShrinks

LEMMA InitReach == Init => ReachInv
<1>. SUFFICES ASSUME Init PROVE ReachInv
  OBVIOUS
<1>1. Made = {} /\ Unrevoked = {}
  BY NoRowIsRow DEF Init, Made, Unrevoked
<1>. QED
  BY <1>1 DEF Init, ReachInv, OldPasswords, OldSuccessors, RevocationReaches, Replaces, Revoking,
              Idle

LEMMA StepReach == ChainInv /\ ReachInv /\ [Next]_vars => ReachInv'
<1>. SUFFICES ASSUME ChainInv, ReachInv, [Next]_vars PROVE ReachInv'
  OBVIOUS
<1>1. ASSUME NEW w \in Tabs,
             \/ Login(w) \/ Refresh(w) \/ Lookup(w) \/ Close(w) \/ Abort(w) \/ ResolveGrace(w)
             \/ ResolveReuse(w) \/ Answer(w) \/ LoseAnswer(w)
             \/ \E kind \in RevokingKinds : StartRevoking(w, kind)
      PROVE  ReachInv'
  BY <1>1, ReachQuiet
<1>2. ASSUME NEW w \in Tabs, Logout(w) \/ \E s \in Ids : RevokeSession(w, s) PROVE ReachInv'
  BY <1>2, ReachRevokesOne
<1>3. ASSUME NEW w \in Tabs, EndRevoking(w) PROVE ReachInv'
  BY <1>3, ReachEnds
<1>4. ASSUME NEW w \in Tabs, NEW s \in Ids, CreateSession(w, s) PROVE ReachInv'
  BY <1>4, ReachCreates
<1>5. ASSUME NEW w \in Tabs, NEW s \in Ids, Commit(w, s) PROVE ReachInv'
  BY <1>5, ReachCommits
<1>6. ASSUME NEW s \in Ids, GraceEnds(s) PROVE ReachInv'
  BY <1>6, ReachAges
<1>7. CASE UNCHANGED vars
  BY <1>7 DEF vars, database, history, ReachInv, OldPasswords, OldSuccessors, RevocationReaches,
              Replaces, Revoking, Unrevoked, Made
<1>. QED
  BY <1>1, <1>2, <1>3, <1>4, <1>5, <1>6, <1>7 DEF Next

(* A password change, a reset, a logout everywhere or the answer to a      *)
(* stolen token ends every session that was open when it began: what is    *)
(* left was inserted by a request that it overtook, or is the session that *)
(* changed the password, or follows a row that was revoked on its own.     *)
THEOREM RevocationsReach == Spec => []RevocationReaches
<1>1. ReachInv => RevocationReaches
  BY DEF ReachInv
<1>. QED
  BY <1>1, InitReach, StepReach, ChainAlways, PTL DEF Spec

-----------------------------------------------------------------------------
(* Why tabs that refresh at the same time are not taken for a thief *)

(* One tab goes on; it answers nothing before or after, and what it        *)
(* presents is neither late nor on its way to another tab.                 *)
LEMMA CalmRequest ==
  ASSUME ChainInv, Calm, NEW w \in Tabs, NEW q, req' = [req EXCEPT ![w] = q],
         UNCHANGED <<session, user, cookie, alarm>>,
         q.kind # "reuse", ~At(w, "answer"), q.pc # "answer",
         q.pc \in {"lookup", "close", "commit", "superseded"} =>
           /\ session[q.token].superseded # "old"
           /\ \A v \in Tabs \ {w} : At(v, "answer") => req[v].token # q.token,
         q.pc = "superseded" => session[q.token].superseded # "no"
  PROVE  Calm'
<1>1. \A v \in Tabs : req'[v] = IF v = w THEN q ELSE req[v]
  BY DEF ChainInv, SessionTypes
<1>2. CookieIsFresh'
  BY <1>1 DEF Calm, CookieIsFresh, At
<1>3. AnswersAreNew'
  BY <1>1 DEF Calm, AnswersAreNew, At, Presents
<1>4. NoneIsLate'
  BY <1>1 DEF Calm, NoneIsLate, At, Presents
<1>. QED
  BY <1>1, <1>2, <1>3, <1>4 DEF Calm

(* A refresh presents the cookie, and goes on with what it presented. *)
LEMMA CalmPresents ==
  ASSUME ChainInv, Calm, NEW w \in Tabs, Refresh(w) \/ Lookup(w) \/ Close(w)
  PROVE  Calm'
<1>. USE DEF ChainInv
<1>1. Idle.kind # "reuse" /\ Idle.pc = "idle"
  BY DEF Idle
<1>2. UNCHANGED <<session, user, cookie, alarm>>
  BY DEF Refresh, Lookup, Close, Refused, database, browser, history
<1>3. CASE Refresh(w)
  <2>. DEFINE q == [Idle EXCEPT !.kind = "refresh", !.pc = "lookup", !.token = cookie]
  <2>1. q.kind = "refresh" /\ q.pc = "lookup" /\ q.token = cookie
    BY DEF Idle
  <2>2. req' = [req EXCEPT ![w] = q] /\ ~At(w, "answer") /\ cookie # NoSession
    BY <1>1, <1>3 DEF Refresh, Begins, At
  <2>3. session[cookie].superseded # "old" /\ \A v \in Tabs : At(v, "answer") => req[v].token # cookie
    BY <2>2 DEF Calm, CookieIsFresh, AnswersAreNew
  <2>. HIDE DEF q
  <2>. QED
    BY <1>2, <2>1, <2>2, <2>3, CalmRequest
<1>4. CASE Refused(w) /\ req[w].pc # "answer"
  BY <1>1, <1>2, <1>4, CalmRequest DEF Refused, Goes, At
<1>5. ASSUME req[w].pc \in {"lookup", "close"}, NEW pc \in {"close", "commit", "superseded"},
             Goes(w, [req[w] EXCEPT !.pc = pc]),
             pc = "superseded" => session[req[w].token].superseded # "no"
      PROVE  Calm'
  <2>. DEFINE q == [req[w] EXCEPT !.pc = pc]
  <2>1. q.kind = req[w].kind /\ q.pc = pc /\ q.token = req[w].token
    BY DEF SessionTypes, Request
  <2>2. req' = [req EXCEPT ![w] = q] /\ ~At(w, "answer") /\ Presents(w)
    BY <1>5 DEF Goes, At, Presents
  <2>3. /\ session[req[w].token].superseded # "old" /\ req[w].kind # "reuse"
        /\ \A v \in Tabs \ {w} : At(v, "answer") => req[v].token # req[w].token
    BY <2>2 DEF Calm, NoneIsLate, AnswersAreNew
  <2>. HIDE DEF q
  <2>. QED
    BY <1>2, <1>5, <2>1, <2>2, <2>3, CalmRequest
<1>6. CASE Lookup(w)
  BY <1>4, <1>5, <1>6 DEF Lookup, At
<1>7. CASE Close(w)
  <2>1. req[w].pc = "close" /\ session[req[w].token].made /\ ~session[req[w].token].revoked
    BY <1>7, SessionAssumption DEF Close, At, Holding, Known, Made, Calm
  <2>2. ~Closes(req[w].token) => session[req[w].token].superseded # "no"
    BY <2>1 DEF Closes, Open
  <2>. QED
    BY <1>5, <1>7, <2>1, <2>2 DEF Close
<1>. QED
  BY <1>3, <1>6, <1>7

(* The successor of a token that is presented in time is there. *)
LEMMA NoneIsReused ==
  ASSUME ChainInv, Calm, NEW w \in Tabs
  PROVE  ~ResolveReuse(w)
<1>. USE DEF ChainInv
<1>1. SUFFICES ASSUME At(w, "superseded") PROVE WithinGrace(req[w].token)
  BY DEF ResolveReuse
<1>2. PICK s \in Made : s = req[w].token
  BY <1>1, SessionAssumption DEF At, Holding, Known
<1>3. session[s].superseded \in {"no", "recent", "old"}
  BY DEF SessionTypes, SessionRow, Made
<1>4. session[s].superseded = "recent"
  BY <1>1, <1>2, <1>3 DEF Calm, NoneIsLate, Presents, At
<1>5. session[s].successor \in Made
  BY <1>4 DEF OneOpenEnd
<1>6. session[s].successor # NoSession /\ ~session[session[s].successor].revoked
  BY <1>5, SessionAssumption DEF Made, Calm
<1>. QED
  BY <1>2, <1>4, <1>6, SessionAssumption DEF WithinGrace, Calm

LEMMA CalmLeaves ==
  ASSUME ChainInv, Calm, NEW w \in Tabs,
         Login(w) \/ Abort(w) \/ ResolveGrace(w) \/ \E kind \in RevokingKinds : StartRevoking(w, kind)
  PROVE  Calm'
<1>1. Idle.kind # "reuse" /\ Idle.pc = "idle"
  BY DEF Idle
<1>2. UNCHANGED <<session, user, cookie, alarm>>
  BY DEF Login, Abort, ResolveGrace, StartRevoking, Refused, database, browser, history
<1>3. CASE Login(w)
  <2>. DEFINE q == [Idle EXCEPT !.kind = "login", !.pc = "create", !.proof = password]
  <2>1. q.kind = "login" /\ q.pc = "create"
    BY DEF Idle
  <2>2. req' = [req EXCEPT ![w] = q] /\ ~At(w, "answer")
    BY <1>1, <1>3 DEF Login, Begins, At
  <2>. HIDE DEF q
  <2>. QED
    BY <1>2, <2>1, <2>2, CalmRequest
<1>4. CASE Abort(w) \/ ResolveGrace(w)
  <2>1. req' = [req EXCEPT ![w] = Idle] /\ ~At(w, "answer")
    BY <1>4 DEF Abort, ResolveGrace, Refused, Goes, At
  <2>. QED
    BY <1>1, <1>2, <2>1, CalmRequest
<1>5. ASSUME NEW kind \in RevokingKinds, StartRevoking(w, kind)
      PROVE  Calm'
  <2>. DEFINE q == [Idle EXCEPT !.kind = kind, !.pc = "revoke",
                          !.token = IF kind = "change" THEN access[w] ELSE NoSession,
                          !.rows = Unrevoked \ Kept(w, kind)]
  <2>1. q.kind = kind /\ q.pc = "revoke" /\ kind # "reuse"
    BY DEF Idle, RevokingKinds
  <2>2. req' = [req EXCEPT ![w] = q] /\ ~At(w, "answer")
    BY <1>1, <1>5 DEF StartRevoking, Begins, At
  <2>. HIDE DEF q
  <2>. QED
    BY <1>2, <2>1, <2>2, CalmRequest
<1>. QED
  BY <1>3, <1>4, <1>5

(* The browser takes the token of an answer: nobody else has it. *)
LEMMA CalmAnswers ==
  ASSUME ChainInv, Calm, NEW w \in Tabs, Answer(w)
  PROVE  Calm'
<1>1. /\ UNCHANGED <<session, user, alarm>> /\ cookie' = req[w].token /\ At(w, "answer")
      /\ req' = [req EXCEPT ![w] = Idle]
  BY DEF Answer, Goes, database, history
<1>2. \A v \in Tabs : req'[v] = IF v = w THEN Idle ELSE req[v]
  BY <1>1 DEF ChainInv, SessionTypes
<1>3. Idle.kind # "reuse" /\ Idle.pc = "idle"
  BY DEF Idle
<1>4. CookieIsFresh'
  BY <1>1 DEF Calm, CookieIsFresh, AnswersAreNew
<1>5. AnswersAreNew'
  BY <1>1, <1>2, <1>3 DEF Calm, AnswersAreNew, At, Presents
<1>6. NoneIsLate'
  BY <1>1, <1>2, <1>3 DEF Calm, NoneIsLate, At, Presents
<1>. QED
  BY <1>1, <1>2, <1>3, <1>4, <1>5, <1>6 DEF Calm

(* A new row, the successor of a row that is presented or a chain of its   *)
(* own, and the answer that brings its token.                              *)
LEMMA CalmInserts ==
  ASSUME ChainInv, Calm, NEW w \in Tabs, NEW new \in Ids,
         NEW q, req' = [req EXCEPT ![w] = q], q.kind = req[w].kind, q.pc = "answer", q.token = new,
         ~session[new].made, ~At(w, "answer"), UNCHANGED <<user, cookie, alarm>>,
         session'[new].superseded = "no", ~session'[new].revoked,
         \A t \in Ids \ {new} :
           \/ session'[t] = session[t]
           \/ /\ Presents(w) /\ req[w].token = t /\ ~session'[t].revoked
              /\ session'[t].superseded = "recent" /\ session'[t].successor = new
  PROVE  Calm'
<1>. USE DEF ChainInv
<1>1. \A v \in Tabs : req'[v] = IF v = w THEN q ELSE req[v]
  BY DEF SessionTypes
<1>2. new \notin Made /\ new # NoSession /\ Made \subseteq Ids
  BY SessionAssumption DEF Made
<1>3. cookie # new /\ \A v \in Tabs : req[v].token # new
  BY <1>2 DEF Known
<1>4. CookieIsFresh'
  <2>. SUFFICES ASSUME cookie # NoSession
                PROVE  \/ session'[cookie].superseded = "no"
                       \/ /\ session'[cookie].superseded = "recent"
                          /\ \E v \in Tabs : /\ req'[v].pc = "answer"
                                             /\ req'[v].token = session'[cookie].successor
    BY DEF CookieIsFresh, At
  <2>1. cookie \in Ids \ {new}
    BY <1>2, <1>3 DEF Known
  <2>2. CASE session'[cookie] = session[cookie]
    BY <1>1, <2>2 DEF Calm, CookieIsFresh, At
  <2>3. CASE session'[cookie] # session[cookie]
    BY <1>1, <2>1, <2>3
  <2>. QED
    BY <2>2, <2>3
<1>5. AnswersAreNew'
  <2>. SUFFICES ASSUME NEW u \in Tabs, req'[u].pc = "answer"
                PROVE  /\ session'[req'[u].token].superseded = "no" /\ cookie # req'[u].token
                       /\ \A v \in Tabs \ {u} : Presents(v)' \/ req'[v].pc = "answer" =>
                            req'[v].token # req'[u].token
    BY DEF AnswersAreNew, At
  <2>1. CASE u = w
    BY <1>1, <1>3, <2>1
  <2>2. CASE u # w
    <3>1. req'[u] = req[u] /\ At(u, "answer") /\ req[u].token \in Ids \ {new}
      BY <1>1, <1>3, <2>2 DEF At, Holding
    <3>2. /\ session[req[u].token].superseded = "no" /\ cookie # req[u].token
          /\ \A v \in Tabs \ {u} : Presents(v) \/ At(v, "answer") => req[v].token # req[u].token
      BY <3>1 DEF Calm, AnswersAreNew
    <3>3. session'[req[u].token] = session[req[u].token]
      BY <2>2, <3>1, <3>2
    <3>4. ASSUME NEW v \in Tabs \ {u}, Presents(v)' \/ req'[v].pc = "answer"
          PROVE  req'[v].token # req[u].token
      BY <1>1, <3>1, <3>2, <3>4 DEF Presents, At
    <3>. QED
      BY <3>1, <3>2, <3>3, <3>4
  <2>. QED
    BY <2>1, <2>2
<1>6. NoneIsLate'
  <2>. SUFFICES ASSUME NEW v \in Tabs
                PROVE  /\ Presents(v)' => session'[req'[v].token].superseded # "old"
                       /\ req'[v].pc = "superseded" => session'[req'[v].token].superseded # "no"
    BY DEF NoneIsLate, At
  <2>1. CASE v = w
    BY <1>1, <2>1 DEF Presents
  <2>2. CASE v # w
    <3>1. req'[v] = req[v] /\ (Presents(v) => req[v].token \in Ids \ {new})
      BY <1>1, <1>3, <2>2 DEF Presents, Holding
    <3>2. /\ Presents(v) => session[req[v].token].superseded # "old"
          /\ req[v].pc = "superseded" => session[req[v].token].superseded # "no"
      BY DEF Calm, NoneIsLate, At
    <3>3. /\ Presents(v) => session'[req[v].token].superseded # "old"
          /\ req[v].pc = "superseded" => session'[req[v].token].superseded # "no"
      BY <3>1, <3>2 DEF Presents
    <3>. QED
      BY <3>1, <3>3 DEF Presents
  <2>. QED
    BY <2>1, <2>2
<1>7. \A t \in Ids : ~session'[t].revoked
  BY DEF Calm
<1>. QED
  BY <1>1, <1>4, <1>5, <1>6, <1>7 DEF Calm

LEMMA CalmCreates ==
  ASSUME ChainInv, Calm, NEW w \in Tabs, NEW new \in Ids, CreateSession(w, new) \/ Commit(w, new)
  PROVE  Calm'
<1>. USE DEF ChainInv
<1>. DEFINE q == [req[w] EXCEPT !.pc = "answer", !.token = new]
<1>1. /\ req' = [req EXCEPT ![w] = q] /\ ~session[new].made /\ ~At(w, "answer")
      /\ UNCHANGED <<user, cookie, alarm>>
  BY DEF CreateSession, Commit, Goes, At, browser
<1>2. q.kind = req[w].kind /\ q.pc = "answer" /\ q.token = new
  BY DEF SessionTypes, Request
<1>. HIDE DEF q
<1>3. CASE CreateSession(w, new)
  <2>. DEFINE row == NewRow(new, req[w].proof)
  <2>1. session' = [session EXCEPT ![new] = row] /\ row.superseded = "no" /\ ~row.revoked
    BY <1>3, NoRowIsRow DEF CreateSession, NewRow, NoRow
  <2>. HIDE DEF row
  <2>2. /\ session'[new].superseded = "no" /\ ~session'[new].revoked
        /\ \A t \in Ids \ {new} : session'[t] = session[t]
    BY <2>1 DEF SessionTypes
  <2>. QED
    BY <1>1, <1>2, <2>2, CalmInserts
<1>4. CASE Commit(w, new)
  <2>1. PICK s \in Ids : s = req[w].token
    BY <1>4 DEF Commit, At, Holding
  <2>. DEFINE row == NewRow(session[s].chain, session[s].proof)
  <2>2. /\ Presents(w) /\ Open(s)
        /\ session' = [session EXCEPT ![s].superseded = "recent", ![s].successor = new, ![new] = row]
    BY <1>4, <2>1 DEF Commit, At, Holding, Presents
  <2>3. row.superseded = "no" /\ ~row.revoked
    BY NoRowIsRow DEF NewRow, NoRow
  <2>. HIDE DEF row
  <2>4. session[s] \in SessionRow /\ s # new /\ ~session[s].revoked
    BY <1>1, <2>2 DEF SessionTypes, Open
  <2>5. /\ session'[new] = row /\ \A t \in Ids \ {s, new} : session'[t] = session[t]
        /\ session'[s] = [session[s] EXCEPT !.superseded = "recent", !.successor = new]
    BY <2>2, <2>4 DEF SessionTypes
  <2>6. ~session'[s].revoked /\ session'[s].superseded = "recent" /\ session'[s].successor = new
    BY <2>4, <2>5 DEF SessionRow
  <2>7. /\ session'[new].superseded = "no" /\ ~session'[new].revoked
        /\ \A t \in Ids \ {new} :
             \/ session'[t] = session[t]
             \/ /\ Presents(w) /\ req[w].token = t /\ ~session'[t].revoked
                /\ session'[t].superseded = "recent" /\ session'[t].successor = new
    BY <2>1, <2>2, <2>3, <2>5, <2>6
  <2>. HIDE DEF ChainInv
  <2>. QED
    BY <1>1, <1>2, <2>7, CalmInserts
<1>. QED
  BY <1>3, <1>4

(* A window ends that no request and no answer depends on. *)
LEMMA CalmAges ==
  ASSUME ChainInv, Calm, NEW s \in Ids, GraceEnds(s), ~Presented(s)
  PROVE  Calm'
<1>. USE DEF ChainInv
<1>1. /\ UNCHANGED <<user, cookie, req, alarm>> /\ session[s].superseded = "recent"
      /\ session' = [session EXCEPT ![s].superseded = "old"]
  BY DEF GraceEnds, browser
<1>2. ASSUME NEW t \in Ids
      PROVE  /\ session'[t].superseded = IF t = s THEN "old" ELSE session[t].superseded
             /\ session'[t].successor = session[t].successor
             /\ session'[t].revoked = session[t].revoked
  BY <1>1 DEF SessionTypes, SessionRow
<1>3. \A w \in Tabs : req[w].pc # "idle" => req[w].token \notin {s, session[s].successor}
  BY DEF Presented, Idle
<1>4. CookieIsFresh'
  <2>1. SUFFICES ASSUME cookie # NoSession
                 PROVE  \/ session'[cookie].superseded = "no"
                        \/ /\ session'[cookie].superseded = "recent"
                           /\ \E v \in Tabs : /\ req[v].pc = "answer"
                                              /\ req[v].token = session'[cookie].successor
    BY <1>1 DEF CookieIsFresh, At
  <2>2. cookie \in Ids
    BY <2>1 DEF SessionTypes
  <2>3. \/ session[cookie].superseded = "no"
        \/ /\ session[cookie].superseded = "recent"
           /\ \E v \in Tabs : req[v].pc = "answer" /\ req[v].token = session[cookie].successor
    BY <2>1 DEF Calm, CookieIsFresh, At
  <2>4. cookie # s
    BY <1>1, <1>3, <2>3
  <2>. QED
    BY <1>2, <2>2, <2>3, <2>4
<1>5. AnswersAreNew'
  <2>1. \A w \in Tabs : At(w, "answer") => req[w].token \in Ids /\ req[w].token # s
    BY <1>3 DEF At, Holding
  <2>. QED
    BY <1>1, <1>2, <2>1 DEF Calm, AnswersAreNew, At, Presents
<1>6. NoneIsLate'
  <2>1. \A w \in Tabs : Presents(w) => req[w].token \in Ids /\ req[w].token # s
    BY <1>3 DEF Presents, Holding
  <2>. QED
    BY <1>1, <1>2, <2>1 DEF Calm, NoneIsLate, At, Presents
<1>7. \A t \in Ids : ~session'[t].revoked
  BY <1>2 DEF Calm
<1>. QED
  BY <1>1, <1>4, <1>5, <1>6, <1>7 DEF Calm

LEMMA InitCalm == Init => CalmInv
<1>. SUFFICES ASSUME Init PROVE Calm
  BY DEF CalmInv
<1>1. \A s \in Ids : ~session[s].revoked
  BY NoRowIsRow DEF Init
<1>2. \A w \in Tabs : req[w].kind # "reuse" /\ req[w].pc = "idle"
  BY DEF Init, Idle
<1>3. CookieIsFresh /\ AnswersAreNew /\ NoneIsLate
  BY <1>2 DEF Init, CookieIsFresh, AnswersAreNew, NoneIsLate, At, Presents
<1>. QED
  BY <1>1, <1>2, <1>3 DEF Init, Calm

LEMMA StepCalm == ChainInv /\ CalmInv /\ [Next]_vars => CalmInv'
<1>. SUFFICES ASSUME ChainInv, CalmInv, [Next]_vars, ~trouble' PROVE Calm'
  BY DEF CalmInv
<1>1. ~trouble
  BY DEF Next, vars, history, Login, Refresh, Lookup, Close, Abort, ResolveGrace, ResolveReuse,
         Answer, LoseAnswer, Logout, EndRevoking, CreateSession, Commit, RevokeSession, RevokeOne,
         StartRevoking, GraceEnds
<1>2. Calm
  BY <1>1 DEF CalmInv
<1>3. ASSUME NEW w \in Tabs, Refresh(w) \/ Lookup(w) \/ Close(w) PROVE Calm'
  BY <1>2, <1>3, CalmPresents
<1>4. ASSUME NEW w \in Tabs,
             Login(w) \/ Abort(w) \/ ResolveGrace(w) \/ \E kind \in RevokingKinds : StartRevoking(w, kind)
      PROVE  Calm'
  BY <1>2, <1>4, CalmLeaves
<1>5. ASSUME NEW w \in Tabs, Answer(w) PROVE Calm'
  BY <1>2, <1>5, CalmAnswers
<1>6. \A w \in Tabs : ~ResolveReuse(w)
  BY <1>2, NoneIsReused
<1>7. \A w \in Tabs : ~LoseAnswer(w) /\ ~Logout(w) /\ \A s \in Ids : ~RevokeSession(w, s)
  BY DEF LoseAnswer, Logout, RevokeSession, RevokeOne
<1>8. \A w \in Tabs : ~EndRevoking(w)
  BY <1>2 DEF EndRevoking, Calm
<1>9. ASSUME NEW w \in Tabs, NEW s \in Ids, CreateSession(w, s) \/ Commit(w, s) PROVE Calm'
  BY <1>2, <1>9, CalmCreates
<1>10. ASSUME NEW s \in Ids, GraceEnds(s) PROVE Calm'
  <2>1. ~Presented(s)
    BY <1>10 DEF GraceEnds
  <2>. QED
    BY <1>2, <1>10, <2>1, CalmAges
<1>11. CASE UNCHANGED vars
  BY <1>2, <1>11 DEF vars, database, browser, history, Calm, CookieIsFresh, AnswersAreNew,
                     NoneIsLate, Presents, At
<1>. QED
  BY <1>3, <1>4, <1>5, <1>6, <1>7, <1>8, <1>9, <1>10, <1>11 DEF Next

(* Tabs that refresh at the same time are never taken for a thief: as long *)
(* as no answer is lost or outlives the grace window and nobody revokes a  *)
(* session, a superseded token finds its successor open.                   *)
THEOREM NoFalseAlarms == Spec => []NoFalseAlarm
<1>1. CalmInv => NoFalseAlarm
  BY DEF CalmInv, Calm, NoFalseAlarm
<1>. QED
  BY <1>1, InitCalm, StepCalm, ChainAlways, PTL DEF Spec

=============================================================================
