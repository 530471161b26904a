------------------------------ MODULE Sessions ------------------------------
(***************************************************************************)
(* The sessions of one user: `auth.service.ts` (refresh, logout, password  *)
(* reset and change), `users.service.ts` (deleteMe) and the web client     *)
(* (`api-client.ts`) whose tabs share one refresh cookie.                  *)
(*                                                                         *)
(* A refresh token names its Session row, so a token is modelled by its    *)
(* session.  refresh() looks the row up, closes it with a conditional      *)
(* UPDATE and inserts its successor in one SQL transaction: the UPDATE     *)
(* locks the row, and the other requests see both writes at the commit.    *)
(* A statement that revokes every session works on the rows that exist     *)
(* when it starts, and waits for those that are locked.                    *)
(***************************************************************************)
EXTENDS Naturals, FiniteSets

CONSTANTS
  Ids,           \* session ids
  NoSession,     \* no successor, no cookie, no access token
  Tabs,          \* tabs of the browser, each with at most one request in flight
  MaxRequests,   \* bound: requests of a behaviour
  MaxPassword,   \* bound: changes of the password
  GraceWindow    \* ages at which a superseded token is still resolved

ASSUME SessionAssumption ==
  /\ NoSession \notin Ids /\ {MaxRequests, MaxPassword} \subseteq Nat
  /\ "recent" \in GraceWindow /\ GraceWindow \subseteq {"recent", "old"}

VARIABLES
  session,   \* the table
  password,  \* how often the password was changed
  user,      \* "active" or "deleted"
  cookie,    \* the refresh cookie of the browser
  access,    \* tab -> session of the access token it keeps in memory
  req,       \* tab -> the request it has in flight
  started,   \* requests begun (bound)
  slipped,   \* history: sessions inserted by a request that a revocation overtook
  detached,  \* history: rows that outlive their predecessor: it was revoked on its
             \* own, or they are the session of a caller of changePassword()
  trouble,   \* history: an answer was lost or late, or a session was revoked on purpose
  alarm      \* history: a token was taken for stolen

database == <<session, password, user>>
browser == <<cookie, access>>
history == <<slipped, detached, trouble, alarm>>
vars == <<database, browser, req, started, history>>

-----------------------------------------------------------------------------
(* Rows and requests *)

(* supersededAt is an age: before, within or after REFRESH_REUSE_GRACE_MS. *)
(* chain and proof are history: the login a row descends from, and the     *)
(* password that login proved.                                             *)
SessionRow == [made : BOOLEAN, revoked : BOOLEAN,
               superseded : {"no", "recent", "old"},
               successor : Ids \union {NoSession},
               chain : Ids \union {NoSession}, proof : 0..MaxPassword]

NoRow == [made |-> FALSE, revoked |-> FALSE, superseded |-> "no",
          successor |-> NoSession, chain |-> NoSession, proof |-> 0]

NewRow(chain, proof) == [NoRow EXCEPT !.made = TRUE, !.chain = chain, !.proof = proof]

Made == {s \in Ids : session[s].made}

Open(s) == session[s].made /\ ~session[s].revoked /\ session[s].superseded = "no"

Idle == [kind |-> "idle", pc |-> "idle", token |-> NoSession,
         rows |-> {}, proof |-> 0]

Request == [kind  : {"idle", "login", "refresh", "reuse", "logoutAll", "reset", "change", "deleteMe"},
            pc    : {"idle", "create", "lookup", "close", "commit", "superseded", "revoke", "answer"},
            token : Ids \union {NoSession},  \* the token presented, issued or kept
            rows  : SUBSET Ids,              \* rows a revoking statement works on
            proof : 0..MaxPassword]          \* the password a login has verified

At(w, pc) == req[w].pc = pc

Locked(s) == \E w \in Tabs : At(w, "commit") /\ req[w].token = s

Goes(w, fields) == req' = [req EXCEPT ![w] = fields] /\ UNCHANGED started

Begins(w, fields) ==
  /\ req[w] = Idle /\ started < MaxRequests
  /\ req' = [req EXCEPT ![w] = fields] /\ started' = started + 1

(* The answer was an error: doRefresh() drops the access token. *)
Refused(w) == Goes(w, Idle) /\ access' = [access EXCEPT ![w] = NoSession] /\ UNCHANGED cookie

-----------------------------------------------------------------------------
(* login() and createSessionAndTokens() *)

(* The password is verified, then the last login is stored, then the row.  *)
Login(w) ==
  /\ user = "active"
  /\ Begins(w, [Idle EXCEPT !.kind = "login", !.pc = "create", !.proof = password])
  /\ UNCHANGED <<database, browser, history>>

(* A password change has started that does not see the new row. *)
Replacing == \E v \in Tabs : At(v, "revoke") /\ req[v].kind \in {"reset", "change"}

CreateSession(w, s) ==
  /\ At(w, "create") /\ ~session[s].made
  /\ session' = [session EXCEPT ![s] = NewRow(s, req[w].proof)]
  /\ slipped' = IF req[w].proof # password \/ Replacing THEN slipped \union {s} ELSE slipped
  /\ Goes(w, [req[w] EXCEPT !.pc = "answer", !.token = s])
  /\ UNCHANGED <<password, user, browser, detached, trouble, alarm>>

-----------------------------------------------------------------------------
(* refresh() *)

Refresh(w) ==
  /\ cookie # NoSession
  /\ Begins(w, [Idle EXCEPT !.kind = "refresh", !.pc = "lookup", !.token = cookie])
  /\ UNCHANGED <<database, browser, history>>

Lookup(w) ==
  LET s == req[w].token IN
  /\ At(w, "lookup")
  /\ \/ /\ session[s].superseded # "no"
        /\ Goes(w, [req[w] EXCEPT !.pc = "superseded"]) /\ UNCHANGED browser
     \/ /\ Open(s) /\ user = "active"
        /\ Goes(w, [req[w] EXCEPT !.pc = "close"]) /\ UNCHANGED browser
     \/ /\ session[s].superseded = "no"
        /\ Refused(w)  \* revoked, expired (at any time), or no such user any more
  /\ UNCHANGED <<database, history>>

(* The conditional UPDATE: a row that was superseded or revoked since the  *)
(* lookup is not closed, and the request takes the shared path.            *)
ClosesAnyRow(s) == session[s].made

Closes(s) == Open(s)

Close(w) ==
  LET s == req[w].token IN
  /\ At(w, "close") /\ ~Locked(s)
  /\ Goes(w, [req[w] EXCEPT !.pc = IF Closes(s) THEN "commit" ELSE "superseded"])
  /\ UNCHANGED <<database, browser, history>>

(* A revoking statement that started before this commit does not see the   *)
(* new row.                                                                *)
Overtaken(s) == \E v \in Tabs : At(v, "revoke") /\ s \in req[v].rows

Commit(w, new) ==
  LET s == req[w].token IN
  /\ At(w, "commit") /\ ~session[new].made
  /\ session' = [session EXCEPT ![s].superseded = "recent", ![s].successor = new,
                                ![new] = NewRow(session[s].chain, session[s].proof)]
  /\ slipped' = IF Overtaken(s) \/ s \in slipped THEN slipped \union {new} ELSE slipped
  /\ Goes(w, [req[w] EXCEPT !.pc = "answer", !.token = new])
  /\ UNCHANGED <<password, user, browser, detached, trouble, alarm>>

(* An error, a timeout of the SQL transaction or a restart rolls it back.  *)
Abort(w) ==
  /\ At(w, "close") \/ At(w, "commit")
  /\ Refused(w)
  /\ UNCHANGED <<database, history>>

WithinGraceOfOpenSuccessor(s) ==
  LET next == session[s].successor IN
  session[s].superseded \in GraceWindow /\ next # NoSession /\ Open(next)

WithinGrace(s) ==
  LET next == session[s].successor IN
  /\ session[s].superseded \in GraceWindow
  /\ next # NoSession /\ ~session[next].revoked
  /\ user = "active"

(* resolveSuperseded(): an access token of the successor and no cookie, or *)
(* the revocation of every session.                                        *)
ResolveGrace(w) ==
  /\ At(w, "superseded") /\ WithinGrace(req[w].token)
  /\ access' = [access EXCEPT ![w] = session[req[w].token].successor]
  /\ Goes(w, Idle)
  /\ UNCHANGED <<database, cookie, history>>

Unrevoked == {s \in Made : ~session[s].revoked}

ResolveReuse(w) ==
  /\ At(w, "superseded") /\ ~WithinGrace(req[w].token)
  /\ Goes(w, [req[w] EXCEPT !.kind = "reuse", !.pc = "revoke", !.rows = Unrevoked])
  /\ alarm' = TRUE
  /\ UNCHANGED <<database, browser, slipped, detached, trouble>>

-----------------------------------------------------------------------------
(* Answers: the cookie is set by the answer, which may be lost. *)

Answer(w) ==
  /\ At(w, "answer")
  /\ cookie' = req[w].token
  /\ access' = [access EXCEPT ![w] = req[w].token]
  /\ Goes(w, Idle)
  /\ UNCHANGED <<database, history>>

LoseAnswer(w) ==
  /\ At(w, "answer")
  /\ access' = IF req[w].kind = "refresh" THEN [access EXCEPT ![w] = NoSession] ELSE access
  /\ Goes(w, Idle)
  /\ trouble' = TRUE
  /\ UNCHANGED <<database, cookie, slipped, detached, alarm>>

-----------------------------------------------------------------------------
(* Revocations *)

(* logout() and revokeSession() update one row by its id. *)
RevokeOne(s) ==
  /\ ~Locked(s)
  /\ session' = [session EXCEPT ![s].revoked = TRUE]
  /\ detached' = detached \union ({session[s].successor} \ {NoSession})
  /\ trouble' = TRUE
  /\ UNCHANGED <<password, user, slipped, alarm>>

(* The session of the access token, which another tab may have rotated. *)
Logout(w) ==
  /\ Begins(w, Idle) /\ access[w] # NoSession
  /\ RevokeOne(access[w])
  /\ cookie' = NoSession
  /\ access' = [access EXCEPT ![w] = NoSession]

RevokeSession(w, s) ==
  /\ Begins(w, Idle) /\ access[w] # NoSession
  /\ session[s].made
  /\ RevokeOne(s)
  /\ UNCHANGED browser

(* logoutAll(), changePassword() and deleteMe() need an access token, which *)
(* is not checked against the table; resetPassword() a mailed token.        *)
RevokingKinds == {"logoutAll", "reset", "change", "deleteMe"}

Kept(w, kind) == IF kind = "change" THEN {access[w]} ELSE {}

StartRevoking(w, kind) ==
  /\ kind = "reset" \/ access[w] # NoSession
  /\ kind \in {"reset", "change"} => password < MaxPassword
  /\ user = "active" \/ kind \in {"logoutAll", "reset"}
  /\ Begins(w, [Idle EXCEPT !.kind = kind, !.pc = "revoke",
                          !.token = IF kind = "change" THEN access[w] ELSE NoSession,
                          !.rows = Unrevoked \ Kept(w, kind)])
  /\ UNCHANGED <<database, browser, history>>

(* The caller of changePassword() has proved the password it replaces. *)
Reproved(w, s) ==
  req[w].kind = "change" /\ session[s].chain = session[req[w].token].chain

OpenRowsOnly(w) == {s \in req[w].rows : Open(s)}

RevokedRows(w) == req[w].rows

EndRevoking(w) ==
  LET kind == req[w].kind
      now  == IF kind \in {"reset", "change"} THEN password + 1 ELSE password IN
  /\ At(w, "revoke")
  /\ \A s \in req[w].rows : ~Locked(s)
  /\ kind \in {"reset", "change"} => password < MaxPassword
  /\ session' = [s \in Ids |->
       [session[s] EXCEPT !.revoked = @ \/ s \in RevokedRows(w),
                          !.proof = IF Reproved(w, s) THEN now ELSE @]]
  /\ password' = now
  /\ user' = IF kind = "deleteMe" THEN "deleted" ELSE user
  /\ cookie' = IF kind = "logoutAll" THEN NoSession ELSE cookie
  /\ access' = IF kind \in {"logoutAll", "reuse", "deleteMe"}
               THEN [access EXCEPT ![w] = NoSession] ELSE access
  /\ trouble' = (trouble \/ kind # "reuse")
  /\ detached' = IF kind = "change" THEN detached \union {req[w].token} ELSE detached
  /\ Goes(w, Idle)
  /\ UNCHANGED <<slipped, alarm>>

-----------------------------------------------------------------------------
(* Time *)

Presented(s) == \E w \in Tabs : /\ req[w] # Idle
                                /\ req[w].token \in {s, session[s].successor}

GraceEnds(s) ==
  /\ session[s].superseded = "recent"
  /\ session' = [session EXCEPT ![s].superseded = "old"]
  /\ trouble' = (trouble \/ Presented(s))
  /\ UNCHANGED <<password, user, browser, req, started, slipped, detached, alarm>>

-----------------------------------------------------------------------------
Init ==
  /\ session = [s \in Ids |-> NoRow] /\ password = 0 /\ user = "active"
  /\ cookie = NoSession /\ access = [w \in Tabs |-> NoSession]
  /\ req = [w \in Tabs |-> Idle] /\ started = 0
  /\ slipped = {} /\ detached = {} /\ trouble = FALSE /\ alarm = FALSE

Next ==
  \/ \E w \in Tabs : \/ Login(w) \/ Refresh(w) \/ Lookup(w) \/ Close(w) \/ Abort(w)
                     \/ ResolveGrace(w) \/ ResolveReuse(w) \/ Answer(w) \/ LoseAnswer(w)
                     \/ Logout(w) \/ EndRevoking(w)
  \/ \E w \in Tabs, s \in Ids : CreateSession(w, s) \/ Commit(w, s) \/ RevokeSession(w, s)
  \/ \E w \in Tabs, kind \in RevokingKinds : StartRevoking(w, kind)
  \/ \E s \in Ids : GraceEnds(s)

Spec == Init /\ [][Next]_vars

-----------------------------------------------------------------------------
(* Properties *)

(* "The old token cannot spawn a second live session": whatever tabs race  *)
(* and whatever transactions abort, the rows that descend from one login   *)
(* form one chain with one open end, and a row is superseded exactly if    *)
(* its successor exists.                                                   *)
OneOpenEnd ==
  /\ \A s, t \in Made : session[s].chain = session[t].chain /\ s # t =>
       ~(session[s].superseded = "no" /\ session[t].superseded = "no")
  /\ \A s \in Made : /\ session[s].superseded # "no" => session[s].successor \in Made
                     /\ session[s].superseded = "no" => session[s].successor = NoSession

(* A revoked session never comes back and never gets a successor.          *)
RevokedIsFinal ==
  [][\A s \in Ids : session[s].revoked =>
       /\ session'[s].revoked
       /\ session'[s].successor = session[s].successor]_vars

(* A revocation of everything reaches the ends of the chains: an unrevoked *)
(* row whose predecessor is revoked, or that was opened with a password    *)
(* that is no longer the password, was inserted by a request the           *)
(* revocation overtook, or its predecessor was revoked on its own after    *)
(* its rotation, or it is the session that changed the password.           *)
RevocationReaches ==
  \A s \in Unrevoked :
    /\ session[s].proof = password \/ s \in slipped
    /\ \A p \in Made : session[p].successor = s /\ session[p].revoked =>
         s \in slipped \union detached

(* The grace window does its work: tabs that refresh at the same time are  *)
(* never taken for a thief, unless an answer was lost or took longer than  *)
(* the window, or somebody logged out.                                     *)
NoFalseAlarm == alarm => trouble

=============================================================================
