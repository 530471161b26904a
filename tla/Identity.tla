------------------------------ MODULE Identity ------------------------------
(***************************************************************************)
(* Users and the ways they sign in: `auth.service.ts` (register, login,    *)
(* verification, OAuth callback and signup, unlinking, password reset),    *)
(* `login-throttle.ts`, `users.facade.ts` and `users.service.ts`           *)
(* (deleteMe).  What happens to a session once it is open is in Sessions.  *)
(*                                                                         *)
(* A request is a sequence of statements; requests interleave between two  *)
(* of them.  email is unique over deleted rows too and never changes, so a *)
(* user is named by it; a linked account is named by its identity at the   *)
(* provider, which is unique over deleted rows as well.                    *)
(***************************************************************************)
EXTENDS Naturals, FiniteSets

CONSTANTS
  Emails, Identities, Tokens, Workers, None,
  FreeFailures,  \* failures before an attempt blocks (5 in the code)
  MaxBackoff,    \* longest block, in ticks
  MaxNow,        \* bound: ticks
  MaxRequests,   \* bound: requests
  MaxLost        \* bound: requests that are lost halfway

ASSUME IdentityAssumption ==
  /\ {FreeFailures, MaxBackoff, MaxNow, MaxRequests, MaxLost} \subseteq Nat
  /\ IsFiniteSet(Workers) /\ Workers # {}
  /\ None \notin Emails \union Identities \union Tokens

VARIABLES
  user,      \* the table User, by email
  link,      \* OAuthAccount, by identity
  token,     \* EmailVerificationToken, PasswordResetToken, PendingOAuthSignup, OAuthLoginTicket
  attempt,   \* the login attempts in memory, by email (one address)
  now, req, started, lost,
  honoured,  \* history: how often a token did what it is for
  doubled,   \* history: tokens two requests had checked at the same time
  shaken,    \* history: users whose links two requests changed at the same time,
             \* whose link another user took over, or whose creation was lost
  late       \* history: passwords verified during the present block

tables == <<user, link, token>>
history == <<honoured, doubled, shaken>>
throttle == <<attempt, late>>
bounds == <<now, started, lost>>
vars == <<tables, throttle, bounds, req, history>>

-----------------------------------------------------------------------------
User == [state : {"none", "active", "deleted"}, password : BOOLEAN, verified : BOOLEAN,
         seeded : BOOLEAN]

NoUser == [state |-> "none", password |-> FALSE, verified |-> FALSE, seeded |-> FALSE]

Link == [user : Emails \union {None}, live : BOOLEAN]

Token == [kind : {"none", "verify", "reset", "signup", "ticket"}, user : Emails \union {None},
          identity : Identities \union {None}, usable : {"yes", "used", "expired"}]

NoToken == [kind |-> "none", user |-> None, identity |-> None, usable |-> "yes"]

(* left: the statements of a Promise.all that are not done. *)
Idle == [kind |-> "idle", pc |-> "idle", user |-> None, identity |-> None, token |-> None,
         left |-> {}]

At(w, kind, pc) == req[w].kind = kind /\ req[w].pc = pc

Active(e) == user[e].state = "active"
LinksOf(e) == {i \in Identities : link[i].live /\ link[i].user = e}

Goes(w, pc) == req' = [req EXCEPT ![w].pc = pc]
Ends(w) == req' = [req EXCEPT ![w] = Idle]

Begins(w, fields) ==
  /\ req[w] = Idle /\ started < MaxRequests /\ started' = started + 1
  /\ req' = [req EXCEPT ![w] = fields]
  /\ UNCHANGED <<tables, now, lost, history>>

Asks(w, kind, pc, e, i, t) ==
  /\ Begins(w, [Idle EXCEPT !.kind = kind, !.pc = pc, !.user = e, !.identity = i, !.token = t])
  /\ UNCHANGED throttle

(* Every other step of a request. *)
Step == UNCHANGED <<bounds, throttle>>
NoHistory == UNCHANGED history

Issue(kind, e, i) ==
  \E t \in Tokens :
    /\ token[t].kind = "none"
    /\ token' = [token EXCEPT ![t] = [NoToken EXCEPT !.kind = kind, !.user = e, !.identity = i]]

-----------------------------------------------------------------------------
(* register(), resendVerification(), forgotPassword() *)

Register(w, e) == Asks(w, "register", "find", e, None, None)
Resend(w, e) == Asks(w, "resend", "find", e, None, None)
Forgot(w, e) == Asks(w, "forgot", "find", e, None, None)

FindUser(w) ==
  LET e == req[w].user IN
  /\ req[w].kind \in {"register", "resend", "forgot"} /\ req[w].pc = "find"
  /\ CASE req[w].kind = "register" -> IF Active(e) THEN Ends(w) ELSE Goes(w, "create")
       [] req[w].kind = "resend" -> IF Active(e) /\ ~user[e].verified THEN Goes(w, "mail") ELSE Ends(w)
       [] req[w].kind = "forgot" -> IF Active(e) THEN Goes(w, "mail") ELSE Ends(w)
  /\ UNCHANGED tables /\ Step /\ NoHistory

(* createUser(): the email of a user, deleted or not, cannot be inserted. *)
Insert(w, row, rest) ==
  LET e == req[w].user IN
  IF user[e].state # "none"
  THEN Ends(w) /\ UNCHANGED user
  ELSE /\ user' = [user EXCEPT ![e] = row]
       /\ req' = [req EXCEPT ![w].pc = "complete", ![w].left = rest]

CreateUser(w) ==
  /\ At(w, "register", "create")
  /\ Insert(w, [NoUser EXCEPT !.state = "active", !.password = TRUE], {"seed"})
  /\ UNCHANGED <<link, token>> /\ Step /\ NoHistory

SendMail(w) ==
  /\ req[w].pc = "mail"
  /\ Issue(IF req[w].kind = "forgot" THEN "reset" ELSE "verify", req[w].user, None)
  /\ Ends(w) /\ UNCHANGED <<user, link>> /\ Step /\ NoHistory

-----------------------------------------------------------------------------
(* login() and login-throttle.ts *)

Blocked(e) == attempt[e].until > now

LockForgotten(e) == TRUE

Unlocked(e) == attempt[e].until <= now

Login(w, e) ==
  /\ Unlocked(e)
  /\ Begins(w, [Idle EXCEPT !.kind = "login", !.pc = "verify", !.user = e])
  /\ late' = [late EXCEPT ![e] = IF Blocked(e) THEN @ ELSE 0]
  /\ UNCHANGED attempt

Backoff(count) == IF 2 ^ (count - FreeFailures) > MaxBackoff THEN MaxBackoff
                  ELSE 2 ^ (count - FreeFailures)

RecordFailure(e) ==
  LET count == attempt[e].count + 1 IN
  attempt' = [attempt EXCEPT ![e] = [count |-> count, until |->
                IF count >= FreeFailures THEN now + Backoff(count) ELSE @.until]]

(* verifyPassword(), then the counter, in one turn of the event loop. *)
VerifyPassword(w, right) ==
  LET e == req[w].user IN
  /\ At(w, "login", "verify")
  /\ late' = IF Blocked(e) THEN [late EXCEPT ![e] = @ + 1] ELSE late
  /\ IF ~(Active(e) /\ user[e].password /\ right)
     THEN RecordFailure(e) /\ Ends(w)
     ELSE IF ~user[e].verified
          THEN Ends(w) /\ UNCHANGED attempt
          ELSE Goes(w, "session") /\ attempt' = [attempt EXCEPT ![e] = [count |-> 0, until |-> 0]]
  /\ UNCHANGED <<tables, bounds>> /\ NoHistory

-----------------------------------------------------------------------------
(* Single-use tokens *)

Redeem(w, t) ==
  /\ token[t].kind # "none"
  /\ Asks(w, token[t].kind, "check", token[t].user, token[t].identity, t)

Holds(w, t) == req[w].token = t /\ req[w].pc # "check"

AcceptsUsed(t) == token[t].usable # "expired"

Usable(t) == token[t].usable = "yes"

CheckToken(w) ==
  LET t == req[w].token IN
  /\ req[w].pc = "check"
  /\ IF ~Usable(t) THEN Ends(w) /\ UNCHANGED doubled
     ELSE /\ Goes(w, CASE req[w].kind = "verify" -> "markUser" [] req[w].kind = "reset" -> "reset"
                       [] req[w].kind = "signup" -> "find" [] OTHER -> "mark")
          /\ doubled' = IF \E v \in Workers : Holds(v, t) THEN doubled \union {t} ELSE doubled
  /\ UNCHANGED <<tables, honoured, shaken>> /\ Step

(* verifyEmail(): markEmailVerified() writes a deleted user too. *)
MarkVerified(w) ==
  /\ At(w, "verify", "markUser")
  /\ user' = [user EXCEPT ![req[w].user].verified = TRUE]
  /\ Goes(w, "mark") /\ UNCHANGED <<link, token>> /\ Step /\ NoHistory

MarkUsed(w) ==
  /\ req[w].pc = "mark"
  /\ token' = [token EXCEPT ![req[w].token].usable = "used"]
  /\ Goes(w, IF req[w].kind = "verify" THEN "session" ELSE "owner")
  /\ UNCHANGED <<user, link>> /\ Step /\ NoHistory

(* resetPassword(): one SQL transaction. *)
ResetPassword(w) ==
  LET t == req[w].token IN
  /\ At(w, "reset", "reset")
  /\ user' = [user EXCEPT ![req[w].user].password = TRUE]
  /\ token' = [token EXCEPT ![t].usable = "used"]
  /\ honoured' = [honoured EXCEPT ![t] = @ + 1]
  /\ Ends(w) /\ UNCHANGED <<link, doubled, shaken>> /\ Step

(* exchangeOAuthLoginTicket() *)
Exchange(w) ==
  /\ At(w, "ticket", "owner")
  /\ IF Active(req[w].user)
     THEN honoured' = [honoured EXCEPT ![req[w].token] = @ + 1]
     ELSE UNCHANGED honoured
  /\ Ends(w) /\ UNCHANGED <<tables, doubled, shaken>> /\ Step

-----------------------------------------------------------------------------
(* handleOAuthCallback() *)

(* e: the email of the profile; only one the provider vouches for gets     *)
(* past the lookup of an identity that is not linked.                      *)
Callback(w, i, e) == Asks(w, "callback", "link", e, i, None)

FindLink(w) ==
  LET i == req[w].identity IN
  /\ At(w, "callback", "link")
  /\ req' = IF link[i].live THEN [req EXCEPT ![w].pc = "owner", ![w].user = link[i].user]
            ELSE IF req[w].user = None THEN [req EXCEPT ![w] = Idle]
            ELSE [req EXCEPT ![w].pc = "match"]
  /\ UNCHANGED tables /\ Step /\ NoHistory

FindOwner(w) ==
  /\ At(w, "callback", "owner")
  /\ IF Active(req[w].user) THEN Goes(w, "session") ELSE Ends(w)
  /\ UNCHANGED tables /\ Step /\ NoHistory

MatchEmail(w) ==
  /\ At(w, "callback", "match")
  /\ Goes(w, IF Active(req[w].user) THEN "upsert" ELSE "pending")
  /\ UNCHANGED tables /\ Step /\ NoHistory

(* The row of the identity, whoever it belonged to. *)
Upsert(i, e) ==
  /\ link' = [link EXCEPT ![i] = [user |-> e, live |-> TRUE]]
  /\ shaken' = IF link[i].live /\ link[i].user # e THEN shaken \union {link[i].user} ELSE shaken

LinkByEmail(w) ==
  /\ At(w, "callback", "upsert")
  /\ Upsert(req[w].identity, req[w].user)
  /\ Goes(w, "session") /\ UNCHANGED <<user, token, honoured, doubled>> /\ Step

CreatePending(w) ==
  /\ At(w, "callback", "pending")
  /\ Issue("signup", req[w].user, req[w].identity)
  /\ Ends(w) /\ UNCHANGED <<user, link>> /\ Step /\ NoHistory

(* loginViaOAuth(): the session, then the ticket. *)
CreateTicket(w) ==
  /\ At(w, "callback", "ticket")
  /\ Issue("ticket", req[w].user, None)
  /\ Ends(w) /\ UNCHANGED <<user, link>> /\ Step /\ NoHistory

-----------------------------------------------------------------------------
(* completeOAuthSignup() *)

FindClaimed(w) ==
  /\ At(w, "signup", "find")
  /\ IF Active(req[w].user) THEN Ends(w) ELSE Goes(w, "create")
  /\ UNCHANGED tables /\ Step /\ NoHistory

CreateOAuthUser(w) ==
  /\ At(w, "signup", "create")
  /\ Insert(w, [NoUser EXCEPT !.state = "active", !.verified = TRUE],
            {"link", "mark", "seed"})
  /\ UNCHANGED <<link, token>> /\ Step /\ NoHistory

Rest(w, s) ==
  req' = [req EXCEPT ![w].left = @ \ {s},
                     ![w].pc = IF req[w].left # {s} THEN @
                               ELSE IF req[w].kind = "register" THEN "mail" ELSE "session"]

LinkSigned(w) ==
  /\ req[w].pc = "complete" /\ "link" \in req[w].left
  /\ Upsert(req[w].identity, req[w].user)
  /\ Rest(w, "link") /\ UNCHANGED <<user, token, honoured, doubled>> /\ Step

MarkSigned(w) ==
  /\ req[w].pc = "complete" /\ "mark" \in req[w].left
  /\ token' = [token EXCEPT ![req[w].token].usable = "used"]
  /\ Rest(w, "mark") /\ UNCHANGED <<user, link>> /\ Step /\ NoHistory

(* categories.seedSystemDefaults() *)
Seed(w) ==
  /\ req[w].pc = "complete" /\ "seed" \in req[w].left
  /\ user' = [user EXCEPT ![req[w].user].seeded = TRUE]
  /\ Rest(w, "seed") /\ UNCHANGED <<link, token>> /\ Step /\ NoHistory

(* createSessionAndTokens() *)
OpenSession(w) ==
  /\ req[w].pc = "session"
  /\ honoured' = IF req[w].token = None THEN honoured ELSE [honoured EXCEPT ![req[w].token] = @ + 1]
  /\ IF req[w].kind = "callback" THEN Goes(w, "ticket") ELSE Ends(w)
  /\ UNCHANGED <<tables, doubled, shaken>> /\ Step

-----------------------------------------------------------------------------
(* unlinkOAuthAccount(), deleteMe() *)

Unlink(w, e, i) ==
  /\ Active(e) /\ i \in LinksOf(e)
  /\ Asks(w, "unlink", "count", e, i, None)

CountsItself(e) == user[e].password \/ Cardinality(LinksOf(e)) > 0

OtherWay(e) == user[e].password \/ Cardinality(LinksOf(e)) > 1

CountLinks(w) ==
  /\ At(w, "unlink", "count")
  /\ IF Active(req[w].user) /\ OtherWay(req[w].user) THEN Goes(w, "delete") ELSE Ends(w)
  /\ UNCHANGED tables /\ Step /\ NoHistory

DeleteLink(w) ==
  LET i == req[w].identity
      owner == link[i].user IN
  /\ At(w, "unlink", "delete")
  /\ link' = [link EXCEPT ![i].live = FALSE]
  /\ shaken' = IF owner # req[w].user \/ \E v \in Workers \ {w} : At(v, "unlink", "delete") /\ req[v].user = owner
               THEN shaken \union {owner} ELSE shaken
  /\ Ends(w) /\ UNCHANGED <<user, token, honoured, doubled>> /\ Step

(* The row, then the sessions (Sessions). *)
DeleteMe(e) ==
  /\ Active(e) /\ started < MaxRequests /\ started' = started + 1
  /\ user' = [user EXCEPT ![e].state = "deleted"]
  /\ UNCHANGED <<link, token, throttle, now, lost, req, history>>

Expire(t) ==
  /\ token[t].kind # "none" /\ Usable(t)
  /\ token' = [token EXCEPT ![t].usable = "expired"]
  /\ UNCHANGED <<user, link, throttle, bounds, req, history>>

Tick == /\ now < MaxNow /\ now' = now + 1
        /\ UNCHANGED <<tables, throttle, started, lost, req, history>>

(* The process stops, or loses the database. *)
Lose(w) ==
  /\ req[w] # Idle /\ lost < MaxLost /\ lost' = lost + 1
  /\ shaken' = IF req[w].pc = "complete" THEN shaken \union {req[w].user} ELSE shaken
  /\ Ends(w)
  /\ UNCHANGED <<tables, throttle, now, started, honoured, doubled>>

-----------------------------------------------------------------------------
Registered == [NoUser EXCEPT !.state = "active", !.password = TRUE, !.seeded = TRUE]
Verified == [Registered EXCEPT !.verified = TRUE]
Social == [Verified EXCEPT !.password = FALSE]

(* No user, or users that signed up before. *)
Init ==
  /\ user \in [Emails -> {NoUser, Registered, Verified, Social}]
  /\ link \in [Identities -> [user : Emails, live : {TRUE}] \union {[user |-> None, live |-> FALSE]}]
  /\ \A i \in Identities : link[i].live => Active(link[i].user)
  /\ \A e \in Emails : user[e] = Social => LinksOf(e) # {}
  /\ token = [t \in Tokens |-> NoToken]
  /\ attempt = [e \in Emails |-> [count |-> 0, until |-> 0]]
  /\ now = 1 /\ started = 0 /\ lost = 0
  /\ req = [w \in Workers |-> Idle]
  /\ honoured = [t \in Tokens |-> 0] /\ doubled = {} /\ shaken = {}
  /\ late = [e \in Emails |-> 0]

Ask(w) ==
  \/ \E e \in Emails : Register(w, e) \/ Resend(w, e) \/ Forgot(w, e) \/ Login(w, e)
  \/ \E t \in Tokens : Redeem(w, t)
  \/ \E i \in Identities, e \in Emails \union {None} : Callback(w, i, e)
  \/ \E e \in Emails, i \in Identities : Unlink(w, e, i)

Serve(w) ==
  \/ FindUser(w) \/ CreateUser(w) \/ SendMail(w)
  \/ \E right \in BOOLEAN : VerifyPassword(w, right)
  \/ CheckToken(w) \/ MarkVerified(w) \/ MarkUsed(w) \/ ResetPassword(w) \/ Exchange(w)
  \/ FindLink(w) \/ FindOwner(w) \/ MatchEmail(w) \/ LinkByEmail(w)
  \/ CreatePending(w) \/ CreateTicket(w)
  \/ FindClaimed(w) \/ CreateOAuthUser(w) \/ LinkSigned(w) \/ MarkSigned(w) \/ Seed(w)
  \/ OpenSession(w) \/ CountLinks(w) \/ DeleteLink(w)

Next ==
  \/ \E w \in Workers : Ask(w) \/ Serve(w) \/ Lose(w)
  \/ \E e \in Emails : DeleteMe(e)
  \/ \E t \in Tokens : Expire(t)
  \/ Tick

Spec == Init /\ [][Next]_vars

-----------------------------------------------------------------------------
(* Properties *)

BeingMade(e) == \E w \in Workers : req[w].pc = "complete" /\ req[w].user = e

(* auth.service.ts:330 "Never leaves an account with zero ways to log in": *)
(* an account has a password or a linked identity, and its default         *)
(* categories, unless two requests changed its links at the same time,     *)
(* a signup begun earlier took its identity over, or the request that      *)
(* created it was lost.                                                    *)
AccountWhole ==
  \A e \in Emails :
    Active(e) /\ ~BeingMade(e) /\ e \notin shaken =>
      (user[e].password \/ LinksOf(e) # {}) /\ user[e].seeded

(* A token does what it is for once: twice only if two requests had        *)
(* checked it before either marked it, and a signup not even then, because *)
(* the email is unique.                                                    *)
TokenOnce ==
  \A t \in Tokens : honoured[t] > 1 => t \in doubled /\ token[t].kind # "signup"

(* login-throttle.ts: while a login is blocked, at most the requests that  *)
(* had passed the check before the block began verify a password.          *)
GuessBound == \A e \in Emails : late[e] < Cardinality(Workers)

=============================================================================
