--------------------------- MODULE IdentityProofs ---------------------------
(***************************************************************************)
(* Proofs of AccountWhole, TokenOnce and GuessBound, for any number of     *)
(* users, identities, tokens and requests.                                 *)
(*                                                                         *)
(* RequestInv says what a request under way carries.  On it rest three     *)
(* invariants that do not need each other: GuessInv counts the logins that *)
(* have passed the check and not verified the password; TokenInv follows a *)
(* token from its check to its use, and a signup to the one insertion of   *)
(* the email; AccountInv says what the requests that change the links of   *)
(* an account, or are making it, leave to it.                              *)
(***************************************************************************)
EXTENDS Identity, Integers, FiniteSetTheorems, TLAPS

TokenKinds == {"verify", "reset", "signup", "ticket"}
AskedOf == {"register", "resend", "forgot", "login", "unlink"} \union TokenKinds

Request == [kind : {"idle", "callback"} \union AskedOf,
            pc : {"idle", "find", "create", "complete", "mail", "verify", "session", "check",
                  "markUser", "mark", "reset", "owner", "link", "match", "upsert", "pending",
                  "ticket", "count", "delete"},
            user : Emails \union {None}, identity : Identities \union {None},
            token : Tokens \union {None}, left : SUBSET {"link", "mark", "seed"}]

IdentityTypes ==
  /\ user \in [Emails -> User] /\ link \in [Identities -> Link]
  /\ token \in [Tokens -> Token] /\ req \in [Workers -> Request]

(* The statements a request of a kind goes through. *)
Shape(q) ==
  \/ q.kind = "idle" /\ q.pc = "idle"
  \/ q.kind = "register" /\ q.pc \in {"find", "create", "complete", "mail"}
  \/ q.kind \in {"resend", "forgot"} /\ q.pc \in {"find", "mail"}
  \/ q.kind = "login" /\ q.pc \in {"verify", "session"}
  \/ q.kind = "verify" /\ q.pc \in {"check", "markUser", "mark", "session"}
  \/ q.kind = "reset" /\ q.pc \in {"check", "reset"}
  \/ q.kind = "signup" /\ q.pc \in {"check", "find", "create", "complete", "session"}
  \/ q.kind = "ticket" /\ q.pc \in {"check", "mark", "owner"}
  \/ q.kind = "callback" /\ q.pc \in {"link", "owner", "match", "upsert", "pending", "session", "ticket"}
  \/ q.kind = "unlink" /\ q.pc \in {"count", "delete"}

(* It is about a user, and one that redeems a token about that token's. *)
WellFormed(q) ==
  /\ Shape(q)
  /\ q.kind \in AskedOf \/ (q.kind = "callback" /\ q.pc # "link") => q.user \in Emails
  /\ q.token # None <=> q.kind \in TokenKinds
  /\ q.token # None => token[q.token].kind = q.kind /\ token[q.token].user = q.user
  /\ q.kind \in {"callback", "unlink", "signup"} => q.identity \in Identities
  /\ q.kind = "register" => q.left \subseteq {"seed"}

Owned == /\ \A t \in Tokens : /\ token[t].kind # "none" => token[t].user \in Emails
                              /\ token[t].kind = "signup" => token[t].identity \in Identities
         /\ \A i \in Identities : link[i].live => link[i].user \in Emails

RequestInv == IdentityTypes /\ Owned /\ \A w \in Workers : WellFormed(req[w])

-----------------------------------------------------------------------------
(* A login that has passed the check. *)
Verifying(e) == {w \in Workers : At(w, "login", "verify") /\ req[w].user = e}

ThrottleTypes ==
  /\ attempt \in [Emails -> [count : Nat, until : Int]] /\ late \in [Emails -> Nat] /\ now \in Nat

(* Once a block has begun, one of them has been answered. *)
GuessInv == ThrottleTypes /\ \A e \in Emails :
  /\ late[e] + Cardinality(Verifying(e)) <= Cardinality(Workers)
  /\ Blocked(e) \/ late[e] > 0 => late[e] + Cardinality(Verifying(e)) < Cardinality(Workers)

-----------------------------------------------------------------------------
(* A request that has marked its token, or has nothing to do before it     *)
(* does what the token is for.                                             *)
Marked(q) == \/ q.pc \in {"session", "owner"} /\ q.kind \in TokenKinds
             \/ q.pc = "complete" /\ q.kind = "signup" /\ "mark" \notin q.left

SigningUp(q) == q.kind = "signup" /\ q.pc \in {"complete", "session"}

(* A token that was used, or is about to be, is not accepted again. *)
Spent ==
  /\ \A t \in Tokens : /\ honoured[t] > 0 => ~Usable(t)
                       /\ token[t].kind = "none" => Usable(t)
  /\ \A w \in Workers : Marked(req[w]) => ~Usable(req[w].token)

HeldAlone ==
  \A t \in Tokens \ doubled :
    /\ honoured[t] <= 1
    /\ \A w \in Workers : Holds(w, t) => honoured[t] = 0 /\ \A v \in Workers \ {w} : ~Holds(v, t)

SignedOnce ==
  /\ \A w \in Workers : SigningUp(req[w]) =>
       /\ user[req[w].user].state # "none" /\ honoured[req[w].token] = 0
       /\ \A v \in Workers \ {w} : SigningUp(req[v]) => req[v].user # req[w].user
  /\ \A t \in Tokens : token[t].kind = "signup" =>
       honoured[t] <= 1 /\ (honoured[t] = 1 => user[token[t].user].state # "none")

TokenInv == honoured \in [Tokens -> Nat] /\ Spent /\ HeldAlone /\ SignedOnce

-----------------------------------------------------------------------------
(* A request is going to do s for the account it makes. *)
Completing(e, s) == \E w \in Workers : req[w].pc = "complete" /\ req[w].user = e /\ s \in req[w].left

(* A request about to delete a link has left the account another way in. *)
Unlinking(w) == At(w, "unlink", "delete")

AccountInv ==
  /\ \A e \in Emails : Active(e) /\ e \notin shaken =>
       /\ user[e].password \/ LinksOf(e) # {} \/ Completing(e, "link")
       /\ user[e].seeded \/ Completing(e, "seed")
  /\ \A w \in Workers : Unlinking(w) =>
       /\ user[req[w].user].state # "none"
       /\ req[w].user \notin shaken =>
            user[req[w].user].password \/ \E j \in LinksOf(req[w].user) : j # req[w].identity

-----------------------------------------------------------------------------
(* What a request carries *)
LEMMA IdleIsRequest ==
  /\ Idle \in Request /\ Idle.kind = "idle" /\ Idle.pc = "idle" /\ Idle.user = None
  /\ Idle.token = None /\ Idle.left = {}
  BY DEF Idle, Request

LEMMA NoneIsNobody == None \notin Emails /\ None \notin Identities /\ None \notin Tokens
  BY IdentityAssumption

LEMMA UserRows == NoUser \in User /\ Registered \in User /\ Verified \in User /\ Social \in User
  BY DEF NoUser, Registered, Verified, Social, User

(* The tables keep their types, and a token stays what it was issued for.  *)
TablesKept ==
  /\ user' \in [Emails -> User] /\ link' \in [Identities -> Link] /\ token' \in [Tokens -> Token]
  /\ \A t \in Tokens : token[t].kind # "none" =>
       token'[t].kind = token[t].kind /\ token'[t].user = token[t].user
  /\ Owned'

LEMMA SameTablesKept == RequestInv /\ UNCHANGED tables => TablesKept
  BY DEF RequestInv, IdentityTypes, tables, TablesKept, Owned

LEMMA RequestStep ==
  ASSUME RequestInv, TablesKept, NEW w \in Workers, NEW q \in Request,
         req' = [req EXCEPT ![w] = q], WellFormed(q)'
  PROVE  RequestInv'
<1>1. IdentityTypes'
  BY DEF RequestInv, IdentityTypes, TablesKept
<1>2. ASSUME NEW v \in Workers PROVE WellFormed(req[v])'
  <2>1. CASE v = w
    BY <2>1 DEF RequestInv, IdentityTypes
  <2>2. CASE v # w
    <3>1. req'[v] = req[v] /\ req[v] \in Request /\ WellFormed(req[v])
      BY <2>2 DEF RequestInv, IdentityTypes
    <3>2. req[v].token # None => req[v].token \in Tokens /\ token[req[v].token].kind # "none"
      BY <3>1 DEF WellFormed, Request, TokenKinds
    <3>. QED
      BY <3>1, <3>2 DEF WellFormed, Shape, TablesKept
  <2>. QED
    BY <2>1, <2>2
<1>. QED
  BY <1>1, <1>2 DEF RequestInv, TablesKept

LEMMA EndsKeeps == ASSUME RequestInv, TablesKept, NEW w \in Workers, Ends(w) PROVE RequestInv'
<1>1. WellFormed(Idle)'
  BY IdleIsRequest, NoneIsNobody DEF WellFormed, Shape, AskedOf, TokenKinds
<1>. QED
  BY <1>1, IdleIsRequest, RequestStep DEF Ends

LEMMA RequestIsWellFormed ==
  ASSUME RequestInv, NEW w \in Workers
  PROVE  /\ req[w] \in Request /\ Shape(req[w])
         /\ req[w].kind \in AskedOf \/ (req[w].kind = "callback" /\ req[w].pc # "link") => req[w].user \in Emails
         /\ req[w].kind \in TokenKinds => req[w].token \in Tokens /\ token[req[w].token].kind = req[w].kind
                                            /\ token[req[w].token].user = req[w].user
         /\ req[w].kind \in {"callback", "unlink", "signup"} => req[w].identity \in Identities
         /\ req[w].kind = "register" => req[w].left \subseteq {"seed"}
  BY NoneIsNobody DEF RequestInv, IdentityTypes, WellFormed, Request

(* The next statement of a request about a user. *)
LEMMA GoesKeeps ==
  ASSUME RequestInv, TablesKept, NEW w \in Workers, NEW q \in Request,
         req' = [req EXCEPT ![w] = q], Shape(q), q.kind = req[w].kind, q.user = req[w].user,
         q.token = req[w].token, q.identity = req[w].identity, q.user \in Emails,
         q.kind = "register" => q.left \subseteq {"seed"}
  PROVE  RequestInv'
<1>1. req[w] \in Request /\ WellFormed(req[w])
  BY DEF RequestInv, IdentityTypes
<1>2. WellFormed(q)'
  BY <1>1 DEF WellFormed, Shape, TablesKept, Request, TokenKinds
<1>. QED
  BY <1>2, RequestStep

LEMMA InitRequestInv == Init => RequestInv
<1>. SUFFICES ASSUME Init PROVE RequestInv
  OBVIOUS
<1>1. IdentityTypes
  <2>1. user \in [Emails -> User]
    BY UserRows DEF Init
  <2>2. link \in [Identities -> Link]
    <3>1. \A r \in [user : Emails, live : {TRUE}] : r \in Link
      BY DEF Link
    <3>2. [user |-> None, live |-> FALSE] \in Link
      BY DEF Link
    <3>. QED
      BY <3>1, <3>2 DEF Init
  <2>3. token \in [Tokens -> Token] /\ req \in [Workers -> Request]
    BY IdleIsRequest DEF Init, Token, NoToken
  <2>. QED
    BY <2>1, <2>2, <2>3 DEF IdentityTypes
<1>2. Owned
  <2>1. ASSUME NEW i \in Identities, link[i].live PROVE link[i].user \in Emails
    <3>1. link[i] # [user |-> None, live |-> FALSE]
      BY <2>1
    <3>2. link[i] \in [user : Emails, live : {TRUE}]
      BY <3>1 DEF Init
    <3>. QED
      BY <3>2
  <2>. QED
    BY <2>1 DEF Init, Owned, NoToken
<1>3. WellFormed(Idle)
  BY IdleIsRequest, NoneIsNobody DEF WellFormed, Shape, AskedOf, TokenKinds
<1>. QED
  BY <1>1, <1>2, <1>3 DEF RequestInv, Init

LEMMA AskKeeps == ASSUME RequestInv, NEW w \in Workers, Ask(w) PROVE RequestInv'
<1>1. TablesKept
  <2>1. UNCHANGED tables
    BY DEF Ask, Register, Resend, Forgot, Login, Redeem, Callback, Unlink, Asks, Begins
  <2>. QED
    BY <2>1, SameTablesKept
<1>2. ASSUME NEW e \in Emails, NEW kind \in {"register", "resend", "forgot"},
             Asks(w, kind, "find", e, None, None)
      PROVE  RequestInv'
  <2>. DEFINE q == [Idle EXCEPT !.kind = kind, !.pc = "find", !.user = e, !.identity = None, !.token = None]
  <2>1. q \in Request /\ WellFormed(q)'
    BY DEF Idle, Request, WellFormed, Shape, AskedOf, TokenKinds
  <2>. QED
    BY <1>1, <1>2, <2>1, RequestStep DEF Asks, Begins
<1>3. ASSUME NEW e \in Emails, Login(w, e) PROVE RequestInv'
  <2>. DEFINE q == [Idle EXCEPT !.kind = "login", !.pc = "verify", !.user = e]
  <2>1. q \in Request /\ WellFormed(q)'
    BY DEF Idle, Request, WellFormed, Shape, AskedOf, TokenKinds
  <2>. QED
    BY <1>1, <1>3, <2>1, RequestStep DEF Login, Begins
<1>4. ASSUME NEW t \in Tokens, Redeem(w, t) PROVE RequestInv'
  <2>1. /\ token[t] \in Token /\ token[t].kind \in TokenKinds /\ token[t].user \in Emails
        /\ token[t].kind = "signup" => token[t].identity \in Identities
    BY <1>4 DEF Redeem, RequestInv, IdentityTypes, Owned, Token, TokenKinds
  <2>2. PICK q \in Request : /\ req' = [req EXCEPT ![w] = q] /\ q.kind = token[t].kind
                             /\ q.pc = "check" /\ q.user = token[t].user /\ q.token = t
                             /\ q.identity = token[t].identity
    <3>. DEFINE p == [Idle EXCEPT !.kind = token[t].kind, !.pc = "check", !.user = token[t].user,
                                  !.identity = token[t].identity, !.token = t]
    <3>1. /\ p \in Request /\ p.kind = token[t].kind /\ p.pc = "check" /\ p.user = token[t].user
          /\ p.token = t /\ p.identity = token[t].identity
      BY <2>1 DEF Idle, Request, Token, AskedOf, TokenKinds
    <3>. QED
      BY <1>4, <3>1 DEF Redeem, Asks, Begins
  <2>3. token'[t].kind = q.kind /\ token'[t].user = q.user
    BY <1>1, <2>1, <2>2 DEF TablesKept, TokenKinds
  <2>4. WellFormed(q)'
    BY <2>1, <2>2, <2>3, NoneIsNobody DEF WellFormed, Shape, TokenKinds
  <2>. QED
    BY <1>1, <2>2, <2>4, RequestStep
<1>5. ASSUME NEW i \in Identities, NEW e \in Emails \union {None}, Callback(w, i, e) PROVE RequestInv'
  <2>. DEFINE q == [Idle EXCEPT !.kind = "callback", !.pc = "link", !.user = e, !.identity = i, !.token = None]
  <2>1. q \in Request /\ WellFormed(q)'
    BY DEF Idle, Request, WellFormed, Shape, AskedOf, TokenKinds
  <2>. QED
    BY <1>1, <1>5, <2>1, RequestStep DEF Callback, Asks, Begins
<1>6. ASSUME NEW e \in Emails, NEW i \in Identities, Unlink(w, e, i) PROVE RequestInv'
  <2>. DEFINE q == [Idle EXCEPT !.kind = "unlink", !.pc = "count", !.user = e, !.identity = i, !.token = None]
  <2>1. q \in Request /\ WellFormed(q)'
    BY DEF Idle, Request, WellFormed, Shape, AskedOf, TokenKinds
  <2>. QED
    BY <1>1, <1>6, <2>1, RequestStep DEF Unlink, Asks, Begins
<1>. QED
  BY <1>2, <1>3, <1>4, <1>5, <1>6 DEF Ask, Register, Resend, Forgot

(* Most statements of a request lead to its next statement, or end it.     *)
LEMMA GoesOrEnds ==
  ASSUME RequestInv, TablesKept, NEW w \in Workers, NEW p, req[w].user \in Emails,
         Goes(w, p) \/ Ends(w), Shape([req[w] EXCEPT !.pc = p])
  PROVE  RequestInv'
<1>. DEFINE r == [req[w] EXCEPT !.pc = p]
<1>1. req[w] \in Request
  BY DEF RequestInv, IdentityTypes
<1>2. /\ r.pc = p /\ r.kind = req[w].kind /\ r.user = req[w].user /\ r.token = req[w].token
      /\ r.identity = req[w].identity /\ r.left = req[w].left
  BY <1>1 DEF Request
<1>3. r \in Request
  BY <1>1, <1>2 DEF Request, Shape
<1>4. PICK q \in Request : q = r
  BY <1>3
<1>5. Shape(q) /\ (Goes(w, p) => req' = [req EXCEPT ![w] = q])
  BY <1>4 DEF Goes
<1>. HIDE DEF r
<1>. QED
  BY <1>2, <1>4, <1>5, RequestIsWellFormed, GoesKeeps, EndsKeeps

LEMMA IssueKeeps ==
  ASSUME RequestInv, NEW kind \in TokenKinds, NEW e \in Emails, NEW i \in Identities \union {None},
         (kind = "signup") => (i \in Identities), Issue(kind, e, i), UNCHANGED <<user, link>>
  PROVE  TablesKept
<1>1. PICK t \in Tokens : /\ token[t].kind = "none"
                          /\ token' = [token EXCEPT ![t] = [NoToken EXCEPT !.kind = kind, !.user = e, !.identity = i]]
  BY DEF Issue
<1>2. [NoToken EXCEPT !.kind = kind, !.user = e, !.identity = i] \in Token
  BY DEF NoToken, Token, TokenKinds
<1>3. \A q : q = [NoToken EXCEPT !.kind = kind, !.user = e, !.identity = i]
              => q.kind = kind /\ q.user = e /\ q.identity = i
  BY DEF NoToken
<1>4. PICK q \in Token : token' = [token EXCEPT ![t] = q] /\ q.kind = kind /\ q.user = e /\ q.identity = i
  BY <1>1, <1>2, <1>3
<1>. QED
  BY <1>1, <1>4 DEF RequestInv, IdentityTypes, TablesKept, Owned

(* A token is marked, a user or a link is written. *)
LEMMA WriteKeeps ==
  ASSUME RequestInv,
         UNCHANGED user \/ \E e, r : r \in User /\ user' = [user EXCEPT ![e] = r],
         UNCHANGED link \/ \E i, r : r \in Link /\ (r.live => r.user \in Emails) /\ link' = [link EXCEPT ![i] = r],
         UNCHANGED token \/ \E t, u : u \in {"used", "expired"} /\ token' = [token EXCEPT ![t].usable = u]
  PROVE  TablesKept
<1>. USE DEF RequestInv, IdentityTypes
<1>1. user' \in [Emails -> User]
  OBVIOUS
<1>2. /\ link' \in [Identities -> Link]
      /\ \A i \in Identities : link'[i].live => link'[i].user \in Emails
  BY DEF Owned
<1>3. /\ token' \in [Tokens -> Token]
      /\ \A t \in Tokens : /\ token'[t].kind = token[t].kind /\ token'[t].user = token[t].user
                          /\ token'[t].identity = token[t].identity
  BY DEF Token
<1>. QED
  BY <1>1, <1>2, <1>3 DEF TablesKept, Owned

(* The statements that only look. *)
LEMMA LooksKeep ==
  ASSUME RequestInv, NEW w \in Workers,
         FindUser(w) \/ CheckToken(w) \/ Exchange(w) \/ FindLink(w) \/ FindOwner(w) \/ MatchEmail(w)
           \/ FindClaimed(w) \/ OpenSession(w) \/ CountLinks(w)
           \/ \E right \in BOOLEAN : VerifyPassword(w, right)
  PROVE  RequestInv'
<1>. DEFINE R == req[w]
<1>1. TablesKept
  <2>1. UNCHANGED tables
    BY DEF FindUser, CheckToken, Exchange, FindLink, FindOwner, MatchEmail, FindClaimed, OpenSession,
       CountLinks, VerifyPassword, tables
  <2>. QED
    BY <2>1, SameTablesKept
<1>2. R \in Request /\ Shape(R)
  BY RequestIsWellFormed
<1>3. \A p : [R EXCEPT !.pc = p].pc = p /\ [R EXCEPT !.pc = p].kind = R.kind
  BY <1>2 DEF Request
<1>4. CASE FindUser(w)
  <2>1. PICK p \in {"create", "mail"} : /\ Goes(w, p) \/ Ends(w)
                                        /\ R.kind \in {"register", "resend", "forgot"}
                                        /\ p = "create" => R.kind = "register"
    BY <1>4 DEF FindUser
  <2>2. Shape([R EXCEPT !.pc = p]) /\ R.user \in Emails
    BY <1>2, <1>3, <2>1, RequestIsWellFormed DEF Shape, AskedOf
  <2>. QED
    BY <1>1, <2>1, <2>2, GoesOrEnds
<1>5. CASE CheckToken(w)
  <2>1. R.kind \in TokenKinds /\ R.pc = "check"
    BY <1>2, <1>5 DEF CheckToken, Shape, TokenKinds
  <2>2. PICK p : /\ Goes(w, p) \/ Ends(w)
                 /\ p = CASE R.kind = "verify" -> "markUser" [] R.kind = "reset" -> "reset"
                          [] R.kind = "signup" -> "find" [] OTHER -> "mark"
    BY <1>5 DEF CheckToken
  <2>3. Shape([R EXCEPT !.pc = p]) /\ R.user \in Emails
    BY <1>3, <2>1, <2>2, RequestIsWellFormed DEF Shape, AskedOf, TokenKinds
  <2>. QED
    BY <1>1, <2>2, <2>3, GoesOrEnds
<1>6. CASE Exchange(w)
  BY <1>1, <1>6, EndsKeeps DEF Exchange
<1>7. CASE FindLink(w)
  <2>1. R.kind = "callback" /\ R.pc = "link" /\ R.token = None
    BY <1>7, RequestIsWellFormed DEF FindLink, At, TokenKinds, RequestInv, WellFormed
  <2>2. PICK q : /\ req' = [req EXCEPT ![w] = q]
                 /\ \/ q = Idle
                    \/ q = [R EXCEPT !.pc = "owner", !.user = link[R.identity].user] /\ link[R.identity].live
                    \/ q = [R EXCEPT !.pc = "match"] /\ R.user # None
    BY <1>7 DEF FindLink
  <2>3. CASE q = Idle
    BY <1>1, <2>2, <2>3, EndsKeeps DEF Ends
  <2>4. CASE q # Idle
    <3>1. link[R.identity].live => link[R.identity].user \in Emails
      BY <2>1, RequestIsWellFormed DEF RequestInv, Owned
    <3>2. /\ q \in Request /\ q.kind = "callback" /\ q.pc \in {"owner", "match"} /\ q.user \in Emails
          /\ q.token = None /\ q.identity \in Identities
      BY <1>2, <2>1, <2>2, <2>4, <3>1, RequestIsWellFormed DEF Request
    <3>3. WellFormed(q)'
      BY <3>2 DEF WellFormed, Shape, TokenKinds
    <3>. QED
      BY <1>1, <2>2, <3>2, <3>3, RequestStep
  <2>. QED
    BY <2>3, <2>4
<1>8. CASE FindOwner(w) \/ MatchEmail(w)
  <2>1. PICK p \in {"session", "upsert", "pending"} :
          R.kind = "callback" /\ R.pc # "link" /\ (Goes(w, p) \/ Ends(w))
    BY <1>8 DEF FindOwner, MatchEmail, At
  <2>2. Shape([R EXCEPT !.pc = p]) /\ R.user \in Emails
    BY <1>2, <1>3, <2>1, RequestIsWellFormed DEF Shape
  <2>. QED
    BY <1>1, <2>1, <2>2, GoesOrEnds
<1>9. CASE FindClaimed(w)
  <2>1. R.kind = "signup" /\ (Goes(w, "create") \/ Ends(w))
    BY <1>9 DEF FindClaimed, At
  <2>2. Shape([R EXCEPT !.pc = "create"]) /\ R.user \in Emails
    BY <1>2, <1>3, <2>1, RequestIsWellFormed DEF Shape, AskedOf, TokenKinds
  <2>. QED
    BY <1>1, <2>1, <2>2, GoesOrEnds
<1>10. CASE OpenSession(w)
  <2>1. R.pc = "session" /\ ((R.kind = "callback" /\ Goes(w, "ticket")) \/ Ends(w))
    BY <1>10 DEF OpenSession
  <2>2. CASE R.kind = "callback"
    <3>1. Shape([R EXCEPT !.pc = "ticket"]) /\ R.user \in Emails
      BY <1>2, <1>3, <2>1, <2>2, RequestIsWellFormed DEF Shape
    <3>. QED
      BY <1>1, <2>1, <3>1, GoesOrEnds
  <2>. QED
    BY <1>1, <2>1, <2>2, EndsKeeps
<1>11. CASE CountLinks(w)
  <2>1. R.kind = "unlink" /\ (Goes(w, "delete") \/ Ends(w))
    BY <1>11 DEF CountLinks, At
  <2>2. Shape([R EXCEPT !.pc = "delete"]) /\ R.user \in Emails
    BY <1>2, <1>3, <2>1, RequestIsWellFormed DEF Shape, AskedOf
  <2>. QED
    BY <1>1, <2>1, <2>2, GoesOrEnds
<1>12. ASSUME NEW right \in BOOLEAN, VerifyPassword(w, right) PROVE RequestInv'
  <2>1. R.kind = "login" /\ (Goes(w, "session") \/ Ends(w))
    BY <1>12 DEF VerifyPassword, At
  <2>2. Shape([R EXCEPT !.pc = "session"]) /\ R.user \in Emails
    BY <1>2, <1>3, <2>1, RequestIsWellFormed DEF Shape, AskedOf
  <2>. QED
    BY <1>1, <2>1, <2>2, GoesOrEnds
<1>. QED
  BY <1>4, <1>5, <1>6, <1>7, <1>8, <1>9, <1>10, <1>11, <1>12

(* The statements that write a row. *)
LEMMA InsertKeeps ==
  ASSUME RequestInv, NEW w \in Workers, NEW row \in User, NEW rest \in SUBSET {"link", "mark", "seed"},
         Insert(w, row, rest), UNCHANGED <<link, token>>, req[w].pc = "create",
         req[w].kind = "register" => rest \subseteq {"seed"},
         req[w].kind \in {"register", "signup"}
  PROVE  RequestInv'
<1>1. TablesKept
  BY WriteKeeps DEF Insert
<1>2. req[w].user \in Emails /\ req[w] \in Request
  BY RequestIsWellFormed DEF AskedOf, TokenKinds
<1>3. CASE Ends(w)
  BY <1>1, <1>3, EndsKeeps
<1>4. CASE req' = [req EXCEPT ![w].pc = "complete", ![w].left = rest]
  <2>. DEFINE q == [req[w] EXCEPT !.pc = "complete", !.left = rest]
  <2>1. /\ q \in Request /\ q.pc = "complete" /\ q.kind = req[w].kind /\ q.user = req[w].user
        /\ q.token = req[w].token /\ q.identity = req[w].identity /\ q.left = rest
    BY <1>2 DEF Request
  <2>2. req' = [req EXCEPT ![w] = q]
    BY <1>4 DEF RequestInv, IdentityTypes
  <2>3. PICK r \in Request : r = q
    BY <2>1
  <2>. HIDE DEF q
  <2>4. Shape(r)
    BY <2>1, <2>3 DEF Shape
  <2>. QED
    BY <1>1, <1>2, <2>1, <2>2, <2>3, <2>4, GoesKeeps
<1>. QED
  BY <1>3, <1>4 DEF Insert

LEMMA RestKeeps ==
  ASSUME RequestInv, TablesKept, NEW w \in Workers, NEW s, req[w].pc = "complete", Rest(w, s)
  PROVE  RequestInv'
<1>1. /\ req[w] \in Request /\ req[w].kind \in {"register", "signup"} /\ req[w].user \in Emails
      /\ req[w].kind = "register" => req[w].left \subseteq {"seed"}
  BY RequestIsWellFormed DEF Shape, AskedOf, TokenKinds
<1>. DEFINE p == IF req[w].left # {s} THEN "complete"
                 ELSE IF req[w].kind = "register" THEN "mail" ELSE "session"
            r == [req[w] EXCEPT !.left = @ \ {s}, !.pc = p]
<1>2. req' = [req EXCEPT ![w] = r]
  BY <1>1 DEF Rest, RequestInv, IdentityTypes
<1>3. /\ r \in Request /\ r.pc = p /\ r.kind = req[w].kind /\ r.user = req[w].user
      /\ r.token = req[w].token /\ r.identity = req[w].identity /\ r.left = req[w].left \ {s}
  BY <1>1 DEF Request
<1>4. Shape(r)
  BY <1>1, <1>3 DEF Shape
<1>5. PICK q \in Request : q = r
  BY <1>3
<1>. HIDE DEF r, p
<1>. QED
  BY <1>1, <1>2, <1>3, <1>4, <1>5, GoesKeeps

LEMMA WritesKeep ==
  ASSUME RequestInv, NEW w \in Workers,
         CreateUser(w) \/ SendMail(w) \/ MarkVerified(w) \/ MarkUsed(w) \/ ResetPassword(w)
           \/ LinkByEmail(w) \/ CreatePending(w) \/ CreateTicket(w) \/ CreateOAuthUser(w)
           \/ LinkSigned(w) \/ MarkSigned(w) \/ Seed(w) \/ DeleteLink(w)
  PROVE  RequestInv'
<1>. DEFINE R == req[w]
<1>1. R \in Request /\ Shape(R)
  BY RequestIsWellFormed
<1>2. \A p : [R EXCEPT !.pc = p].pc = p /\ [R EXCEPT !.pc = p].kind = R.kind
  BY <1>1 DEF Request
<1>3. CASE CreateUser(w)
  <2>1. [NoUser EXCEPT !.state = "active", !.password = TRUE] \in User
    BY DEF NoUser, User
  <2>. QED
    BY <1>3, <2>1, InsertKeeps DEF CreateUser, At
<1>4. CASE CreateOAuthUser(w)
  <2>1. [NoUser EXCEPT !.state = "active", !.verified = TRUE] \in User
    BY DEF NoUser, User
  <2>. QED
    BY <1>4, <2>1, InsertKeeps DEF CreateOAuthUser, At
<1>5. CASE SendMail(w)
  <2>1. R.user \in Emails
    BY <1>1, <1>5, RequestIsWellFormed DEF SendMail, Shape, AskedOf
  <2>2. TablesKept
    BY <1>5, <2>1, IssueKeeps DEF SendMail, TokenKinds
  <2>. QED
    BY <1>5, <2>2, EndsKeeps DEF SendMail
<1>6. CASE CreatePending(w) \/ CreateTicket(w)
  <2>1. R.user \in Emails /\ R.identity \in Identities
    BY <1>6, RequestIsWellFormed DEF CreatePending, CreateTicket, At
  <2>2. TablesKept
    BY <1>6, <2>1, IssueKeeps DEF CreatePending, CreateTicket, TokenKinds
  <2>. QED
    BY <1>6, <2>2, EndsKeeps DEF CreatePending, CreateTicket
<1>7. CASE MarkVerified(w)
  <2>1. R.kind = "verify" /\ R.user \in Emails
    BY <1>7, RequestIsWellFormed DEF MarkVerified, At, AskedOf, TokenKinds
  <2>2. TablesKept
    <3>1. user[R.user] \in User /\ user' = [user EXCEPT ![R.user] = [user[R.user] EXCEPT !.verified = TRUE]]
      BY <1>7, <2>1 DEF MarkVerified, RequestInv, IdentityTypes
    <3>2. [user[R.user] EXCEPT !.verified = TRUE] \in User
      BY <3>1 DEF User
    <3>. QED
      BY <1>7, <3>1, <3>2, WriteKeeps DEF MarkVerified
  <2>3. Shape([R EXCEPT !.pc = "mark"]) /\ Goes(w, "mark")
    BY <1>2, <1>7, <2>1 DEF Shape, MarkVerified
  <2>. QED
    BY <2>1, <2>2, <2>3, GoesOrEnds
<1>8. CASE MarkUsed(w)
  <2>1. R.kind \in {"verify", "ticket"} /\ R.user \in Emails
    BY <1>1, <1>8, RequestIsWellFormed DEF MarkUsed, Shape, AskedOf, TokenKinds
  <2>2. TablesKept
    BY <1>8, WriteKeeps DEF MarkUsed
  <2>3. PICK p : Goes(w, p) /\ p = IF R.kind = "verify" THEN "session" ELSE "owner"
    BY <1>8 DEF MarkUsed
  <2>4. Shape([R EXCEPT !.pc = p])
    BY <1>2, <2>1, <2>3 DEF Shape
  <2>. QED
    BY <2>1, <2>2, <2>3, <2>4, GoesOrEnds
<1>9. CASE ResetPassword(w)
  <2>1. R.user \in Emails
    BY <1>9, RequestIsWellFormed DEF ResetPassword, At, AskedOf, TokenKinds
  <2>2. user[R.user] \in User /\ user' = [user EXCEPT ![R.user] = [user[R.user] EXCEPT !.password = TRUE]]
    BY <1>9, <2>1 DEF ResetPassword, RequestInv, IdentityTypes
  <2>3. [user[R.user] EXCEPT !.password = TRUE] \in User
    BY <2>2 DEF User
  <2>4. TablesKept
    BY <1>9, <2>2, <2>3, WriteKeeps DEF ResetPassword
  <2>. QED
    BY <1>9, <2>4, EndsKeeps DEF ResetPassword
<1>10. CASE LinkByEmail(w)
  <2>1. R.kind = "callback" /\ R.pc = "upsert" /\ R.user \in Emails
    BY <1>10, RequestIsWellFormed DEF LinkByEmail, At
  <2>2. TablesKept
    <3>1. [user |-> R.user, live |-> TRUE] \in Link /\ [user |-> R.user, live |-> TRUE].user = R.user
      BY <2>1 DEF Link
    <3>. QED
      BY <1>10, <2>1, <3>1, WriteKeeps DEF LinkByEmail, Upsert
  <2>3. Shape([R EXCEPT !.pc = "session"]) /\ Goes(w, "session")
    BY <1>2, <1>10, <2>1 DEF Shape, LinkByEmail
  <2>. QED
    BY <2>1, <2>2, <2>3, GoesOrEnds
<1>11. CASE LinkSigned(w)
  <2>1. R.pc = "complete" /\ R.user \in Emails
    BY <1>1, <1>11, RequestIsWellFormed DEF LinkSigned, Shape, AskedOf, TokenKinds
  <2>2. TablesKept
    <3>1. [user |-> R.user, live |-> TRUE] \in Link /\ [user |-> R.user, live |-> TRUE].user = R.user
      BY <2>1 DEF Link
    <3>. QED
      BY <1>11, <2>1, <3>1, WriteKeeps DEF LinkSigned, Upsert
  <2>. QED
    BY <1>11, <2>1, <2>2, RestKeeps DEF LinkSigned
<1>12. CASE MarkSigned(w)
  <2>1. TablesKept
    BY <1>12, WriteKeeps DEF MarkSigned
  <2>. QED
    BY <1>12, <2>1, RestKeeps DEF MarkSigned
<1>13. CASE Seed(w)
  <2>1. R.user \in Emails
    BY <1>1, <1>13, RequestIsWellFormed DEF Seed, Shape, AskedOf, TokenKinds
  <2>2. user[R.user] \in User /\ user' = [user EXCEPT ![R.user] = [user[R.user] EXCEPT !.seeded = TRUE]]
    BY <1>13, <2>1 DEF Seed, RequestInv, IdentityTypes
  <2>3. [user[R.user] EXCEPT !.seeded = TRUE] \in User
    BY <2>2 DEF User
  <2>4. TablesKept
    BY <1>13, <2>2, <2>3, WriteKeeps DEF Seed
  <2>. QED
    BY <1>13, <2>4, RestKeeps DEF Seed
<1>14. CASE DeleteLink(w)
  <2>1. R.identity \in Identities
    BY <1>14, RequestIsWellFormed DEF DeleteLink, At
  <2>2. /\ link[R.identity] \in Link
        /\ link' = [link EXCEPT ![R.identity] = [link[R.identity] EXCEPT !.live = FALSE]]
    BY <1>14, <2>1 DEF DeleteLink, RequestInv, IdentityTypes
  <2>3. /\ [link[R.identity] EXCEPT !.live = FALSE] \in Link
        /\ ~[link[R.identity] EXCEPT !.live = FALSE].live
    BY <2>2 DEF Link
  <2>4. TablesKept
    BY <1>14, <2>2, <2>3, WriteKeeps DEF DeleteLink
  <2>. QED
    BY <1>14, <2>4, EndsKeeps DEF DeleteLink
<1>. QED
  BY <1>3, <1>4, <1>5, <1>6, <1>7, <1>8, <1>9, <1>10, <1>11, <1>12, <1>13, <1>14

LEMMA StepKeepsRequestInv == RequestInv /\ [Next]_vars => RequestInv'
<1>. SUFFICES ASSUME RequestInv, [Next]_vars PROVE RequestInv'
  OBVIOUS
<1>1. ASSUME UNCHANGED req, TablesKept PROVE RequestInv'
  <2>1. ASSUME NEW v \in Workers PROVE WellFormed(req[v])'
    <3>1. /\ req'[v] = req[v] /\ WellFormed(req[v])
          /\ req[v].token # None => req[v].token \in Tokens /\ token[req[v].token].kind # "none"
      BY <1>1, RequestIsWellFormed DEF RequestInv, WellFormed, TokenKinds
    <3>. QED
      BY <1>1, <3>1 DEF WellFormed, Shape, TablesKept
  <2>. QED
    BY <1>1, <2>1 DEF RequestInv, IdentityTypes, TablesKept
<1>2. ASSUME NEW w \in Workers, Ask(w) \/ Serve(w) PROVE RequestInv'
  BY <1>2, AskKeeps, LooksKeep, WritesKeep DEF Serve
<1>3. ASSUME NEW w \in Workers, Lose(w) PROVE RequestInv'
  BY <1>3, SameTablesKept, EndsKeeps DEF Lose
<1>4. ASSUME NEW e \in Emails, DeleteMe(e) PROVE RequestInv'
  <2>1. user[e] \in User /\ user' = [user EXCEPT ![e] = [user[e] EXCEPT !.state = "deleted"]]
    BY <1>4 DEF DeleteMe, RequestInv, IdentityTypes
  <2>2. [user[e] EXCEPT !.state = "deleted"] \in User
    BY <2>1 DEF User
  <2>3. TablesKept
    BY <1>4, <2>1, <2>2, WriteKeeps DEF DeleteMe
  <2>. QED
    BY <1>1, <1>4, <2>3 DEF DeleteMe
<1>5. ASSUME NEW t \in Tokens, Expire(t) PROVE RequestInv'
  BY <1>1, <1>5, WriteKeeps DEF Expire
<1>6. CASE Tick \/ UNCHANGED vars
  BY <1>1, <1>6, SameTablesKept DEF Tick, vars
<1>. QED
  BY <1>2, <1>3, <1>4, <1>5, <1>6 DEF Next

LEMMA RequestInvHolds == Spec => []RequestInv
  BY InitRequestInv, StepKeepsRequestInv, PTL DEF Spec

-----------------------------------------------------------------------------
(* Guesses *)

(* A request stays what it is until it ends, and only a new login verifies a password. *)
Continues(q, r) == q.kind = r.kind /\ q.token = r.token /\ q.identity = r.identity

LEMMA ServeMoves ==
  ASSUME RequestInv, NEW w \in Workers, Serve(w)
  PROVE  \E q : req' = [req EXCEPT ![w] = q] /\ q.pc # "verify" /\ (q = Idle \/ Continues(q, req[w]))
<1>. DEFINE Moves(q) == req' = [req EXCEPT ![w] = q] /\ q.pc # "verify" /\ (q = Idle \/ Continues(q, req[w]))
            Leads == \E q : Moves(q)
<1>0. req[w] \in Request /\ req \in [Workers -> Request]
  BY DEF RequestInv, IdentityTypes
<1>1. ASSUME NEW p, Goes(w, p), p # "verify" PROVE Leads
  <2>. DEFINE q == [req[w] EXCEPT !.pc = p]
  <2>1. q.pc = p /\ Continues(q, req[w])
    BY <1>0 DEF Request, Continues
  <2>2. Moves(q)
    BY <1>1, <2>1 DEF Goes
  <2>. QED
    BY <2>2
<1>2. ASSUME Ends(w) PROVE Leads
  BY <1>2, IdleIsRequest DEF Ends
<1>3. ASSUME NEW s, Rest(w, s), req[w].pc # "verify" PROVE Leads
  <2>. DEFINE q == [req[w] EXCEPT !.left = @ \ {s},
                      !.pc = IF req[w].left # {s} THEN @
                             ELSE IF req[w].kind = "register" THEN "mail" ELSE "session"]
  <2>1. req' = [req EXCEPT ![w] = q]
    BY <1>0, <1>3 DEF Rest
  <2>2. q.pc # "verify" /\ Continues(q, req[w])
    BY <1>0, <1>3 DEF Request, Continues
  <2>. HIDE DEF q
  <2>3. Moves(q)
    BY <2>1, <2>2
  <2>. QED
    BY <2>3
<1>4. ASSUME NEW row, NEW rest, Insert(w, row, rest) PROVE Leads
  <2>1. CASE req' = [req EXCEPT ![w].pc = "complete", ![w].left = rest]
    <3>. DEFINE q == [req[w] EXCEPT !.pc = "complete", !.left = rest]
    <3>1. req' = [req EXCEPT ![w] = q]
      BY <1>0, <2>1
    <3>2. q.pc # "verify" /\ Continues(q, req[w])
      BY <1>0 DEF Request, Continues
    <3>3. Moves(q)
      BY <3>1, <3>2
    <3>. QED
      BY <3>3
  <2>. QED
    BY <1>2, <1>4, <2>1 DEF Insert
<1>5. ASSUME FindLink(w) PROVE Leads
  <2>1. PICK q : /\ req' = [req EXCEPT ![w] = q]
                 /\ \/ q = Idle
                    \/ q = [req[w] EXCEPT !.pc = "owner", !.user = link[req[w].identity].user]
                    \/ q = [req[w] EXCEPT !.pc = "match"]
    BY <1>5 DEF FindLink
  <2>2. q.pc # "verify" /\ (q = Idle \/ Continues(q, req[w]))
    BY <1>0, <2>1, IdleIsRequest DEF Request, Continues
  <2>3. Moves(q)
    BY <2>1, <2>2
  <2>. QED
    BY <2>3
<1>. SUFFICES Leads
  OBVIOUS
<1>. HIDE DEF Leads
<1>6. CASE FindUser(w) \/ CheckToken(w) \/ FindOwner(w) \/ MatchEmail(w) \/ FindClaimed(w)
             \/ OpenSession(w) \/ CountLinks(w) \/ MarkVerified(w) \/ MarkUsed(w) \/ LinkByEmail(w)
  BY <1>1, <1>2, <1>6 DEF FindUser, CheckToken, FindOwner, MatchEmail, FindClaimed, OpenSession,
     CountLinks, MarkVerified, MarkUsed, LinkByEmail
<1>7. CASE Exchange(w) \/ SendMail(w) \/ ResetPassword(w) \/ CreatePending(w) \/ CreateTicket(w)
             \/ DeleteLink(w)
  BY <1>2, <1>7 DEF Exchange, SendMail, ResetPassword, CreatePending, CreateTicket, DeleteLink
<1>8. CASE LinkSigned(w) \/ MarkSigned(w) \/ Seed(w)
  BY <1>3, <1>8 DEF LinkSigned, MarkSigned, Seed
<1>9. CASE CreateUser(w) \/ CreateOAuthUser(w)
  BY <1>4, <1>9 DEF CreateUser, CreateOAuthUser
<1>10. ASSUME NEW right \in BOOLEAN, VerifyPassword(w, right) PROVE Leads
  BY <1>1, <1>2, <1>10 DEF VerifyPassword
<1>. QED
  BY <1>5, <1>6, <1>7, <1>8, <1>9, <1>10 DEF Serve

LEMMA VerifyingIsFinite ==
  ASSUME NEW e
  PROVE  /\ IsFiniteSet(Workers) /\ Cardinality(Workers) \in Nat /\ Cardinality(Workers) > 0
         /\ IsFiniteSet(Verifying(e)) /\ Cardinality(Verifying(e)) \in Nat
         /\ Cardinality(Verifying(e)) <= Cardinality(Workers)
<1>1. Verifying(e) \in SUBSET Workers
  BY DEF Verifying
<1>. QED
  BY <1>1, IdentityAssumption, FS_Subset, FS_CardinalityType, FS_EmptySet

(* A request that is not a login, or no longer, is not counted. *)
LEMMA FewerVerify ==
  ASSUME RequestInv, NEW w \in Workers, NEW q, req' = [req EXCEPT ![w] = q],
         ~(q.kind = "login" /\ q.pc = "verify")
  PROVE  \A e : Verifying(e)' = Verifying(e) \ {w}
  BY DEF RequestInv, IdentityTypes, Verifying, At

LEMMA GuessStays ==
  ASSUME GuessInv, UNCHANGED throttle, now' \in Nat, now' >= now,
         \A e \in Emails : Verifying(e)' \subseteq Verifying(e)
  PROVE  GuessInv'
<1>1. attempt' = attempt /\ late' = late
  BY DEF throttle
<1>2. ThrottleTypes'
  BY <1>1 DEF GuessInv, ThrottleTypes
<1>3. ASSUME NEW e \in Emails
      PROVE  /\ (late[e] + Cardinality(Verifying(e)) <= Cardinality(Workers))'
             /\ (Blocked(e) \/ late[e] > 0 => late[e] + Cardinality(Verifying(e)) < Cardinality(Workers))'
  <2>. DEFINE n == Cardinality(Verifying(e))
              m == Cardinality(Workers)
  <2>1. PICK T : T = Verifying(e)'
    OBVIOUS
  <2>2. /\ Cardinality(T) <= n /\ Cardinality(T) \in Nat /\ n \in Nat /\ m \in Nat
    BY <2>1, VerifyingIsFinite, FS_Subset, FS_CardinalityType
  <2>3. /\ late[e] \in Nat /\ attempt[e].until \in Int /\ now \in Nat
        /\ late[e] + n <= m
        /\ attempt[e].until > now \/ late[e] > 0 => late[e] + n < m
    BY DEF GuessInv, ThrottleTypes, Blocked
  <2>. HIDE DEF n
  <2>4. late[e] + Cardinality(T) <= m
    BY <2>2, <2>3
  <2>5. attempt[e].until > now' \/ late[e] > 0 => late[e] + Cardinality(T) < m
    BY <2>2, <2>3
  <2>. QED
    BY <1>1, <2>1, <2>4, <2>5 DEF Blocked
<1>. QED
  BY <1>2, <1>3 DEF GuessInv

LEMMA LoginKeepsGuess ==
  ASSUME RequestInv, GuessInv, NEW w \in Workers, NEW e \in Emails, Login(w, e)
  PROVE  GuessInv'
<1>0. attempt[e].until \in Int /\ now \in Nat /\ late \in [Emails -> Nat]
  BY DEF GuessInv, ThrottleTypes
<1>1. ~Blocked(e)
  BY <1>0 DEF Login, Unlocked, Blocked
<1>2. late' = [late EXCEPT ![e] = 0] /\ attempt' = attempt /\ now' = now
  BY <1>1 DEF Login, Begins
<1>3. ThrottleTypes'
  BY <1>2 DEF GuessInv, ThrottleTypes
<1>4. ASSUME NEW f \in Emails, f # e
      PROVE  Verifying(f)' = Verifying(f) /\ Blocked(f)' = Blocked(f) /\ late'[f] = late[f]
  <2>1. PICK q : /\ q = [Idle EXCEPT !.kind = "login", !.pc = "verify", !.user = e]
                 /\ req[w] = Idle /\ req' = [req EXCEPT ![w] = q]
    BY DEF Login, Begins
  <2>2. q.user = e
    BY <2>1 DEF Idle
  <2>3. Verifying(f)' = Verifying(f)
    BY <1>4, <2>1, <2>2, IdleIsRequest DEF Verifying, At, RequestInv, IdentityTypes
  <2>. QED
    BY <1>0, <1>2, <1>4, <2>3 DEF Blocked
<1>5. ~Blocked(e)' /\ late'[e] = 0
  BY <1>0, <1>1, <1>2 DEF Blocked
<1>6. Cardinality(Verifying(e)') <= Cardinality(Workers) /\ Cardinality(Verifying(e)') \in Nat
  <2>1. PICK T \in SUBSET Workers : T = Verifying(e)'
    BY DEF Verifying
  <2>. QED
    BY <2>1, VerifyingIsFinite, FS_Subset, FS_CardinalityType
<1>7. ASSUME NEW f \in Emails
      PROVE  /\ (late[f] + Cardinality(Verifying(f)) <= Cardinality(Workers))'
             /\ (Blocked(f) \/ late[f] > 0 => late[f] + Cardinality(Verifying(f)) < Cardinality(Workers))'
  <2>1. CASE f = e
    BY <1>5, <1>6, <2>1
  <2>2. CASE f # e
    BY <1>4, <2>2 DEF GuessInv
  <2>. QED
    BY <2>1, <2>2
<1>. QED
  BY <1>3, <1>7 DEF GuessInv

LEMMA RecordFailureType ==
  ASSUME ThrottleTypes, NEW e \in Emails, RecordFailure(e)
  PROVE  /\ attempt' \in [Emails -> [count : Nat, until : Int]]
         /\ \A f \in Emails \ {e} : attempt'[f] = attempt[f]
<1>. DEFINE count == attempt[e].count + 1
            until == IF count >= FreeFailures THEN now + Backoff(count) ELSE attempt[e].until
<1>1. attempt[e] \in [count : Nat, until : Int] /\ now \in Nat /\ FreeFailures \in Nat /\ MaxBackoff \in Nat
  BY IdentityAssumption DEF ThrottleTypes
<1>2. count \in Nat
  BY <1>1
<1>3. ASSUME count >= FreeFailures PROVE Backoff(count) \in Int
  <2>1. count - FreeFailures \in Nat
    BY <1>1, <1>2, <1>3
  <2>. HIDE DEF count
  <2>2. 2 ^ (count - FreeFailures) \in Int
    BY <2>1
  <2>. QED
    BY <1>1, <2>2 DEF Backoff
<1>. HIDE DEF count
<1>4. until \in Int
  BY <1>1, <1>2, <1>3
<1>. HIDE DEF until
<1>5. attempt' = [attempt EXCEPT ![e] = [count |-> count, until |-> until]]
  BY DEF RecordFailure, count, until
<1>. QED
  BY <1>2, <1>4, <1>5 DEF ThrottleTypes

LEMMA VerifyKeepsGuess ==
  ASSUME RequestInv, GuessInv, NEW w \in Workers, NEW right \in BOOLEAN, VerifyPassword(w, right)
  PROVE  GuessInv'
<1>1. PICK e : e = req[w].user
  OBVIOUS
<1>2. e \in Emails /\ w \in Verifying(e)
  BY <1>1, RequestIsWellFormed DEF VerifyPassword, At, Verifying, AskedOf
<1>3. /\ ThrottleTypes /\ now' = now
      /\ late' = IF Blocked(e) THEN [late EXCEPT ![e] = @ + 1] ELSE late
      /\ RecordFailure(e) \/ attempt' = attempt \/ attempt' = [attempt EXCEPT ![e] = [count |-> 0, until |-> 0]]
  BY <1>1 DEF VerifyPassword, bounds, GuessInv
<1>4. ThrottleTypes' /\ \A f \in Emails \ {e} : attempt'[f] = attempt[f] /\ late'[f] = late[f]
  BY <1>2, <1>3, RecordFailureType DEF ThrottleTypes
<1>5. Verifying(e)' = Verifying(e) \ {w} /\ \A f \in Emails \ {e} : Verifying(f)' = Verifying(f)
  <2>1. PICK q : req' = [req EXCEPT ![w] = q] /\ q.pc # "verify"
    BY ServeMoves DEF Serve
  <2>2. \A f : Verifying(f)' = Verifying(f) \ {w}
    BY <2>1, FewerVerify
  <2>3. \A f \in Emails \ {e} : w \notin Verifying(f)
    BY <1>1 DEF Verifying
  <2>. QED
    BY <2>2, <2>3
<1>6. PICK n \in Nat, m \in Nat :
        n = Cardinality(Verifying(e)) /\ Cardinality(Verifying(e)') = n - 1 /\ m = Cardinality(Workers)
  <2>1. PICK S : S = Verifying(e)
    OBVIOUS
  <2>2. IsFiniteSet(S) /\ Cardinality(S) \in Nat /\ Cardinality(Workers) \in Nat
    BY <2>1, VerifyingIsFinite
  <2>3. Cardinality(S \ {w}) = Cardinality(S) - 1
    BY <1>2, <2>1, <2>2, FS_RemoveElement
  <2>. QED
    BY <1>5, <2>1, <2>2, <2>3
<1>7. late[e] \in Nat /\ late'[e] = IF Blocked(e) THEN late[e] + 1 ELSE late[e]
  BY <1>2, <1>3 DEF ThrottleTypes
<1>8. late[e] + n <= m /\ (Blocked(e) => late[e] + n < m)
  BY <1>2, <1>6 DEF GuessInv
<1>9. late'[e] + (n - 1) < m
  BY <1>6, <1>7, <1>8
<1>10. ASSUME NEW f \in Emails
       PROVE  /\ (late[f] + Cardinality(Verifying(f)) <= Cardinality(Workers))'
              /\ (Blocked(f) \/ late[f] > 0 => late[f] + Cardinality(Verifying(f)) < Cardinality(Workers))'
  <2>1. CASE f = e
    BY <1>4, <1>6, <1>9, <2>1 DEF ThrottleTypes
  <2>2. CASE f # e
    BY <1>3, <1>4, <1>5, <2>2 DEF GuessInv, Blocked
  <2>. QED
    BY <2>1, <2>2
<1>. QED
  BY <1>4, <1>10 DEF GuessInv

LEMMA InitGuessInv == Init => GuessInv
<1>. SUFFICES ASSUME Init PROVE GuessInv
  OBVIOUS
<1>1. ThrottleTypes /\ \A e \in Emails : late[e] = 0 /\ ~Blocked(e)
  BY DEF Init, ThrottleTypes, Blocked
<1>. QED
  BY <1>1, VerifyingIsFinite DEF GuessInv

LEMMA StepKeepsGuessInv == RequestInv /\ GuessInv /\ [Next]_vars => GuessInv'
<1>. SUFFICES ASSUME RequestInv, GuessInv, [Next]_vars PROVE GuessInv'
  OBVIOUS
<1>0. now \in Nat
  BY DEF GuessInv, ThrottleTypes
<1>1. ASSUME NEW w \in Workers, NEW q, req' = [req EXCEPT ![w] = q],
             ~(q.kind = "login" /\ q.pc = "verify"), UNCHANGED <<throttle, now>>
      PROVE  GuessInv'
  <2>1. \A e : Verifying(e)' = Verifying(e) \ {w}
    BY <1>1, FewerVerify
  <2>. QED
    BY <1>0, <1>1, <2>1, GuessStays
<1>2. ASSUME NEW w \in Workers, Ask(w) PROVE GuessInv'
  <2>1. CASE \E e \in Emails : Login(w, e)
    BY <2>1, LoginKeepsGuess
  <2>2. ASSUME NEW kind, NEW pc, NEW e, NEW i, NEW t, Asks(w, kind, pc, e, i, t), kind # "login"
        PROVE  GuessInv'
    <3>1. PICK q : /\ q = [Idle EXCEPT !.kind = kind, !.pc = pc, !.user = e, !.identity = i, !.token = t]
                   /\ req' = [req EXCEPT ![w] = q]
      BY <2>2 DEF Asks, Begins
    <3>2. q.kind = kind
      BY <3>1 DEF Idle
    <3>3. UNCHANGED <<throttle, now>>
      BY <2>2 DEF Asks, Begins
    <3>. QED
      BY <1>1, <2>2, <3>1, <3>2, <3>3
  <2>3. ASSUME NEW t \in Tokens, Redeem(w, t) PROVE GuessInv'
    <3>1. token[t].kind # "login"
      BY DEF RequestInv, IdentityTypes, Token
    <3>. QED
      BY <2>2, <2>3, <3>1 DEF Redeem
  <2>4. CASE \E e \in Emails : Register(w, e) \/ Resend(w, e) \/ Forgot(w, e)
    BY <2>2, <2>4 DEF Register, Resend, Forgot
  <2>5. CASE \E i \in Identities, e \in Emails \union {None} : Callback(w, i, e)
    BY <2>2, <2>5 DEF Callback
  <2>6. CASE \E e \in Emails, i \in Identities : Unlink(w, e, i)
    BY <2>2, <2>6 DEF Unlink
  <2>. QED
    BY <1>2, <2>1, <2>3, <2>4, <2>5, <2>6 DEF Ask
<1>3. ASSUME NEW w \in Workers, Serve(w) PROVE GuessInv'
  <2>1. CASE \E right \in BOOLEAN : VerifyPassword(w, right)
    BY <2>1, VerifyKeepsGuess
  <2>2. CASE UNCHANGED <<throttle, now>>
    BY <1>1, <1>3, <2>2, ServeMoves
  <2>3. \/ \E right \in BOOLEAN : VerifyPassword(w, right)
        \/ UNCHANGED <<throttle, now>>
    BY <1>3 DEF Serve, Step, bounds, FindUser, CreateUser, SendMail, CheckToken, MarkVerified, MarkUsed,
       ResetPassword, Exchange, FindLink, FindOwner, MatchEmail, LinkByEmail, CreatePending, CreateTicket,
       FindClaimed, CreateOAuthUser, LinkSigned, MarkSigned, Seed, OpenSession, CountLinks, DeleteLink
  <2>. QED
    BY <2>1, <2>2, <2>3
<1>4. ASSUME NEW w \in Workers, Lose(w) PROVE GuessInv'
  BY <1>1, <1>4, IdleIsRequest DEF Lose, Ends
<1>5. CASE \/ \E e \in Emails : DeleteMe(e)
           \/ \E t \in Tokens : Expire(t)
           \/ Tick \/ UNCHANGED vars
  <2>1. req' = req /\ UNCHANGED throttle /\ now' \in Nat /\ now' >= now
    BY <1>0, <1>5 DEF DeleteMe, Expire, Tick, vars, bounds
  <2>2. \A e : Verifying(e)' = Verifying(e)
    BY <2>1 DEF Verifying, At
  <2>. QED
    BY <2>1, <2>2, GuessStays
<1>. QED
  BY <1>2, <1>3, <1>4, <1>5 DEF Next

(* GuessBound for any number of requests at the same time: the check of    *)
(* the block and the count of a failure are in different turns of          *)
(* login(), so a block lets at most the others through.                    *)
THEOREM BlockedGuessesAreBounded == Spec => []GuessBound
<1>1. GuessInv => GuessBound
  <2>. SUFFICES ASSUME GuessInv, NEW e \in Emails PROVE late[e] < Cardinality(Workers)
    BY DEF GuessBound
  <2>1. late[e] \in Nat /\ (late[e] > 0 => late[e] + Cardinality(Verifying(e)) < Cardinality(Workers))
    BY DEF GuessInv, ThrottleTypes
  <2>. QED
    BY <2>1, VerifyingIsFinite
<1>. QED
  BY <1>1, InitGuessInv, StepKeepsGuessInv, RequestInvHolds, PTL DEF Spec

-----------------------------------------------------------------------------
(* Tokens *)

(* No user is forgotten, and a token that was refused is refused from then on. *)
NothingReturns ==
  /\ \A e \in Emails : user[e].state # "none" => user'[e].state # "none"
  /\ \A t \in Tokens :
       /\ token[t].kind # "none" => token'[t].kind = token[t].kind /\ token'[t].user = token[t].user
       /\ token[t].kind # "none" /\ ~Usable(t) => token'[t].usable # "yes"
       /\ token'[t].kind = "none" => token'[t].usable = "yes"

LEMMA WritesReturnNothing ==
  ASSUME RequestInv, Spent,
         \/ UNCHANGED user
         \/ \E e, r : user' = [user EXCEPT ![e] = r] /\ (r.state # "none" \/ (e \in Emails /\ r.state = user[e].state)),
         \/ UNCHANGED token
         \/ \E t \in Tokens, u \in {"used", "expired"} :
              token[t].kind # "none" /\ token' = [token EXCEPT ![t].usable = u]
         \/ \E kind, e, i : kind # "none" /\ Issue(kind, e, i)
  PROVE  NothingReturns
<1>. USE DEF RequestInv, IdentityTypes
<1>1. \A e \in Emails : user[e].state # "none" => user'[e].state # "none"
  OBVIOUS
<1>2. \A t \in Tokens : token[t].kind = "none" => token[t].usable = "yes"
  BY DEF Spent, Usable
<1>3. CASE UNCHANGED token
  BY <1>1, <1>2, <1>3 DEF NothingReturns, Usable
<1>4. ASSUME NEW t \in Tokens, NEW u \in {"used", "expired"},
             token[t].kind # "none", token' = [token EXCEPT ![t].usable = u]
      PROVE  NothingReturns
  BY <1>1, <1>2, <1>4 DEF NothingReturns, Usable, Token
<1>5. ASSUME NEW kind, NEW e, NEW i, kind # "none", Issue(kind, e, i) PROVE NothingReturns
  <2>1. PICK t \in Tokens : /\ token[t].kind = "none"
                            /\ \E r : token' = [token EXCEPT ![t] = r] /\ r.kind = kind
    <3>1. [NoToken EXCEPT !.kind = kind, !.user = e, !.identity = i].kind = kind
      BY DEF NoToken
    <3>. QED
      BY <1>5, <3>1 DEF Issue
  <2>. QED
    BY <1>1, <1>2, <1>5, <2>1 DEF NothingReturns, Usable
<1>. QED
  BY <1>3, <1>4, <1>5

LEMMA NothingComesBack == ASSUME RequestInv, Spent, [Next]_vars PROVE NothingReturns
<1>1. ASSUME NEW w \in Workers, Ask(w) \/ Lose(w) PROVE NothingReturns
  <2>1. UNCHANGED tables
    BY <1>1 DEF Ask, Lose, Register, Resend, Forgot, Login, Redeem, Callback, Unlink, Asks, Begins
  <2>. QED
    BY <2>1, WritesReturnNothing DEF tables
<1>2. CASE (\E e \in Emails : DeleteMe(e)) \/ Tick \/ UNCHANGED vars
  <2>1. token' = token
    BY <1>2 DEF DeleteMe, Tick, vars, tables
  <2>2. CASE UNCHANGED user
    BY <2>1, <2>2, WritesReturnNothing
  <2>3. ASSUME NEW e \in Emails, DeleteMe(e) PROVE NothingReturns
    <3>1. user[e] \in User /\ user' = [user EXCEPT ![e] = [user[e] EXCEPT !.state = "deleted"]]
      BY <2>3 DEF DeleteMe, RequestInv, IdentityTypes
    <3>2. [user[e] EXCEPT !.state = "deleted"].state = "deleted"
      BY <3>1 DEF User
    <3>. QED
      BY <2>1, <3>1, <3>2, WritesReturnNothing
  <2>. QED
    BY <1>2, <2>2, <2>3 DEF Tick, vars, tables
<1>3. ASSUME NEW t \in Tokens, Expire(t) PROVE NothingReturns
  BY <1>3, WritesReturnNothing DEF Expire
<1>4. ASSUME NEW w \in Workers, Serve(w) PROVE NothingReturns
  <2>. DEFINE R == req[w]
              Grown == \E e, r : user' = [user EXCEPT ![e] = r]
                         /\ (r.state # "none" \/ (e \in Emails /\ r.state = user[e].state))
  <2>0. /\ R \in Request /\ Shape(R) /\ user \in [Emails -> User]
        /\ R.kind \in AskedOf => R.user \in Emails
        /\ R.kind \in TokenKinds => R.token \in Tokens /\ token[R.token].kind # "none"
        /\ R.kind = "register" => R.left \subseteq {"seed"}
    BY RequestIsWellFormed DEF RequestInv, IdentityTypes, TokenKinds
  <2>1. UNCHANGED user \/ Grown
    <3>1. CASE CreateUser(w) \/ CreateOAuthUser(w)
      <4>1. /\ [NoUser EXCEPT !.state = "active", !.verified = TRUE].state = "active"
            /\ [NoUser EXCEPT !.state = "active", !.password = TRUE].state = "active"
        BY DEF NoUser
      <4>. QED
        BY <3>1, <4>1 DEF CreateUser, CreateOAuthUser, Insert
    <3>2. CASE MarkVerified(w) \/ ResetPassword(w) \/ Seed(w)
      <4>1. R.user \in Emails
        BY <2>0, <3>2 DEF MarkVerified, ResetPassword, Seed, Shape, At, AskedOf, TokenKinds
      <4>2. PICK r \in User : user' = [user EXCEPT ![R.user] = r] /\ r.state = user[R.user].state
        <5>1. user[R.user] \in User
          BY <2>0, <4>1
        <5>2. \/ user' = [user EXCEPT ![R.user] = [user[R.user] EXCEPT !.verified = TRUE]]
              \/ user' = [user EXCEPT ![R.user] = [user[R.user] EXCEPT !.password = TRUE]]
              \/ user' = [user EXCEPT ![R.user] = [user[R.user] EXCEPT !.seeded = TRUE]]
          BY <2>0, <3>2, <4>1 DEF MarkVerified, ResetPassword, Seed
        <5>3. /\ [user[R.user] EXCEPT !.verified = TRUE] \in User
              /\ [user[R.user] EXCEPT !.password = TRUE] \in User
              /\ [user[R.user] EXCEPT !.seeded = TRUE] \in User
              /\ [user[R.user] EXCEPT !.verified = TRUE].state = user[R.user].state
              /\ [user[R.user] EXCEPT !.password = TRUE].state = user[R.user].state
              /\ [user[R.user] EXCEPT !.seeded = TRUE].state = user[R.user].state
          BY <5>1 DEF User
        <5>. QED
          BY <5>2, <5>3
      <4>. QED
        BY <4>1, <4>2
    <3>. QED
      BY <1>4, <3>1, <3>2 DEF Serve, tables, FindUser, SendMail, VerifyPassword, CheckToken, MarkUsed,
         Exchange, FindLink, FindOwner, MatchEmail, LinkByEmail, CreatePending, CreateTicket,
         FindClaimed, LinkSigned, MarkSigned, OpenSession, CountLinks, DeleteLink
  <2>2. \/ UNCHANGED token
        \/ \E t \in Tokens, u \in {"used", "expired"} :
             token[t].kind # "none" /\ token' = [token EXCEPT ![t].usable = u]
        \/ \E kind, e, i : kind # "none" /\ Issue(kind, e, i)
    <3>1. CASE SendMail(w) \/ CreatePending(w) \/ CreateTicket(w)
      BY <3>1 DEF SendMail, CreatePending, CreateTicket
    <3>2. CASE MarkUsed(w) \/ ResetPassword(w) \/ MarkSigned(w)
      <4>1. R.kind \in TokenKinds
        BY <2>0, <3>2 DEF MarkUsed, ResetPassword, MarkSigned, Shape, At, TokenKinds
      <4>. QED
        BY <2>0, <3>2, <4>1 DEF MarkUsed, ResetPassword, MarkSigned
    <3>. QED
      BY <1>4, <3>1, <3>2 DEF Serve, tables, FindUser, VerifyPassword, CheckToken, MarkVerified,
         CreateUser, CreateOAuthUser, Exchange, FindLink, FindOwner, MatchEmail, LinkByEmail,
         FindClaimed, LinkSigned, Seed, OpenSession, CountLinks, DeleteLink
  <2>. HIDE DEF Grown
  <2>3. CASE UNCHANGED user
    BY <2>2, <2>3, WritesReturnNothing
  <2>4. CASE Grown
    BY <2>2, <2>4, WritesReturnNothing DEF Grown
  <2>. QED
    BY <2>1, <2>3, <2>4
<1>. QED
  BY <1>1, <1>2, <1>3, <1>4 DEF Next

(* A step that uses no token. *)
LEMMA QuietStep ==
  ASSUME RequestInv, RequestInv', TokenInv, NothingReturns,
         NEW w \in Workers, NEW q \in Request, req' = [req EXCEPT ![w] = q],
         honoured' = honoured, doubled \subseteq doubled',
         q.token # None /\ q.pc # "check" /\ q.token \notin doubled' =>
           honoured[q.token] = 0 /\ \A v \in Workers \ {w} : ~Holds(v, q.token),
         Marked(q) => token'[q.token].usable # "yes",
         SigningUp(q) => /\ user'[q.user].state # "none" /\ honoured[q.token] = 0
                         /\ \A v \in Workers \ {w} : SigningUp(req[v]) => req[v].user # q.user
  PROVE  TokenInv'
<1>1. /\ req'[w] = q /\ \A v \in Workers \ {w} : req'[v] = req[v]
      /\ honoured \in [Tokens -> Nat]
  BY DEF RequestInv, IdentityTypes, TokenInv
<1>2. \A t \in Tokens : token[t].kind = "none" => honoured[t] = 0
  BY <1>1 DEF TokenInv, Spent
<1>3. \A v \in Workers : WellFormed(req[v]) /\ req[v] \in Request
  BY DEF RequestInv, IdentityTypes
<1>4. Spent'
  <2>1. ASSUME NEW t \in Tokens
        PROVE  (honoured[t] > 0 => ~Usable(t))' /\ (token[t].kind = "none" => Usable(t))'
    BY <1>1, <1>2 DEF NothingReturns, TokenInv, Spent, Usable
  <2>2. ASSUME NEW v \in Workers, v # w PROVE (Marked(req[v]) => ~Usable(req[v].token))'
    <3>1. Marked(req[v]) => req[v].token \in Tokens /\ token[req[v].token].kind # "none"
      BY <1>3 DEF Marked, WellFormed, TokenKinds, Request
    <3>. QED
      BY <1>1, <2>2, <3>1 DEF Marked, NothingReturns, TokenInv, Spent, Usable
  <2>3. (Marked(req[w]) => ~Usable(req[w].token))'
    BY <1>1 DEF Marked, Usable
  <2>. QED
    BY <2>1, <2>2, <2>3 DEF Spent
<1>5. HeldAlone'
  <2>. SUFFICES ASSUME NEW t \in Tokens, t \notin doubled'
                PROVE  /\ honoured[t] <= 1
                       /\ \A v \in Workers : Holds(v, t)' => honoured[t] = 0 /\ \A u \in Workers \ {v} : ~Holds(u, t)'
    BY DEF HeldAlone
  <2>1. /\ honoured[t] <= 1
        /\ \A v \in Workers : Holds(v, t) => honoured[t] = 0 /\ \A u \in Workers \ {v} : ~Holds(u, t)
    BY DEF TokenInv, HeldAlone
  <2>2. \A v \in Workers \ {w} : Holds(v, t)' <=> Holds(v, t)
    BY <1>1 DEF Holds
  <2>3. Holds(w, t)' => honoured[t] = 0 /\ \A v \in Workers \ {w} : ~Holds(v, t)
    BY <1>1, NoneIsNobody DEF Holds
  <2>. QED
    BY <2>1, <2>2, <2>3
<1>6. SignedOnce'
  <2>1. ASSUME NEW v \in Workers, SigningUp(req'[v])
        PROVE  /\ user'[req'[v].user].state # "none" /\ honoured[req'[v].token] = 0
               /\ \A u \in Workers \ {v} : SigningUp(req'[u]) => req'[u].user # req'[v].user
    <3>1. CASE v = w
      BY <1>1, <2>1, <3>1
    <3>2. CASE v # w
      <4>1. req[v].user \in Emails /\ SigningUp(req[v])
        BY <1>1, <1>3, <2>1, <3>2 DEF WellFormed, SigningUp, AskedOf, TokenKinds
      <4>. QED
        BY <1>1, <3>2, <4>1 DEF TokenInv, SignedOnce, NothingReturns
    <3>. QED
      BY <3>1, <3>2
  <2>2. ASSUME NEW t \in Tokens, token'[t].kind = "signup"
        PROVE  honoured[t] <= 1 /\ (honoured[t] = 1 => user'[token'[t].user].state # "none")
    <3>1. CASE token[t].kind = "none"
      BY <1>2, <3>1
    <3>2. CASE token[t].kind # "none"
      <4>1. token'[t].kind = token[t].kind /\ token'[t].user = token[t].user /\ token[t].user \in Emails
        BY <3>2 DEF NothingReturns, RequestInv, Owned
      <4>. QED
        BY <2>2, <4>1 DEF TokenInv, SignedOnce, NothingReturns
    <3>. QED
      BY <3>1, <3>2
  <2>. QED
    BY <2>1, <2>2 DEF SignedOnce, SigningUp
<1>. QED
  BY <1>1, <1>4, <1>5, <1>6 DEF TokenInv

(* A request does what its token is for, and ends. *)
LEMMA HonourStep ==
  ASSUME RequestInv, RequestInv', TokenInv, NothingReturns,
         NEW w \in Workers, NEW t \in Tokens, Holds(w, t), Ends(w),
         doubled' = doubled, honoured' = [honoured EXCEPT ![t] = @ + 1],
         token'[t].usable # "yes", (req[w].kind = "signup") => SigningUp(req[w])
  PROVE  TokenInv'
<1>1. /\ req' = [req EXCEPT ![w] = Idle] /\ req'[w] = Idle /\ \A v \in Workers \ {w} : req'[v] = req[v]
      /\ honoured \in [Tokens -> Nat] /\ honoured'[t] = honoured[t] + 1
      /\ \A u \in Tokens \ {t} : honoured'[u] = honoured[u]
  BY DEF RequestInv, IdentityTypes, TokenInv, Ends
<1>2. \A u \in Tokens : token[u].kind = "none" => honoured[u] = 0
  BY <1>1 DEF TokenInv, Spent
<1>3. \A v \in Workers : WellFormed(req[v]) /\ req[v] \in Request
  BY DEF RequestInv, IdentityTypes
<1>4. req[w].token = t /\ token[t].kind = req[w].kind /\ token[t].user = req[w].user /\ req[w].kind \in TokenKinds
  BY <1>3, NoneIsNobody DEF Holds, WellFormed
<1>5. ~Marked(Idle) /\ ~SigningUp(Idle) /\ \A u \in Tokens : ~Holds(w, u)'
  BY <1>1, IdleIsRequest, NoneIsNobody DEF Marked, SigningUp, Holds
<1>6. Spent'
  <2>1. ASSUME NEW u \in Tokens
        PROVE  (honoured[u] > 0 => ~Usable(u))' /\ (token[u].kind = "none" => Usable(u))'
    BY <1>1, <1>2 DEF NothingReturns, TokenInv, Spent, Usable
  <2>2. ASSUME NEW v \in Workers, v # w PROVE (Marked(req[v]) => ~Usable(req[v].token))'
    <3>1. Marked(req[v]) => req[v].token \in Tokens /\ token[req[v].token].kind # "none"
      BY <1>3 DEF Marked, WellFormed, TokenKinds, Request
    <3>. QED
      BY <1>1, <2>2, <3>1 DEF Marked, NothingReturns, TokenInv, Spent, Usable
  <2>3. ~Marked(req[w])'
    BY <1>1, <1>5 DEF Marked
  <2>. QED
    BY <2>1, <2>2, <2>3 DEF Spent
<1>7. HeldAlone'
  <2>. SUFFICES ASSUME NEW u \in Tokens, u \notin doubled
                PROVE  /\ honoured'[u] <= 1
                       /\ \A v \in Workers : Holds(v, u)' => honoured'[u] = 0 /\ \A x \in Workers \ {v} : ~Holds(x, u)'
    BY DEF HeldAlone
  <2>1. /\ honoured[u] <= 1
        /\ \A v \in Workers : Holds(v, u) => honoured[u] = 0 /\ \A x \in Workers \ {v} : ~Holds(x, u)
    BY DEF TokenInv, HeldAlone
  <2>2. \A v \in Workers \ {w} : Holds(v, u)' <=> Holds(v, u)
    BY <1>1 DEF Holds
  <2>. QED
    BY <1>1, <1>5, <2>1, <2>2
<1>8. SignedOnce'
  <2>1. ASSUME NEW v \in Workers, SigningUp(req'[v])
        PROVE  /\ user'[req'[v].user].state # "none" /\ honoured'[req'[v].token] = 0
               /\ \A u \in Workers \ {v} : SigningUp(req'[u]) => req'[u].user # req'[v].user
    <3>1. v # w /\ req'[v] = req[v] /\ SigningUp(req[v])
      BY <1>1, <1>5, <2>1
    <3>2. /\ req[v].user \in Emails /\ req[v].token \in Tokens
          /\ token[req[v].token].kind = "signup" /\ token[req[v].token].user = req[v].user
      BY <1>3, <3>1, NoneIsNobody DEF WellFormed, SigningUp, AskedOf, TokenKinds, Request
    <3>3. req[v].token # t
      BY <1>4, <3>1, <3>2 DEF TokenInv, SignedOnce
    <3>. QED
      BY <1>1, <1>5, <3>1, <3>2, <3>3 DEF TokenInv, SignedOnce, NothingReturns
  <2>2. ASSUME NEW u \in Tokens, token'[u].kind = "signup"
        PROVE  honoured'[u] <= 1 /\ (honoured'[u] = 1 => user'[token'[u].user].state # "none")
    <3>1. CASE token[u].kind = "none"
      BY <1>1, <1>2, <1>4, <3>1 DEF TokenKinds
    <3>2. CASE token[u].kind # "none"
      <4>1. token'[u].kind = token[u].kind /\ token'[u].user = token[u].user /\ token[u].user \in Emails
        BY <3>2 DEF NothingReturns, RequestInv, Owned
      <4>2. CASE u = t
        <5>1. SigningUp(req[w])
          BY <1>4, <2>2, <4>1, <4>2
        <5>2. honoured[t] = 0 /\ user[req[w].user].state # "none"
          BY <1>4, <5>1 DEF TokenInv, SignedOnce
        <5>. QED
          BY <1>1, <1>4, <4>1, <4>2, <5>2 DEF NothingReturns
      <4>3. CASE u # t
        BY <1>1, <2>2, <4>1, <4>3 DEF TokenInv, SignedOnce, NothingReturns
      <4>. QED
        BY <4>2, <4>3
    <3>. QED
      BY <3>1, <3>2
  <2>. QED
    BY <2>1, <2>2 DEF SignedOnce, SigningUp
<1>. QED
  BY <1>1, <1>6, <1>7, <1>8 DEF TokenInv

(* A step of a request that holds no token, or not any more. *)
LEMMA TokenlessStep ==
  ASSUME RequestInv, RequestInv', TokenInv, NothingReturns,
         NEW w \in Workers, NEW q, req' = [req EXCEPT ![w] = q],
         q.kind \notin TokenKinds, UNCHANGED <<honoured, doubled>>
  PROVE  TokenInv'
<1>1. q = req'[w]
  BY DEF RequestInv, IdentityTypes
<1>2. PICK p \in Request : p = q /\ p.token = None /\ ~Marked(p) /\ ~SigningUp(p)
  BY <1>1 DEF RequestInv, IdentityTypes, WellFormed, Marked, SigningUp, TokenKinds
<1>. QED
  BY <1>2, QuietStep

(* A statement of a request that holds its token. *)
LEMMA HolderStep ==
  ASSUME RequestInv, RequestInv', TokenInv, NothingReturns,
         NEW w \in Workers, NEW q, req' = [req EXCEPT ![w] = q],
         q.token = req[w].token, req[w].token \in Tokens, req[w].pc # "check",
         UNCHANGED <<honoured, doubled>>,
         Marked(q) => token'[q.token].usable # "yes",
         SigningUp(q) => /\ user'[q.user].state # "none" /\ honoured[q.token] = 0
                         /\ \A v \in Workers \ {w} : SigningUp(req[v]) => req[v].user # q.user
  PROVE  TokenInv'
<1>1. PICK p \in Request : p = q
  BY DEF RequestInv, IdentityTypes
<1>2. Holds(w, q.token) /\ q.token \in Tokens
  BY DEF Holds
<1>3. q.token \notin doubled => honoured[q.token] = 0 /\ \A v \in Workers \ {w} : ~Holds(v, q.token)
  BY <1>2 DEF TokenInv, HeldAlone
<1>. QED
  BY <1>1, <1>3, QuietStep

LEMMA ServeKeepsTokenInv ==
  ASSUME RequestInv, RequestInv', TokenInv, NothingReturns, NEW w \in Workers, Serve(w)
  PROVE  TokenInv'
<1>. DEFINE R == req[w]
<1>0. /\ R \in Request /\ Shape(R) /\ req \in [Workers -> Request]
      /\ R.kind \in TokenKinds => /\ R.token \in Tokens /\ token[R.token].kind = R.kind
                                  /\ token[R.token].user = R.user /\ R.user \in Emails
      /\ token \in [Tokens -> Token] /\ user \in [Emails -> User]
  BY RequestIsWellFormed DEF RequestInv, IdentityTypes, AskedOf
<1>1. CASE R.kind \notin TokenKinds
  <2>1. PICK q : req' = [req EXCEPT ![w] = q] /\ (q = Idle \/ Continues(q, R))
    BY ServeMoves
  <2>2. q.kind \notin TokenKinds
    BY <1>1, <2>1, IdleIsRequest DEF Continues, TokenKinds
  <2>3. R.token = None
    BY <1>1 DEF RequestInv, WellFormed
  <2>4. UNCHANGED <<honoured, doubled>>
    BY <1>0, <1>1, <2>3 DEF Serve, NoHistory, history, Shape, At, TokenKinds, FindUser, CreateUser, SendMail,
       VerifyPassword, CheckToken, MarkVerified, MarkUsed, ResetPassword, Exchange, FindLink, FindOwner,
       MatchEmail, LinkByEmail, CreatePending, CreateTicket, FindClaimed, CreateOAuthUser, LinkSigned,
       MarkSigned, Seed, OpenSession, CountLinks, DeleteLink
  <2>. QED
    BY <2>1, <2>2, <2>4, TokenlessStep
<1>2. CASE Ends(w) /\ UNCHANGED <<honoured, doubled>>
  BY <1>2, IdleIsRequest, TokenlessStep DEF Ends, TokenKinds
<1>3. ASSUME CheckToken(w), R.kind \in TokenKinds, Usable(R.token) PROVE TokenInv'
  <2>1. PICK p : /\ Goes(w, p) /\ p \notin {"session", "owner", "complete"}
                 /\ doubled \subseteq doubled' /\ honoured' = honoured
                 /\ (\E v \in Workers : Holds(v, R.token)) => R.token \in doubled'
    BY <1>3 DEF CheckToken
  <2>2. PICK q \in Request : /\ req' = [req EXCEPT ![w] = q] /\ q.pc = p /\ q.token = R.token
    <3>1. [R EXCEPT !.pc = p].pc = p /\ [R EXCEPT !.pc = p].token = R.token
      BY <1>0 DEF Request
    <3>2. req'[w] = [R EXCEPT !.pc = p] /\ req'[w] \in Request
      BY <1>0, <2>1 DEF Goes, RequestInv, IdentityTypes
    <3>. QED
      BY <2>1, <3>1, <3>2 DEF Goes
  <2>3. honoured[R.token] = 0
    BY <1>0, <1>3 DEF TokenInv, Spent
  <2>4. ~Marked(q) /\ ~SigningUp(q)
    BY <2>1, <2>2 DEF Marked, SigningUp
  <2>. QED
    BY <2>1, <2>2, <2>3, <2>4, QuietStep
<1>4. ASSUME NEW p, Goes(w, p), R.kind \in TokenKinds, R.pc # "check", UNCHANGED <<honoured, doubled>>,
             p \notin {"session", "owner", "complete"} \/ token'[R.token].usable # "yes", R.kind # "signup" \/ p = "create"
      PROVE  TokenInv'
  <2>1. PICK q : q = [R EXCEPT !.pc = p]
    OBVIOUS
  <2>2. q.pc = p /\ q.token = R.token /\ q.kind = R.kind
    BY <1>0, <2>1 DEF Request
  <2>3. (Marked(q) => token'[q.token].usable # "yes") /\ ~SigningUp(q)
    BY <1>4, <2>2 DEF Marked, SigningUp
  <2>. QED
    BY <1>0, <1>4, <2>1, <2>2, <2>3, HolderStep DEF Goes
<1>5. CASE CheckToken(w) /\ R.kind \in TokenKinds
  BY <1>2, <1>3, <1>5 DEF CheckToken
<1>6. CASE MarkVerified(w)
  BY <1>4, <1>6 DEF MarkVerified, At, TokenKinds, NoHistory, history
<1>7. CASE MarkUsed(w)
  <2>1. R.kind \in {"verify", "ticket"} /\ R.token \in Tokens
    BY <1>0, <1>7 DEF MarkUsed, Shape, TokenKinds
  <2>2. token'[R.token].usable = "used"
    BY <1>0, <1>7, <2>1 DEF MarkUsed, Token
  <2>3. R.pc # "check" /\ UNCHANGED <<honoured, doubled>> /\ Goes(w, IF R.kind = "verify" THEN "session" ELSE "owner")
    BY <1>7 DEF MarkUsed, NoHistory, history
  <2>. QED
    BY <1>4, <2>1, <2>2, <2>3 DEF TokenKinds
<1>8. CASE ResetPassword(w)
  <2>1. R.kind = "reset" /\ R.pc = "reset" /\ R.token \in Tokens
    BY <1>0, <1>8 DEF ResetPassword, At, TokenKinds
  <2>2. token'[R.token].usable = "used"
    BY <1>0, <1>8, <2>1 DEF ResetPassword, Token
  <2>3. Holds(w, R.token)
    BY <2>1 DEF Holds
  <2>. QED
    BY <1>8, <2>1, <2>2, <2>3, HonourStep DEF ResetPassword
<1>9. CASE Exchange(w)
  <2>1. R.kind = "ticket" /\ R.pc = "owner" /\ R.token \in Tokens /\ token[R.token].kind # "none"
    BY <1>0, <1>9 DEF Exchange, At, TokenKinds
  <2>2. token'[R.token].usable # "yes" /\ Holds(w, R.token)
    BY <2>1 DEF TokenInv, Spent, Marked, TokenKinds, NothingReturns, Holds
  <2>3. CASE UNCHANGED honoured
    BY <1>2, <1>9, <2>3 DEF Exchange
  <2>4. CASE honoured' = [honoured EXCEPT ![R.token] = @ + 1]
    BY <1>9, <2>1, <2>2, <2>4, HonourStep DEF Exchange
  <2>. QED
    BY <1>9, <2>3, <2>4 DEF Exchange
<1>10. CASE OpenSession(w) /\ R.kind \in TokenKinds
  <2>1. R.pc = "session" /\ R.token \in Tokens /\ R.token # None /\ token[R.token].kind # "none" /\ R.kind # "callback"
    BY <1>0, <1>10, NoneIsNobody DEF OpenSession, TokenKinds
  <2>2. token'[R.token].usable # "yes" /\ Holds(w, R.token)
    BY <1>10, <2>1 DEF TokenInv, Spent, Marked, NothingReturns, Holds
  <2>3. (R.kind = "signup") => SigningUp(R)
    BY <2>1 DEF SigningUp
  <2>. QED
    BY <1>10, <2>1, <2>2, <2>3, HonourStep DEF OpenSession
<1>11. CASE FindClaimed(w)
  BY <1>2, <1>4, <1>11 DEF FindClaimed, At, TokenKinds, NoHistory, history
<1>12. CASE CreateOAuthUser(w)
  <2>1. /\ R.kind = "signup" /\ R.pc = "create" /\ R.token \in Tokens /\ R.user \in Emails
        /\ token[R.token].kind = "signup" /\ token[R.token].user = R.user
        /\ UNCHANGED <<honoured, doubled>>
    BY <1>0, <1>12 DEF CreateOAuthUser, At, TokenKinds, NoHistory, history
  <2>2. CASE ~Ends(w)
    <3>1. /\ user[R.user].state = "none" /\ user'[R.user].state = "active"
          /\ req' = [req EXCEPT ![w].pc = "complete", ![w].left = {"link", "mark", "seed"}]
      <4>1. PICK row : row = [NoUser EXCEPT !.state = "active", !.verified = TRUE]
        OBVIOUS
      <4>2. row.state = "active"
        BY <4>1 DEF NoUser
      <4>3. Insert(w, row, {"link", "mark", "seed"})
        BY <1>12, <4>1 DEF CreateOAuthUser
      <4>4. /\ user[R.user].state = "none" /\ user' = [user EXCEPT ![R.user] = row]
            /\ req' = [req EXCEPT ![w].pc = "complete", ![w].left = {"link", "mark", "seed"}]
        BY <2>2, <4>3 DEF Insert
      <4>. QED
        BY <1>0, <2>1, <4>2, <4>4
    <3>2. PICK all : all = {"link", "mark", "seed"}
      OBVIOUS
    <3>3. PICK q : /\ req' = [req EXCEPT ![w] = q] /\ q.kind = R.kind
                   /\ q.pc = "complete" /\ q.token = R.token /\ q.user = R.user /\ "mark" \in q.left
      <4>. DEFINE p == [R EXCEPT !.pc = "complete", !.left = all]
      <4>1. p.kind = R.kind /\ p.pc = "complete" /\ p.token = R.token /\ p.user = R.user /\ p.left = all
        BY <1>0 DEF Request
      <4>2. req' = [req EXCEPT ![w] = p]
        BY <1>0, <3>1, <3>2
      <4>. HIDE DEF p
      <4>. QED
        BY <3>2, <4>1, <4>2
    <3>4. honoured[R.token] = 0 /\ \A v \in Workers \ {w} : SigningUp(req[v]) => req[v].user # q.user
      <4>1. honoured[R.token] \in Nat /\ honoured[R.token] <= 1 /\ honoured[R.token] # 1
        BY <2>1, <3>1 DEF TokenInv, SignedOnce
      <4>2. \A v \in Workers : SigningUp(req[v]) => user[req[v].user].state # "none"
        BY DEF TokenInv, SignedOnce
      <4>. QED
        BY <3>1, <3>3, <4>1, <4>2
    <3>5. ~Marked(q)
      BY <3>3 DEF Marked
    <3>. QED
      BY <2>1, <3>1, <3>3, <3>4, <3>5, HolderStep
  <2>. QED
    BY <1>2, <2>1, <2>2
<1>13. CASE (LinkSigned(w) \/ MarkSigned(w) \/ Seed(w)) /\ R.kind \in TokenKinds
  <2>1. /\ R.kind = "signup" /\ R.pc = "complete" /\ R.token \in Tokens /\ R.user \in Emails
        /\ token[R.token].kind = "signup" /\ UNCHANGED <<honoured, doubled>>
    BY <1>0, <1>13 DEF LinkSigned, MarkSigned, Seed, Shape, TokenKinds, NoHistory, history
  <2>2. PICK s \in {"link", "mark", "seed"} :
          /\ Rest(w, s) /\ s \in R.left
          /\ (s = "mark") => token'[R.token].usable = "used"
    BY <1>0, <1>13, <2>1 DEF LinkSigned, MarkSigned, Seed, Token
  <2>3. PICK q : q = [R EXCEPT !.left = @ \ {s}, !.pc = IF R.left # {s} THEN @ ELSE "session"]
    OBVIOUS
  <2>4. /\ req' = [req EXCEPT ![w] = q] /\ q.kind = "signup" /\ q.token = R.token /\ q.user = R.user
        /\ q.left = R.left \ {s} /\ q.pc = IF R.left # {s} THEN "complete" ELSE "session"
    BY <1>0, <2>1, <2>2, <2>3 DEF Rest, Request
  <2>5. Marked(q) => token'[R.token].usable # "yes"
    <3>1. CASE s = "mark"
      BY <2>2, <3>1
    <3>2. CASE s # "mark"
      <4>1. Marked(q) => Marked(R)
        BY <2>1, <2>2, <2>4, <3>2 DEF Marked
      <4>. QED
        BY <2>1, <4>1 DEF TokenInv, Spent, NothingReturns
    <3>. QED
      BY <3>1, <3>2
  <2>6. /\ user'[R.user].state # "none" /\ honoured[R.token] = 0
        /\ \A v \in Workers \ {w} : SigningUp(req[v]) => req[v].user # R.user
    BY <2>1 DEF SigningUp, TokenInv, SignedOnce, NothingReturns
  <2>. QED
    BY <2>1, <2>4, <2>5, <2>6, HolderStep
<1>14. R.kind \in TokenKinds =>
         \/ CheckToken(w) \/ MarkVerified(w) \/ MarkUsed(w) \/ ResetPassword(w) \/ Exchange(w) \/ FindClaimed(w)
         \/ CreateOAuthUser(w) \/ LinkSigned(w) \/ MarkSigned(w) \/ Seed(w) \/ OpenSession(w)
  BY <1>0 DEF Serve, Shape, At, TokenKinds, FindUser, CreateUser, SendMail, VerifyPassword, FindLink, FindOwner,
     MatchEmail, LinkByEmail, CreatePending, CreateTicket, CountLinks, DeleteLink
<1>. QED
  BY <1>1, <1>5, <1>6, <1>7, <1>8, <1>9, <1>10, <1>11, <1>12, <1>13, <1>14

LEMMA InitTokenInv == Init => TokenInv
<1>. SUFFICES ASSUME Init PROVE TokenInv
  OBVIOUS
<1>1. \A w \in Workers : ~Marked(req[w]) /\ ~SigningUp(req[w]) /\ \A t \in Tokens : ~Holds(w, t)
  BY IdleIsRequest, NoneIsNobody DEF Init, Marked, SigningUp, Holds
<1>2. /\ honoured \in [Tokens -> Nat]
      /\ \A t \in Tokens : honoured[t] = 0 /\ token[t].kind = "none" /\ Usable(t)
  BY DEF Init, NoToken, Usable
<1>. QED
  BY <1>1, <1>2 DEF TokenInv, Spent, HeldAlone, SignedOnce

LEMMA StepKeepsTokenInv == RequestInv /\ TokenInv /\ [Next]_vars => TokenInv'
<1>. SUFFICES ASSUME RequestInv, TokenInv, [Next]_vars PROVE TokenInv'
  OBVIOUS
<1>1. RequestInv' /\ NothingReturns
  BY StepKeepsRequestInv, NothingComesBack DEF TokenInv
<1>2. ASSUME NEW w \in Workers, Ask(w) PROVE TokenInv'
  <2>1. ASSUME NEW q, req' = [req EXCEPT ![w] = q], q.kind \notin TokenKinds PROVE TokenInv'
    BY <1>1, <1>2, <2>1, TokenlessStep
       DEF Ask, Register, Resend, Forgot, Login, Redeem, Callback, Unlink, Asks, Begins, history
  <2>2. ASSUME NEW t \in Tokens, Redeem(w, t) PROVE TokenInv'
    <3>1. PICK q : /\ q = [Idle EXCEPT !.kind = token[t].kind, !.pc = "check", !.user = token[t].user,
                                       !.identity = token[t].identity, !.token = t]
                   /\ req' = [req EXCEPT ![w] = q] /\ UNCHANGED history
      BY <2>2 DEF Redeem, Asks, Begins
    <3>2. q.pc = "check" /\ ~Marked(q) /\ ~SigningUp(q)
      BY <3>1 DEF Idle, Marked, SigningUp
    <3>3. PICK p \in Request : p = q
      BY <1>1, <3>1 DEF RequestInv, IdentityTypes
    <3>. QED
      BY <1>1, <3>1, <3>2, <3>3, QuietStep DEF history
  <2>3. ASSUME NEW kind, kind \notin TokenKinds, NEW pc, NEW e, NEW i, NEW t, Asks(w, kind, pc, e, i, t) PROVE TokenInv'
    <3>1. PICK q : /\ q = [Idle EXCEPT !.kind = kind, !.pc = pc, !.user = e, !.identity = i, !.token = t]
                   /\ req' = [req EXCEPT ![w] = q]
      BY <2>3 DEF Asks, Begins
    <3>2. q.kind = kind
      BY <3>1 DEF Idle
    <3>. QED
      BY <2>1, <2>3, <3>1, <3>2
  <2>4. ASSUME NEW e \in Emails, Login(w, e) PROVE TokenInv'
    <3>1. PICK q : q = [Idle EXCEPT !.kind = "login", !.pc = "verify", !.user = e] /\ req' = [req EXCEPT ![w] = q]
      BY <2>4 DEF Login, Begins
    <3>2. q.kind = "login"
      BY <3>1 DEF Idle
    <3>. QED
      BY <2>1, <3>1, <3>2 DEF TokenKinds
  <2>5. CASE \/ \E e \in Emails : Register(w, e) \/ Resend(w, e) \/ Forgot(w, e)
             \/ \E i \in Identities, e \in Emails \union {None} : Callback(w, i, e)
             \/ \E e \in Emails, i \in Identities : Unlink(w, e, i)
    BY <2>3, <2>5 DEF Register, Resend, Forgot, Callback, Unlink, TokenKinds
  <2>. QED
    BY <1>2, <2>2, <2>4, <2>5 DEF Ask
<1>3. ASSUME NEW w \in Workers, Serve(w) PROVE TokenInv'
  BY <1>1, <1>3, ServeKeepsTokenInv
<1>4. ASSUME NEW w \in Workers, Lose(w) PROVE TokenInv'
  BY <1>1, <1>4, IdleIsRequest, TokenlessStep DEF Lose, Ends, TokenKinds
<1>5. CASE (\E e \in Emails : DeleteMe(e)) \/ (\E t \in Tokens : Expire(t)) \/ Tick \/ UNCHANGED vars
  <2>1. req' = req /\ honoured' = honoured /\ doubled' = doubled
    BY <1>5 DEF DeleteMe, Expire, Tick, vars, history
  <2>2. PICK w \in Workers : TRUE
    BY IdentityAssumption
  <2>3. PICK q \in Request : q = req[w]
    BY DEF RequestInv, IdentityTypes
  <2>4. req' = [req EXCEPT ![w] = q]
    BY <2>1, <2>3 DEF RequestInv, IdentityTypes
  <2>5. CASE q.kind \notin TokenKinds
    BY <1>1, <2>1, <2>4, <2>5, TokenlessStep
  <2>6. CASE q.kind \in TokenKinds
    <3>1. q.token \in Tokens /\ token[q.token].kind # "none" /\ q.user \in Emails
      BY <2>3, <2>6, RequestIsWellFormed DEF TokenKinds, AskedOf
    <3>2. (Marked(q) => token'[q.token].usable # "yes")
      BY <1>1, <2>3, <3>1 DEF TokenInv, Spent, NothingReturns
    <3>3. SigningUp(q) => /\ user'[q.user].state # "none" /\ honoured[q.token] = 0
                          /\ \A v \in Workers \ {w} : SigningUp(req[v]) => req[v].user # q.user
      BY <1>1, <2>3, <3>1 DEF TokenInv, SignedOnce, NothingReturns
    <3>4. q.token # None /\ q.pc # "check" /\ q.token \notin doubled' =>
            honoured[q.token] = 0 /\ \A v \in Workers \ {w} : ~Holds(v, q.token)
      BY <2>1, <2>3, <3>1 DEF TokenInv, HeldAlone, Holds
    <3>. QED
      BY <1>1, <2>1, <2>4, <3>2, <3>3, <3>4, QuietStep
  <2>. QED
    BY <2>5, <2>6
<1>. QED
  BY <1>2, <1>3, <1>4, <1>5 DEF Next

(* TokenOnce for any number of requests: markUsed() is not a condition of  *)
(* the update, so two requests that both read a token as unused both do    *)
(* what it is for; a signup is done once because the email is unique.      *)
THEOREM TokensAreSingleUse == Spec => []TokenOnce
<1>1. TokenInv => TokenOnce
  BY DEF TokenInv, HeldAlone, SignedOnce, TokenOnce
<1>. QED
  BY <1>1, InitTokenInv, StepKeepsTokenInv, RequestInvHolds, PTL DEF Spec

-----------------------------------------------------------------------------
(* Accounts *)

(* A user loses neither its password nor its categories, and a deleted one *)
(* does not come back.                                                     *)
UserStays(e) ==
  user[e].state # "none" =>
    /\ user'[e].state # "none" /\ (user'[e].state = "active" => user[e].state = "active")
    /\ (user[e].password => user'[e].password) /\ (user[e].seeded => user'[e].seeded)

LEMMA UsersStay == ASSUME RequestInv, [Next]_vars PROVE \A e \in Emails : UserStays(e)
<1>. SUFFICES ASSUME NEW e \in Emails PROVE UserStays(e)
  OBVIOUS
<1>0. user \in [Emails -> User] /\ user[e] \in User
  BY DEF RequestInv, IdentityTypes
<1>1. CASE UNCHANGED user
  BY <1>1 DEF UserStays
<1>2. ASSUME NEW f \in Emails, DeleteMe(f) PROVE UserStays(e)
  BY <1>0, <1>2 DEF DeleteMe, Active, User, UserStays
<1>3. ASSUME NEW w \in Workers, Serve(w) PROVE UserStays(e)
  <2>1. CASE \E row, rest : Insert(w, row, rest)
    BY <1>0, <2>1 DEF Insert, UserStays
  <2>2. CASE MarkVerified(w) \/ ResetPassword(w) \/ Seed(w)
    <3>1. \/ user' = [user EXCEPT ![req[w].user].verified = TRUE]
          \/ user' = [user EXCEPT ![req[w].user].password = TRUE]
          \/ user' = [user EXCEPT ![req[w].user].seeded = TRUE]
      BY <2>2 DEF MarkVerified, ResetPassword, Seed
    <3>2. user'[e] = user[e] \/ user'[e] = [user[e] EXCEPT !.verified = TRUE]
            \/ user'[e] = [user[e] EXCEPT !.password = TRUE] \/ user'[e] = [user[e] EXCEPT !.seeded = TRUE]
      BY <1>0, <3>1
    <3>. QED
      BY <1>0, <3>2 DEF User, UserStays
  <2>3. \/ UNCHANGED user \/ (\E row, rest : Insert(w, row, rest))
        \/ MarkVerified(w) \/ ResetPassword(w) \/ Seed(w)
    BY <1>3 DEF Serve, tables, FindUser, CreateUser, CreateOAuthUser, SendMail, VerifyPassword, CheckToken,
       MarkUsed, Exchange, FindLink, FindOwner, MatchEmail, LinkByEmail, CreatePending, CreateTicket,
       FindClaimed, LinkSigned, MarkSigned, OpenSession, CountLinks, DeleteLink
  <2>. QED
    BY <1>1, <2>1, <2>2, <2>3
<1>4. \/ UNCHANGED user \/ (\E w \in Workers : Serve(w)) \/ (\E f \in Emails : DeleteMe(f))
  BY DEF Next, Ask, Register, Resend, Forgot, Login, Redeem, Callback, Unlink, Asks, Begins, Lose, Expire,
     Tick, tables, vars
<1>. QED
  BY <1>1, <1>2, <1>3, <1>4

(* A request that is not taking a link away leaves a way in. *)
Spared(v) ==
  /\ user[req[v].user].state # "none"
  /\ req[v].user \notin shaken =>
       user[req[v].user].password \/ \E j \in LinksOf(req[v].user) : j # req[v].identity

LEMMA AccountStep ==
  ASSUME RequestInv, AccountInv, shaken \subseteq shaken',
         \A e \in Emails : UserStays(e),
         \A e \in Emails : e \notin shaken' => LinksOf(e) \subseteq LinksOf(e)',
         \A e \in Emails : e \notin shaken' /\ user[e].state = "none" /\ Active(e)' =>
           /\ user'[e].password \/ Completing(e, "link")'
           /\ Completing(e, "seed")',
         \A e \in Emails : e \notin shaken' =>
           /\ Completing(e, "link") => Completing(e, "link")' \/ (LinksOf(e) # {})'
           /\ Completing(e, "seed") => Completing(e, "seed")' \/ user'[e].seeded,
         \A v \in Workers : Unlinking(v)' => Spared(v)' \/ (Unlinking(v) /\ req'[v] = req[v])
  PROVE  AccountInv'
<1>1. ASSUME NEW e \in Emails, Active(e)', e \notin shaken'
      PROVE  /\ user'[e].password \/ (LinksOf(e) # {})' \/ Completing(e, "link")'
             /\ user'[e].seeded \/ Completing(e, "seed")'
  <2>1. CASE user[e].state = "none"
    BY <1>1, <2>1
  <2>2. CASE user[e].state # "none"
    <3>1. /\ Active(e)
          /\ user[e].password => user'[e].password
          /\ user[e].seeded => user'[e].seeded
      BY <1>1, <2>2 DEF UserStays, Active
    <3>2. /\ user[e].password \/ LinksOf(e) # {} \/ Completing(e, "link")
          /\ user[e].seeded \/ Completing(e, "seed")
      BY <1>1, <3>1 DEF AccountInv
    <3>3. LinksOf(e) # {} => (LinksOf(e) # {})'
      BY <1>1
    <3>. QED
      BY <1>1, <3>1, <3>2, <3>3
  <2>. QED
    BY <2>1, <2>2
<1>2. ASSUME NEW v \in Workers, Unlinking(v)', Unlinking(v), req'[v] = req[v] PROVE Spared(v)'
  <2>1. PICK e \in Emails : e = req[v].user
    BY <1>2, RequestIsWellFormed DEF Unlinking, At, AskedOf
  <2>2. /\ user[e].state # "none"
        /\ e \notin shaken => user[e].password \/ \E j \in LinksOf(e) : j # req[v].identity
    BY <1>2, <2>1 DEF AccountInv
  <2>3. /\ user'[e].state # "none"
        /\ user[e].password => user'[e].password
        /\ e \notin shaken' => LinksOf(e) \subseteq LinksOf(e)'
    BY <2>2 DEF UserStays
  <2>4. e \notin shaken' => user'[e].password \/ \E j \in LinksOf(e)' : j # req[v].identity
    BY <2>2, <2>3
  <2>. QED
    BY <1>2, <2>1, <2>3, <2>4 DEF Spared
<1>3. \A v \in Workers : Unlinking(v)' => Spared(v)'
  BY <1>2
<1>. QED
  BY <1>1, <1>3 DEF AccountInv, Spared

(* A step of a request that changes no link, and is not making an account. *)
LEMMA AsideStep ==
  ASSUME RequestInv, AccountInv, NEW w \in Workers, NEW q, req' = [req EXCEPT ![w] = q],
         \A e \in Emails : UserStays(e), link' = link, shaken \subseteq shaken',
         (req[w].pc = "complete") => (req[w].user \in shaken'),
         \A e \in Emails : user[e].state = "none" => user'[e].state = "none",
         ~(q.kind = "unlink" /\ q.pc = "delete")
  PROVE  AccountInv'
<1>1. req'[w] = q /\ \A v \in Workers \ {w} : req'[v] = req[v]
  BY DEF RequestInv, IdentityTypes
<1>2. \A e : LinksOf(e)' = LinksOf(e)
  BY DEF LinksOf
<1>3. \A e, s : e \notin shaken' /\ Completing(e, s) => Completing(e, s)'
  BY <1>1 DEF Completing
<1>4. \A v \in Workers : Unlinking(v)' => Unlinking(v) /\ req'[v] = req[v]
  BY <1>1 DEF Unlinking, At
<1>5. \A e \in Emails : user[e].state = "none" => ~Active(e)'
  BY DEF Active
<1>. QED
  BY <1>2, <1>3, <1>4, <1>5, AccountStep

LEMMA OnlyInsertsMake ==
  ASSUME RequestInv, NEW w \in Workers, Serve(w), ~CreateUser(w), ~CreateOAuthUser(w)
  PROVE  \A e \in Emails : user[e].state = "none" => user'[e].state = "none"
<1>0. user \in [Emails -> User]
  BY DEF RequestInv, IdentityTypes
<1>1. \/ UNCHANGED user
      \/ user' = [user EXCEPT ![req[w].user].verified = TRUE]
      \/ user' = [user EXCEPT ![req[w].user].password = TRUE]
      \/ user' = [user EXCEPT ![req[w].user].seeded = TRUE]
  BY DEF Serve, tables, FindUser, SendMail, VerifyPassword, CheckToken, MarkVerified, ResetPassword, Seed,
     MarkUsed, Exchange, FindLink, FindOwner, MatchEmail, LinkByEmail, CreatePending, CreateTicket,
     FindClaimed, LinkSigned, MarkSigned, OpenSession, CountLinks, DeleteLink
<1>. SUFFICES ASSUME NEW e \in Emails, user[e].state = "none" PROVE user'[e].state = "none"
  OBVIOUS
<1>2. user'[e] = user[e] \/ user'[e] = [user[e] EXCEPT !.verified = TRUE]
        \/ user'[e] = [user[e] EXCEPT !.password = TRUE] \/ user'[e] = [user[e] EXCEPT !.seeded = TRUE]
  BY <1>0, <1>1
<1>. QED
  BY <1>0, <1>2 DEF User

(* The row of an identity now belongs to e. *)
LEMMA UpsertTakesOver ==
  ASSUME RequestInv, NEW i \in Identities, NEW e \in Emails, Upsert(i, e)
  PROVE  /\ shaken \subseteq shaken' /\ i \in LinksOf(e)'
         /\ \A f \in Emails : f \notin shaken' => LinksOf(f) \subseteq LinksOf(f)'
<1>1. /\ link' = [link EXCEPT ![i] = [user |-> e, live |-> TRUE]] /\ link \in [Identities -> Link]
      /\ shaken' = IF link[i].live /\ link[i].user # e THEN shaken \union {link[i].user} ELSE shaken
  BY DEF Upsert, RequestInv, IdentityTypes
<1>2. link'[i].live /\ link'[i].user = e /\ \A j \in Identities \ {i} : link'[j] = link[j]
  BY <1>1
<1>3. ASSUME NEW f \in Emails, f \notin shaken', NEW j \in LinksOf(f) PROVE j \in LinksOf(f)'
  <2>1. CASE j = i
    BY <1>1, <1>2, <1>3, <2>1 DEF LinksOf
  <2>2. CASE j # i
    BY <1>2, <1>3, <2>2 DEF LinksOf
  <2>. QED
    BY <2>1, <2>2
<1>. QED
  BY <1>1, <1>2, <1>3 DEF LinksOf

LEMMA LinkByEmailKeeps ==
  ASSUME RequestInv, AccountInv, \A e \in Emails : UserStays(e), NEW w \in Workers, LinkByEmail(w)
  PROVE  AccountInv'
<1>1. req[w].identity \in Identities /\ req[w].user \in Emails /\ req[w].pc = "upsert" /\ req[w] \in Request
  BY RequestIsWellFormed DEF LinkByEmail, At
<1>2. /\ shaken \subseteq shaken'
      /\ \A f \in Emails : f \notin shaken' => LinksOf(f) \subseteq LinksOf(f)'
  BY <1>1, UpsertTakesOver DEF LinkByEmail
<1>3. user' = user /\ req'[w].pc = "session" /\ \A v \in Workers \ {w} : req'[v] = req[v]
  BY <1>1 DEF LinkByEmail, Goes, RequestInv, IdentityTypes, Request
<1>4. \A e, s : Completing(e, s) => Completing(e, s)'
  BY <1>1, <1>3 DEF Completing
<1>5. \A v \in Workers : Unlinking(v)' => Unlinking(v) /\ req'[v] = req[v]
  BY <1>3 DEF Unlinking, At
<1>6. \A e \in Emails : user[e].state = "none" => ~Active(e)'
  BY <1>3 DEF Active
<1>. QED
  BY <1>2, <1>4, <1>5, <1>6, AccountStep

LEMMA RestKeepsAccount ==
  ASSUME RequestInv, AccountInv, \A e \in Emails : UserStays(e), NEW w \in Workers,
         LinkSigned(w) \/ MarkSigned(w) \/ Seed(w)
  PROVE  AccountInv'
<1>. DEFINE R == req[w]
<1>1. /\ R \in Request /\ R.user \in Emails /\ R.pc = "complete" /\ R.kind \in {"register", "signup"}
      /\ "link" \in R.left => R.identity \in Identities
      /\ req \in [Workers -> Request] /\ user \in [Emails -> User]
  BY RequestIsWellFormed DEF LinkSigned, MarkSigned, Seed, Shape, AskedOf, TokenKinds, RequestInv, IdentityTypes
<1>2. PICK s \in {"link", "mark", "seed"} :
        /\ Rest(w, s) /\ s \in R.left
        /\ (s = "link") => LinkSigned(w)
        /\ (s # "link") => UNCHANGED <<link, shaken>>
        /\ (s = "seed") => user'[R.user].seeded
  BY <1>1 DEF LinkSigned, MarkSigned, Seed, NoHistory, history, User
<1>0. PICK u \in Emails : u = R.user
  BY <1>1
<1>3. /\ shaken \subseteq shaken' /\ (s = "link" => (LinksOf(u) # {})')
      /\ \A f \in Emails : f \notin shaken' => LinksOf(f) \subseteq LinksOf(f)'
  <2>1. CASE s = "link"
    <3>1. PICK i \in Identities : Upsert(i, u)
      BY <1>0, <1>1, <1>2, <2>1 DEF LinkSigned
    <3>2. i \in LinksOf(u)'
      BY <3>1, UpsertTakesOver
    <3>. QED
      BY <3>1, <3>2, UpsertTakesOver
  <2>2. CASE s # "link"
    BY <1>2, <2>2 DEF LinksOf
  <2>. QED
    BY <2>1, <2>2
<1>4. /\ \A v \in Workers \ {w} : req'[v] = req[v]
      /\ req'[w].user = R.user /\ req'[w].left = R.left \ {s} /\ req'[w].kind = R.kind
      /\ R.left # {s} => req'[w].pc = "complete"
      /\ req'[w].pc \in {"complete", "mail", "session"}
  BY <1>1, <1>2 DEF Rest, Request
<1>5. ASSUME NEW e \in Emails
      PROVE  /\ Completing(e, "link") => Completing(e, "link")' \/ (LinksOf(e) # {})'
             /\ Completing(e, "seed") => Completing(e, "seed")' \/ user'[e].seeded
  <2>1. ASSUME NEW x \in {"link", "seed"}, Completing(e, x) PROVE Completing(e, x)' \/ (x = s /\ e = u)
    <3>1. PICK v \in Workers : req[v].pc = "complete" /\ req[v].user = e /\ x \in req[v].left
      BY <2>1 DEF Completing
    <3>2. CASE v # w
      BY <1>4, <3>1, <3>2 DEF Completing
    <3>3. CASE v = w /\ x # s
      BY <1>4, <3>1, <3>3 DEF Completing
    <3>. QED
      BY <1>0, <3>1, <3>2, <3>3
  <2>2. (s = "seed") => user'[u].seeded
    BY <1>0, <1>2
  <2>. QED
    BY <1>3, <2>1, <2>2
<1>6. \A v \in Workers : Unlinking(v)' => Unlinking(v) /\ req'[v] = req[v]
  BY <1>1, <1>4 DEF Unlinking, At
<1>7. \A e \in Emails : user[e].state = "none" => ~Active(e)'
  <2>1. Serve(w) /\ ~CreateUser(w) /\ ~CreateOAuthUser(w)
    BY <1>1 DEF Serve, CreateUser, CreateOAuthUser, At
  <2>. QED
    BY <2>1, OnlyInsertsMake DEF Active
<1>. QED
  BY <1>3, <1>5, <1>6, <1>7, AccountStep

LEMMA InsertKeepsAccount ==
  ASSUME RequestInv, AccountInv, \A e \in Emails : UserStays(e), NEW w \in Workers,
         CreateUser(w) \/ CreateOAuthUser(w)
  PROVE  AccountInv'
<1>. DEFINE R == req[w]
<1>1. /\ R \in Request /\ R.user \in Emails /\ R.pc = "create" /\ R.kind \in {"register", "signup"}
      /\ req \in [Workers -> Request] /\ user \in [Emails -> User]
  BY RequestIsWellFormed DEF CreateUser, CreateOAuthUser, At, AskedOf, TokenKinds, RequestInv, IdentityTypes
<1>2. link' = link /\ shaken' = shaken
  BY DEF CreateUser, CreateOAuthUser, NoHistory, history
<1>3. CASE Ends(w) /\ UNCHANGED user
  <2>1. req' = [req EXCEPT ![w] = Idle] /\ ~(Idle.kind = "unlink" /\ Idle.pc = "delete")
    BY <1>3, IdleIsRequest DEF Ends
  <2>. QED
    BY <1>1, <1>2, <1>3, <2>1, AsideStep
<1>4. CASE ~(Ends(w) /\ UNCHANGED user)
  <2>1. PICK row, rest : /\ Insert(w, row, rest) /\ "seed" \in rest
                         /\ row.password \/ "link" \in rest
    <3>1. \A row : row = [NoUser EXCEPT !.state = "active", !.password = TRUE] => row.password
      BY DEF NoUser
    <3>. QED
      BY <3>1 DEF CreateUser, CreateOAuthUser
  <2>2. /\ user' = [user EXCEPT ![R.user] = row]
        /\ req' = [req EXCEPT ![w].pc = "complete", ![w].left = rest]
    BY <1>4, <2>1 DEF Insert
  <2>3. /\ \A v \in Workers \ {w} : req'[v] = req[v]
        /\ req'[w].user = R.user /\ req'[w].left = rest /\ req'[w].pc = "complete"
    BY <1>1, <2>2 DEF Request
  <2>4. \A e \in Emails : user[e].state = "none" /\ Active(e)' =>
           /\ user'[e].password \/ Completing(e, "link")'
           /\ Completing(e, "seed")'
    <3>0. PICK u \in Emails : u = R.user
      BY <1>1
    <3>1. /\ user'[u] = row
          /\ \A e \in Emails \ {u} : user'[e] = user[e]
      BY <1>1, <2>2, <3>0
    <3>2. Completing(u, "seed")' /\ ("link" \in rest => Completing(u, "link")')
      BY <2>1, <2>3, <3>0 DEF Completing
    <3>. QED
      BY <2>1, <3>1, <3>2 DEF Active
  <2>5. \A e, s : Completing(e, s) => Completing(e, s)'
    BY <1>1, <2>3 DEF Completing
  <2>6. \A v \in Workers : Unlinking(v)' => Unlinking(v) /\ req'[v] = req[v]
    BY <2>3 DEF Unlinking, At
  <2>7. \A e : LinksOf(e)' = LinksOf(e)
    BY <1>2 DEF LinksOf
  <2>. QED
    BY <1>2, <2>4, <2>5, <2>6, <2>7, AccountStep
<1>. QED
  BY <1>3, <1>4

(* An account that counted more than one link has one besides any it names. *)
LEMMA CountLinksKeeps ==
  ASSUME RequestInv, AccountInv, \A e \in Emails : UserStays(e), NEW w \in Workers, CountLinks(w)
  PROVE  AccountInv'
<1>1. /\ req[w].kind = "unlink" /\ req[w].pc = "count" /\ req[w].identity \in Identities
      /\ req[w] \in Request /\ UNCHANGED <<user, link, shaken>>
  BY RequestIsWellFormed DEF CountLinks, At, tables, NoHistory, history
<1>2. PICK e \in Emails : e = req[w].user
  BY RequestIsWellFormed DEF CountLinks, At, AskedOf
<1>3. CASE Ends(w)
  <2>1. req' = [req EXCEPT ![w] = Idle] /\ ~(Idle.kind = "unlink" /\ Idle.pc = "delete")
    BY <1>3, IdleIsRequest DEF Ends
  <2>. QED
    BY <1>1, <2>1, AsideStep
<1>4. CASE Active(e) /\ OtherWay(e) /\ Goes(w, "delete")
  <2>1. PICK i \in Identities : i = req[w].identity
    BY <1>1
  <2>2. user[e].password \/ \E j \in LinksOf(e) : j # i
    <3>1. SUFFICES ASSUME Cardinality(LinksOf(e)) > 1, LinksOf(e) \subseteq {i} PROVE FALSE
      BY <1>4 DEF OtherWay
    <3>2. Cardinality({i}) = 1 /\ IsFiniteSet({i})
      BY FS_Singleton
    <3>3. Cardinality(LinksOf(e)) <= 1 /\ Cardinality(LinksOf(e)) \in Nat
      BY <3>1, <3>2, FS_Subset, FS_CardinalityType
    <3>. QED
      BY <3>1, <3>3
  <2>3. /\ req'[w].user = e /\ req'[w].identity = i /\ \A v \in Workers \ {w} : req'[v] = req[v]
        /\ req'[w].pc = "delete"
    BY <1>1, <1>2, <1>4, <2>1 DEF Goes, RequestInv, IdentityTypes, Request
  <2>4. (\A f : LinksOf(f)' = LinksOf(f)) /\ (\A f : Active(f)' = Active(f))
    BY <1>1 DEF LinksOf, Active
  <2>5. Spared(w)'
    <3>1. user'[e].state # "none" /\ (user'[e].password \/ \E j \in LinksOf(e)' : j # i)
      BY <1>1, <1>4, <2>2, <2>4 DEF Active
    <3>. QED
      BY <2>3, <3>1 DEF Spared
  <2>6. \A f, s : Completing(f, s) => Completing(f, s)'
    BY <1>1, <2>3 DEF Completing
  <2>7. \A v \in Workers : Unlinking(v)' => Spared(v)' \/ (Unlinking(v) /\ req'[v] = req[v])
    BY <2>3, <2>5 DEF Unlinking, At
  <2>8. \A f \in Emails : user[f].state = "none" => ~Active(f)'
    BY <2>4 DEF Active
  <2>. QED
    BY <1>1, <2>4, <2>6, <2>7, <2>8, AccountStep
<1>. QED
  BY <1>2, <1>3, <1>4 DEF CountLinks

LEMMA DeleteLinkKeeps ==
  ASSUME RequestInv, AccountInv, \A e \in Emails : UserStays(e), NEW w \in Workers, DeleteLink(w)
  PROVE  AccountInv'
<1>1. PICK i \in Identities : i = req[w].identity
  BY RequestIsWellFormed DEF DeleteLink, At
<1>2. PICK e \in Emails : e = req[w].user
  BY RequestIsWellFormed DEF DeleteLink, At, AskedOf
<1>3. PICK owner : owner = link[i].user
  OBVIOUS
<1>4. /\ Unlinking(w) /\ user' = user /\ Ends(w)
      /\ link' = [link EXCEPT ![i].live = FALSE]
      /\ shaken' = IF owner # e \/ \E v \in Workers \ {w} : Unlinking(v) /\ req[v].user = owner
                   THEN shaken \union {owner} ELSE shaken
  BY <1>1, <1>2, <1>3 DEF DeleteLink, Unlinking
<1>5. \A f \in Emails : f # owner => LinksOf(f)' = LinksOf(f)
  <2>1. /\ \A j \in Identities \ {i} : link'[j] = link[j]
        /\ ~link'[i].live
    BY <1>4 DEF RequestInv, IdentityTypes, Link
  <2>. QED
    BY <1>1, <1>3, <2>1 DEF LinksOf
<1>6. \A f \in Emails : \A j \in LinksOf(f) : j # i => j \in LinksOf(f)'
  BY <1>4 DEF LinksOf, RequestInv, IdentityTypes
<1>7. /\ req'[w] = Idle /\ \A v \in Workers \ {w} : req'[v] = req[v]
      /\ ~Unlinking(w)' /\ req[w].pc # "complete"
  BY <1>4, IdleIsRequest DEF Ends, Unlinking, At, RequestInv, IdentityTypes
<1>8. \A f, s : Completing(f, s) => Completing(f, s)'
  BY <1>7 DEF Completing
<1>9. ASSUME NEW f \in Emails, Active(f)', f \notin shaken'
      PROVE  /\ user'[f].password \/ (LinksOf(f) # {})' \/ Completing(f, "link")'
             /\ user'[f].seeded \/ Completing(f, "seed")'
  <2>1. /\ user[f].password \/ LinksOf(f) # {} \/ Completing(f, "link")
        /\ user[f].seeded \/ Completing(f, "seed")
    BY <1>4, <1>9 DEF AccountInv, Active
  <2>2. CASE f # owner
    BY <1>4, <1>5, <1>8, <2>1, <2>2
  <2>3. CASE f = owner
    <3>1. f = e /\ e \notin shaken
      BY <1>4, <1>9, <2>3
    <3>2. user[e].password \/ \E j \in LinksOf(e) : j # i
      BY <1>1, <1>2, <1>4, <3>1 DEF AccountInv
    <3>. QED
      BY <1>4, <1>6, <1>8, <2>1, <3>1, <3>2
  <2>. QED
    BY <2>2, <2>3
<1>10. ASSUME NEW v \in Workers, Unlinking(v)' PROVE Spared(v)'
  <2>1. v # w /\ req'[v] = req[v] /\ Unlinking(v)
    BY <1>7, <1>10 DEF Unlinking, At
  <2>2. PICK f \in Emails : f = req[v].user
    BY <2>1, RequestIsWellFormed DEF Unlinking, At, AskedOf
  <2>3. /\ user[f].state # "none"
        /\ f \notin shaken => user[f].password \/ \E j \in LinksOf(f) : j # req[v].identity
    BY <2>1, <2>2 DEF AccountInv
  <2>4. f \notin shaken' => f \notin shaken /\ f # owner
    BY <1>4, <2>1, <2>2
  <2>5. f \notin shaken' => user'[f].password \/ \E j \in LinksOf(f)' : j # req[v].identity
    BY <1>4, <1>5, <2>3, <2>4
  <2>. QED
    BY <1>4, <2>1, <2>2, <2>3, <2>5 DEF Spared
<1>. QED
  BY <1>9, <1>10 DEF AccountInv, Spared

LEMMA InitAccountInv == Init => AccountInv
<1>. SUFFICES ASSUME Init PROVE AccountInv
  OBVIOUS
<1>1. ASSUME NEW e \in Emails, Active(e) PROVE (user[e].password \/ LinksOf(e) # {}) /\ user[e].seeded
  <2>1. user[e] \in {NoUser, Registered, Verified, Social} /\ (user[e] = Social => LinksOf(e) # {})
    BY DEF Init
  <2>2. NoUser.state = "none" /\ Registered.password /\ Registered.seeded
    BY DEF NoUser, Registered
  <2>3. Verified.password /\ Verified.seeded
    BY DEF NoUser, Registered, Verified
  <2>4. Social.seeded
    BY DEF NoUser, Registered, Verified, Social
  <2>. QED
    BY <1>1, <2>1, <2>2, <2>3, <2>4 DEF Active
<1>2. \A w \in Workers : ~Unlinking(w)
  BY IdleIsRequest DEF Init, Unlinking, At
<1>. QED
  BY <1>1, <1>2 DEF AccountInv

LEMMA StepKeepsAccountInv == RequestInv /\ AccountInv /\ [Next]_vars => AccountInv'
<1>. SUFFICES ASSUME RequestInv, AccountInv, [Next]_vars PROVE AccountInv'
  OBVIOUS
<1>1. \A e \in Emails : UserStays(e)
  BY UsersStay
<1>2. ASSUME NEW w \in Workers, Ask(w) PROVE AccountInv'
  <2>1. req[w] = Idle /\ UNCHANGED tables /\ UNCHANGED history
    BY <1>2 DEF Ask, Register, Resend, Forgot, Login, Redeem, Callback, Unlink, Asks, Begins
  <2>2. ASSUME NEW q, req' = [req EXCEPT ![w] = q], q.pc # "delete" PROVE AccountInv'
    <3>1. user' = user /\ link' = link /\ shaken' = shaken /\ req[w].pc # "complete"
      BY <2>1, IdleIsRequest DEF tables, history
    <3>. QED
      BY <1>1, <2>2, <3>1, AsideStep
  <2>3. ASSUME NEW kind, NEW pc, NEW e, NEW i, NEW t, Asks(w, kind, pc, e, i, t), pc # "delete" PROVE AccountInv'
    <3>1. PICK q : /\ q = [Idle EXCEPT !.kind = kind, !.pc = pc, !.user = e, !.identity = i, !.token = t]
                   /\ req' = [req EXCEPT ![w] = q]
      BY <2>3 DEF Asks, Begins
    <3>2. q.pc = pc
      BY <3>1 DEF Idle
    <3>. QED
      BY <2>2, <2>3, <3>1, <3>2
  <2>4. ASSUME NEW e \in Emails, Login(w, e) PROVE AccountInv'
    <3>1. PICK q : q = [Idle EXCEPT !.kind = "login", !.pc = "verify", !.user = e] /\ req' = [req EXCEPT ![w] = q]
      BY <2>4 DEF Login, Begins
    <3>2. q.pc = "verify"
      BY <3>1 DEF Idle
    <3>. QED
      BY <2>2, <3>1, <3>2
  <2>5. CASE \/ \E e \in Emails : Register(w, e) \/ Resend(w, e) \/ Forgot(w, e)
             \/ \E t \in Tokens : Redeem(w, t)
             \/ \E i \in Identities, e \in Emails \union {None} : Callback(w, i, e)
             \/ \E e \in Emails, i \in Identities : Unlink(w, e, i)
    BY <2>3, <2>5 DEF Register, Resend, Forgot, Redeem, Callback, Unlink
  <2>. QED
    BY <1>2, <2>4, <2>5 DEF Ask
<1>3. ASSUME NEW w \in Workers, Serve(w) PROVE AccountInv'
  <2>1. CASE LinkByEmail(w)
    BY <1>1, <2>1, LinkByEmailKeeps
  <2>2. CASE LinkSigned(w) \/ MarkSigned(w) \/ Seed(w)
    BY <1>1, <2>2, RestKeepsAccount
  <2>3. CASE CreateUser(w) \/ CreateOAuthUser(w)
    BY <1>1, <2>3, InsertKeepsAccount
  <2>4. CASE CountLinks(w)
    BY <1>1, <2>4, CountLinksKeeps
  <2>5. CASE DeleteLink(w)
    BY <1>1, <2>5, DeleteLinkKeeps
  <2>6. CASE \/ FindUser(w) \/ SendMail(w) \/ (\E right \in BOOLEAN : VerifyPassword(w, right))
             \/ CheckToken(w) \/ MarkVerified(w) \/ MarkUsed(w) \/ ResetPassword(w) \/ Exchange(w)
             \/ FindLink(w) \/ FindOwner(w) \/ MatchEmail(w) \/ CreatePending(w) \/ CreateTicket(w)
             \/ FindClaimed(w) \/ OpenSession(w)
    <3>1. /\ req[w].pc # "complete" /\ req[w].pc # "create" /\ req[w].kind # "unlink" /\ link' = link /\ shaken' = shaken
      BY <2>6, RequestIsWellFormed DEF Shape, At, tables, NoHistory, history, FindUser, SendMail, VerifyPassword, CheckToken,
         MarkVerified, MarkUsed, ResetPassword, Exchange, FindLink, FindOwner, MatchEmail, CreatePending,
         CreateTicket, FindClaimed, OpenSession
    <3>2. ~CreateUser(w) /\ ~CreateOAuthUser(w)
      BY <3>1 DEF CreateUser, CreateOAuthUser, At
    <3>3. PICK q : req' = [req EXCEPT ![w] = q] /\ (q = Idle \/ Continues(q, req[w]))
      BY <1>3, ServeMoves
    <3>4. q.kind # "unlink"
      BY <3>1, <3>3, IdleIsRequest DEF Continues
    <3>. QED
      BY <1>1, <1>3, <3>1, <3>2, <3>3, <3>4, OnlyInsertsMake, AsideStep
  <2>. QED
    BY <1>3, <2>1, <2>2, <2>3, <2>4, <2>5, <2>6 DEF Serve
<1>4. ASSUME NEW w \in Workers, Lose(w) PROVE AccountInv'
  BY <1>1, <1>4, IdleIsRequest, AsideStep DEF Lose, Ends, tables
<1>5. CASE (\E e \in Emails : DeleteMe(e)) \/ (\E t \in Tokens : Expire(t)) \/ Tick \/ UNCHANGED vars
  <2>1. req' = req /\ link' = link /\ shaken' = shaken
    BY <1>5 DEF DeleteMe, Expire, Tick, vars, tables, history
  <2>2. \A e \in Emails : user[e].state = "none" => ~Active(e)'
    <3>1. user' = user \/ \E e \in Emails : DeleteMe(e)
      BY <1>5 DEF Expire, Tick, vars, tables
    <3>. QED
      BY <3>1 DEF DeleteMe, Active, RequestInv, IdentityTypes, User
  <2>3. /\ \A e : LinksOf(e)' = LinksOf(e)
        /\ \A e, s : Completing(e, s)' = Completing(e, s)
        /\ \A v \in Workers : Unlinking(v)' = Unlinking(v)
    BY <2>1 DEF LinksOf, Completing, Unlinking, At
  <2>. QED
    BY <1>1, <2>1, <2>2, <2>3, AccountStep
<1>. QED
  BY <1>2, <1>3, <1>4, <1>5 DEF Next

(* AccountWhole for any number of users and of requests at the same time.  *)
THEOREM AccountsStayWhole == Spec => []AccountWhole
<1>1. AccountInv => AccountWhole
  BY DEF AccountInv, AccountWhole, Completing, BeingMade
<1>. QED
  BY <1>1, InitAccountInv, StepKeepsAccountInv, RequestInvHolds, PTL DEF Spec

=============================================================================
