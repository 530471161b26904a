------------------------------ MODULE Offline ------------------------------
(***************************************************************************)
(* The service worker of the web application (`sw.js`): GET requests are   *)
(* answered by the server and kept, encrypted, or answered from what was   *)
(* kept when the network fails.  One browser, one person after another.    *)
(* A key is named by the visit that made it; what an answer says is left   *)
(* out: it is told apart by the person it is for.                          *)
(***************************************************************************)
EXTENDS Naturals, FiniteSets

CONSTANTS
  People, Nobody,
  Paths,        \* the routes of CACHEABLE_PATH_PREFIXES
  MaxVisits,    \* bound: GET requests of the pages
  MaxMoves      \* bound: logins, ends of sessions, changes of the network

ASSUME OfflineAssumption == {MaxVisits, MaxMoves} \subseteq Nat /\ Nobody \notin People

VARIABLES
  person,       \* whose session the pages have
  online,
  shelf,        \* the cache CACHE_NAME: path -> the encrypted answer
  key,          \* the CryptoKey in IndexedDB
  visit,        \* fetch events of the service worker
  purge,        \* what the purge message has still to delete
  moves,
  gone,         \* history: people who left and whose answers were not purged since
  ruined        \* history: keys that were deleted, or overwritten by another first key

offVars == <<person, online, shelf, key, visit, purge, moves, gone, ruined>>

-----------------------------------------------------------------------------
Visits == 1..MaxVisits

NoKey == 0

NoAnswer == [of |-> Nobody, key |-> NoKey]

(* at: the step that comes next; doomed: the cache it opened was deleted,  *)
(* and nobody else sees what it puts there; answer: of the server, or      *)
(* taken from the shelf (kept).                                            *)
NoVisit == [at |-> "none", path |-> CHOOSE p \in Paths : TRUE, by |-> Nobody,
            doomed |-> FALSE, kept |-> FALSE, answer |-> NoAnswer, key |-> NoKey]

Moves == moves < MaxMoves /\ moves' = moves + 1

Steps(v, changes) == visit' = [visit EXCEPT ![v] = changes]

Ends(v) == Steps(v, [NoVisit EXCEPT !.at = "done"])

Fetch(v, p) ==
  /\ visit[v].at = "none" /\ \A u \in 1..v - 1 : visit[u].at # "none"
  /\ person # Nobody
  /\ Steps(v, [NoVisit EXCEPT !.at = "fetch", !.path = p, !.by = person])
  /\ UNCHANGED <<person, online, shelf, key, purge, moves, gone, ruined>>

(* An answer that is not ok is passed on and never kept. *)
Answered(v) ==
  /\ visit[v].at = "fetch" /\ online
  /\ Ends(v) \/ Steps(v, [visit[v] EXCEPT !.at = "key", !.answer.of = visit[v].by])
  /\ UNCHANGED <<person, online, shelf, key, purge, moves, gone, ruined>>

Seen(v) == IF visit[v].doomed THEN NoAnswer ELSE shelf[visit[v].path]

(* catch: the network failed, or the answer could not be kept, and the     *)
(* page gets what was kept before; nothing, or nothing of 7 days, is an    *)
(* error.                                                                  *)
FallsBack(v) ==
  /\ visit[v].at \in {"fetch", "keep"} /\ (visit[v].at = "fetch" => ~online)
  /\ \/ Ends(v)
     \/ /\ Seen(v) # NoAnswer
        /\ Steps(v, [visit[v] EXCEPT !.at = "key", !.kept = TRUE, !.answer = Seen(v)])
  /\ UNCHANGED <<person, online, shelf, key, purge, moves, gone, ruined>>

(* getOrCreateKey(): the look, and the put, in two transactions. *)
After(v) == IF visit[v].kept THEN "read" ELSE "keep"

FindKey(v) ==
  /\ visit[v].at = "key"
  /\ Steps(v, [visit[v] EXCEPT !.at = IF key = NoKey THEN "make" ELSE After(v), !.key = key])
  /\ UNCHANGED <<person, online, shelf, key, purge, moves, gone, ruined>>

MakeKey(v) ==
  /\ visit[v].at = "make"
  /\ key' = v
  /\ ruined' = ruined \union ({key} \ {NoKey})
  /\ Steps(v, [visit[v] EXCEPT !.at = After(v), !.key = v])
  /\ UNCHANGED <<person, online, shelf, purge, moves, gone>>

(* putEncrypted() *)
KeepAnswer(v) ==
  /\ visit[v].at = "keep"
  /\ shelf' = IF visit[v].doomed THEN shelf
              ELSE [shelf EXCEPT ![visit[v].path] = [visit[v].answer EXCEPT !.key = visit[v].key]]
  /\ Ends(v)
  /\ UNCHANGED <<person, online, key, purge, moves, gone, ruined>>

(* readDecrypted(): a key that does not fit is "treated as absent". *)
Opens(v) == visit[v].key = visit[v].answer.key

Read(v) ==
  /\ visit[v].at = "read"
  /\ Ends(v)
  /\ UNCHANGED <<person, online, shelf, key, purge, moves, gone, ruined>>

-----------------------------------------------------------------------------
(* The person.  Whoever was there leaves, without a purge. *)

Leaves == gone' = gone \union ({person} \ {Nobody})

LogIn(u) ==
  /\ Moves /\ online /\ u # person
  /\ person' = u /\ Leaves
  /\ UNCHANGED <<online, shelf, key, visit, purge, ruined>>

(* onLogout() of AppShell purges nothing, nor does a refresh that fails. *)
LogOut ==
  /\ Moves /\ person # Nobody
  /\ person' = Nobody /\ Leaves
  /\ UNCHANGED <<online, shelf, key, visit, purge, ruined>>

Everything == {"cache", "key"}

(* Five wrong PINs: the message to the service worker, and the session. *)
LockOut ==
  /\ Moves /\ person # Nobody
  /\ person' = Nobody /\ Leaves
  /\ purge' = Everything
  /\ UNCHANGED <<online, shelf, key, visit, ruined>>

(* onDeleteAccount() stays on the page, whose access token is still good.  *)
DeleteAccount ==
  /\ Moves /\ person # Nobody /\ online
  /\ purge' = Everything
  /\ UNCHANGED <<person, online, shelf, key, visit, gone, ruined>>

Switch ==
  /\ Moves /\ online' = ~online
  /\ UNCHANGED <<person, shelf, key, visit, purge, gone, ruined>>

(* purge-cache: both are deleted, in any order. *)
Untouched(s) == s

Cleared(s) == [p \in Paths |-> NoAnswer]

PurgeCache ==
  /\ "cache" \in purge /\ purge' = purge \ {"cache"}
  /\ shelf' = Cleared(shelf) /\ gone' = {}
  /\ visit' = [v \in Visits |-> [visit[v] EXCEPT !.doomed = visit[v].at \notin {"none", "done"}]]
  /\ UNCHANGED <<person, online, key, moves, ruined>>

PurgeKey ==
  /\ "key" \in purge /\ purge' = purge \ {"key"}
  /\ key' = NoKey /\ ruined' = ruined \union ({key} \ {NoKey})
  /\ UNCHANGED <<person, online, shelf, visit, moves, gone>>

-----------------------------------------------------------------------------
OffInit ==
  /\ person = CHOOSE u \in People : TRUE
  /\ online = TRUE
  /\ shelf = [p \in Paths |-> NoAnswer] /\ key = NoKey
  /\ visit = [v \in Visits |-> NoVisit]
  /\ purge = {} /\ moves = 0 /\ gone = {} /\ ruined = {}

OffNext ==
  \/ \E v \in Visits :
       \/ \E p \in Paths : Fetch(v, p)
       \/ Answered(v) \/ FallsBack(v) \/ FindKey(v) \/ MakeKey(v) \/ KeepAnswer(v) \/ Read(v)
  \/ \E u \in People : LogIn(u)
  \/ LogOut \/ LockOut \/ DeleteAccount \/ Switch \/ PurgeCache \/ PurgeKey

-----------------------------------------------------------------------------
(* Properties *)

(* ADR-0008: what is taken from the cache is for the person who looks,     *)
(* unless its person left and the cache was not purged since (RG-OF3       *)
(* promises that it is; AppShell never does it); and it can be read,       *)
(* unless its key was deleted meanwhile or overwritten: two first visits   *)
(* that both find no key keep their answers under two keys, of which one   *)
(* stays.                                                                  *)
OfflineReads ==
  [][\A v \in Visits :
       /\ FallsBack(v) /\ visit'[v].at = "key" /\ visit[v].by = person =>
            Seen(v).of \in {person} \union gone
       /\ Read(v) => Opens(v) \/ visit[v].answer.key \in ruined]_offVars

=============================================================================
