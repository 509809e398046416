------------------------------- MODULE Accounts -------------------------------
(***************************************************************************)
(* Accounts and their sessions (auth/service.py, users/service.py, and the *)
(* repositories in db/task3_repositories.py): codes sent by mail, first    *)
(* logins, passwords, WeChat logins, refresh and logout, an address bound  *)
(* to an account, accounts merged, and accounts deleted.                   *)
(*                                                                         *)
(* A request of these modules is no transaction: each call of the          *)
(* repository opens its own, and what the request read before is written   *)
(* back or relied on after other requests ran.  A request is therefore a   *)
(* process with a program counter, and each action is one transaction, or  *)
(* what a transaction reads without a lock before it writes.               *)
(* Consents, rate limits and the age of sessions are left out: they only   *)
(* refuse requests.                                                        *)
(***************************************************************************)
EXTENDS Naturals, Sequences, FiniteSets

CONSTANTS
  Users,       \* the ids of user rows
  Emails,      \* addresses
  WeChat,      \* the WeChat subject
  Requests,    \* requests that are served at the same time
  None,
  MaxSessions, MaxRequests  \* bounds on the sessions and on the requests that are served

ASSUME AccountsAssumption ==
  /\ IsFiniteSet(Users) /\ None \notin Users \cup Emails
  /\ WeChat \notin Emails
  /\ MaxSessions \in Nat /\ MaxRequests \in Nat

VARIABLES
  users,      \* User rows: [status, email, password]; status "none" before the insert
  aliases,    \* UserAlias rows: the account a merged one stands for, or None
  identities, \* UserIdentity rows: the owner of an address or WeChat subject, or None
  codes,      \* the addresses with a challenge that is not used and not expired
  sessions,   \* Session rows: [owner, revoked]
  requests,   \* what each request has read: [pc, op, subject, who, user, session, owner, owners]
  deletions,  \* the account_deletion task of each account: "none", "queued" or "ended"
  overwritten, \* the accounts whose row was saved over a newer one, by bind_email
  served,     \* how many requests were begun
  crossed     \* whether an account was merged that another bind_email still relied on

accountVars ==
  <<users, aliases, identities, codes, sessions, requests, deletions, overwritten, crossed, served>>

Statuses == {"none", "active", "merged", "pending_deletion", "deleted", "gone"}
NoUser   == [status |-> "none", email |-> None, password |-> None]
UserRow  == [status : Statuses, email : Emails \cup {None}, password : Requests \cup {None}]
Idle     == [pc |-> "idle", op |-> "none", subject |-> None, who |-> None,
             user |-> NoUser, session |-> None, owner |-> None, owners |-> {}]

\* UserAlias: unique by the account that was merged; UserIdentity: by type and subject.
AliasRows    == [Users -> Users \cup {None}]
IdentityRows == [Emails \cup {WeChat} -> Users \cup {None}]
SessionRow   == [owner : Users, revoked : BOOLEAN]

-------------------------------------------------------------------------------
(* db/ownership.py *)

\* v stands at the end of the aliases that begin at u: it is in every set of accounts that
\* holds u and the account each member stands for.
EndOf(u, v) ==
  /\ aliases[v] = None
  /\ \A S \in SUBSET Users :
       u \in S /\ (\A w \in S : aliases[w] \in S \cup {None}) => v \in S

\* canonical_user_id: an error, here None, when the aliases run in a circle.
Canonical(u) ==
  IF \E v \in Users : EndOf(u, v) THEN CHOOSE v \in Users : EndOf(u, v) ELSE None

OwnerIds(u) == {v \in Users : Canonical(v) = u}   \* authorized_owner_ids

(* Queries of the repository *)

ByEmail(e)    == {u \in Users : users[u].email = e}
FindByEmail(e) ==
  IF ByEmail(e) = {} THEN None ELSE CHOOSE u \in ByEmail(e) : TRUE

\* authenticate: the account a token stands for, or None.
Authenticated(s) ==
  LET u == Canonical(sessions[s].owner) IN
  IF ~sessions[s].revoked /\ u # None /\ users[u].status = "active" THEN u ELSE None

\* A row that another row may refer to.
Exists(u) == users[u].status \notin {"none", "gone"}

\* The unique index of users.email_lookup_hash, for an insert (u = None) or an update.
Taken(e, u) == ByEmail(e) \ {u} # {}

Row(u) == IF u = None THEN NoUser ELSE users[u]

\* A request begins with what it reads.
Ask(r, pc, op, subject, who, session) ==
  /\ requests[r].pc = "idle"
  /\ served < MaxRequests
  /\ served' = served + 1
  /\ requests' = [requests EXCEPT ![r] =
       [pc |-> pc, op |-> op, subject |-> subject, who |-> who, user |-> Row(who),
        session |-> session, owner |-> None, owners |-> {}]]

Step(r, pc) == requests' = [requests EXCEPT ![r].pc = pc]
End(r)      == requests' = [requests EXCEPT ![r] = Idle]
At(r, pc, ops) == requests[r].pc = pc /\ requests[r].op \in ops

-------------------------------------------------------------------------------
(* Codes *)

\* start_email, when the mail is sent.
StartEmail(e) ==
  /\ codes' = codes \cup {e}
  /\ UNCHANGED <<users, aliases, identities, sessions, requests, deletions, overwritten, crossed, served>>

\* start_email, when it is not, which takes back an earlier code as well; or OTP_TTL.
CodeIsGone(e) ==
  /\ e \in codes
  /\ codes' = codes \ {e}
  /\ UNCHANGED <<users, aliases, identities, sessions, requests, deletions, overwritten, crossed, served>>

-------------------------------------------------------------------------------
(* Logins *)

\* _verify_code reads the challenge and the account of the address; the code is not used up.
ReadByCode(r, op, e) ==
  /\ e \in codes
  /\ Ask(r, "read", op, e, FindByEmail(e), None)
  /\ UNCHANGED <<users, aliases, identities, codes, sessions, deletions, overwritten, crossed>>

\* login_password, with the right password.
ReadByPassword(r, e) ==
  LET u == FindByEmail(e) IN
  /\ u # None /\ users[u].password # None /\ users[u].status = "active"
  /\ Ask(r, "known", "password", e, u, None)
  /\ UNCHANGED <<users, aliases, identities, codes, sessions, deletions, overwritten, crossed>>

\* login_wechat finds the owner of the subject.
ReadByWeChat(r) ==
  /\ Ask(r, "read", "wechat", WeChat, identities[WeChat], None)
  /\ UNCHANGED <<users, aliases, identities, codes, sessions, deletions, overwritten, crossed>>

\* create_user_with_identity_and_consents; the unique indexes refuse a second account.
InsertAccount(r, email) ==
  LET q == requests[r] IN
  /\ q.who = None
  /\ IF identities[q.subject] # None \/ (email # None /\ Taken(email, None))
     THEN End(r) /\ UNCHANGED <<users, identities>>
     ELSE \E u \in {v \in Users : users[v].status = "none"} :
            /\ users' = [users EXCEPT ![u] =
                 [status |-> "active", email |-> email,
                  password |-> IF q.op = "register" THEN r ELSE None]]
            /\ identities' = [identities EXCEPT ![q.subject] = u]
            /\ requests' = [requests EXCEPT ![r].pc = "known", ![r].who = u]
  /\ UNCHANGED <<aliases, codes, sessions, deletions, overwritten, crossed, served>>

\* An account that was found is entered by the status that was read.
PassByStatus(r) ==
  /\ requests[r].who # None
  /\ IF requests[r].user.status = "active" THEN Step(r, "known") ELSE End(r)
  /\ UNCHANGED <<users, aliases, identities, codes, sessions, deletions, overwritten, crossed, served>>

\* create_email_user
CreateAccount(r) ==
  /\ At(r, "read", {"verify", "register"})
  /\ InsertAccount(r, requests[r].subject)

\* verify_email
EnterAccount(r) == At(r, "read", {"verify"}) /\ PassByStatus(r)

\* login_wechat; an account it creates has no address.
LoginWeChat(r) ==
  /\ At(r, "read", {"wechat"})
  /\ InsertAccount(r, None) \/ PassByStatus(r)

\* Fault: the row is not looked at again.
AsRead(r) == TRUE

\* set_password_if_missing looks at the row again.
StillMissing(r) == Exists(requests[r].who) /\ users[requests[r].who].password = None

\* register_password of an account without a password.
SetPassword(r) ==
  LET q == requests[r] IN
  /\ At(r, "read", {"register"})
  /\ q.who # None
  /\ IF q.user.status = "active" /\ q.user.password = None /\ StillMissing(r)
     THEN users' = [users EXCEPT ![q.who].password = r] /\ Step(r, "known")
     ELSE UNCHANGED users /\ End(r)
  /\ UNCHANGED <<aliases, identities, codes, sessions, deletions, overwritten, crossed, served>>

\* consume_challenge, where there is one, and _create_session of an account that is there.
OpenSession(r) ==
  LET q == requests[r] IN
  /\ q.pc = "known"
  /\ Len(sessions) < MaxSessions
  /\ codes' = IF q.op \in {"verify", "register"} THEN codes \ {q.subject} ELSE codes
  /\ sessions' = IF Exists(q.who) THEN Append(sessions, [owner |-> q.who, revoked |-> FALSE])
                 ELSE sessions
  /\ End(r)
  /\ UNCHANGED <<users, aliases, identities, deletions, overwritten, crossed, served>>

-------------------------------------------------------------------------------
(* Sessions *)

\* logout begins with the token.
ReadForLogout(r, s) ==
  /\ Ask(r, "read", "logout", None, None, s)
  /\ UNCHANGED <<users, aliases, identities, codes, sessions, deletions, overwritten, crossed>>

\* refresh authenticates, logs the token out, and opens another session (OpenSession).
ReadByToken(r, s) ==
  /\ Authenticated(s) # None
  /\ Ask(r, "read", "refresh", None, Authenticated(s), s)
  /\ UNCHANGED <<users, aliases, identities, codes, sessions, deletions, overwritten, crossed>>

\* logout returns, to refresh or for good.
LoggedOut(r) == IF requests[r].op = "refresh" THEN Step(r, "known") ELSE End(r)

\* logout finds the session; one that is revoked, or gone, is left alone.
ReadSession(r) ==
  LET s == requests[r].session IN
  /\ At(r, "read", {"refresh", "logout"})
  /\ IF sessions[s].revoked THEN LoggedOut(r)
     ELSE requests' = [requests EXCEPT ![r].pc = "saving", ![r].owner = sessions[s].owner]
  /\ UNCHANGED <<users, aliases, identities, codes, sessions, deletions, overwritten, crossed, served>>

\* save_session writes the whole row as it was found, but revoked: the owner too, which may
\* be an account whose sessions were moved since.  The key of an owner that is gone refuses.
SaveSession(r) ==
  LET q == requests[r] IN
  /\ At(r, "saving", {"refresh", "logout"})
  /\ IF Exists(q.owner)
     THEN /\ sessions' = [sessions EXCEPT ![q.session] = [owner |-> q.owner, revoked |-> TRUE]]
          /\ LoggedOut(r)
     ELSE UNCHANGED sessions /\ End(r)
  /\ UNCHANGED <<users, aliases, identities, codes, deletions, overwritten, crossed, served>>

-------------------------------------------------------------------------------
(* bind_email *)

\* The session, the code, the account of the address (subject) and the own row are read.
ReadForBind(r, s, e) ==
  /\ e \in codes
  /\ Authenticated(s) # None
  /\ Ask(r, "read", "bind", e, Authenticated(s), FindByEmail(e))
  /\ UNCHANGED <<users, aliases, identities, codes, sessions, deletions, overwritten, crossed>>

Other(r) == requests[r].session    \* existing, of a request of bind_email

\* merge_users reads the account to merge into, which it does not lock; an account is not
\* merged into itself (ck_user_alias_not_self).
ReadTarget(r) ==
  LET target == Canonical(Other(r)) IN
  /\ At(r, "read", {"bind"})
  /\ Other(r) \notin {None, requests[r].who}
  /\ IF target \in {None, requests[r].who} THEN End(r)
     ELSE requests' = [requests EXCEPT ![r].pc = "merging", ![r].session = target]
  /\ UNCHANGED <<users, aliases, identities, codes, sessions, deletions, overwritten, crossed, served>>

\* Request p binds an address to the account, or merges another one into it.
ReliesOn(p, u) ==
  \/ At(p, "saved", {"bind"}) /\ requests[p].who = u
  \/ At(p, "merging", {"bind"}) /\ Other(p) = u

\* Fault: identities stay with the account that is merged.
SessionsOnly(source, target) == identities

MovedIdentities(source, target) ==
  [i \in DOMAIN identities |-> IF identities[i] = source THEN target ELSE identities[i]]

\* Fault: the merged account stands for no other.
NotAliased(source, target) == aliases

MergedInto(source, target) == [aliases EXCEPT ![source] = target]

\* What merge_users writes, and consume_challenge; the keys of user_aliases refuse some.
Merge(r) ==
  LET source == requests[r].who
      target == Other(r)
  IN
  /\ At(r, "merging", {"bind"})
  /\ IF aliases[source] # None \/ ~Exists(source) \/ ~Exists(target)
     THEN UNCHANGED <<users, aliases, identities, codes, sessions, crossed>>
     ELSE /\ aliases' = MergedInto(source, target)
          /\ identities' = MovedIdentities(source, target)
          /\ sessions' = [s \in DOMAIN sessions |->
               IF sessions[s].owner = source THEN [sessions[s] EXCEPT !.owner = target]
               ELSE sessions[s]]
          /\ users' = [users EXCEPT ![source].status = "merged"]
          /\ codes' = codes \ {requests[r].subject}
          /\ crossed' = (crossed \/ \E p \in Requests \ {r} : ReliesOn(p, source))
  /\ End(r)
  /\ UNCHANGED <<deletions, overwritten, served>>

\* users.bind_email saves every column of the row that was read, also when the row is gone.
SaveUser(r) ==
  LET q   == requests[r]
      new == [q.user EXCEPT !.email = q.subject]
  IN
  /\ At(r, "read", {"bind"})
  /\ Other(r) \in {None, q.who}
  /\ IF Taken(q.subject, q.who)
     THEN End(r) /\ UNCHANGED <<users, overwritten>>
     ELSE /\ users' = [users EXCEPT ![q.who] = new]
          /\ overwritten' = IF users[q.who] = q.user THEN overwritten ELSE overwritten \cup {q.who}
          /\ Step(r, "saved")
  /\ UNCHANGED <<aliases, identities, codes, sessions, deletions, crossed, served>>

\* save_identity in a transaction of its own: refused if the address has one or the account
\* is gone, and then the code is not consumed.
SaveIdentity(r) ==
  LET q == requests[r] IN
  /\ At(r, "saved", {"bind"})
  /\ IF identities[q.subject] = None /\ Exists(q.who)
     THEN /\ identities' = [identities EXCEPT ![q.subject] = q.who]
          /\ codes' = codes \ {q.subject}
     ELSE UNCHANGED <<identities, codes>>
  /\ End(r)
  /\ UNCHANGED <<users, aliases, sessions, deletions, overwritten, crossed, served>>

-------------------------------------------------------------------------------
(* Deletion *)

\* Fault: sessions are revoked, and the status is left to the worker.
StatusKept(u) == users

MarkedForDeletion(u) == [users EXCEPT ![u].status = "pending_deletion"]

\* The request is authenticated before accept_deletion.
ReadForDeletion(r, s) ==
  /\ Authenticated(s) # None
  /\ Ask(r, "read", "delete", None, Authenticated(s), None)
  /\ UNCHANGED <<users, aliases, identities, codes, sessions, deletions, overwritten, crossed>>

\* accept_deletion reads the account and the ids that stand for it before it locks a row.
ReadOwners(r) ==
  LET owner == Canonical(requests[r].who) IN
  /\ At(r, "read", {"delete"})
  /\ IF owner = None THEN End(r)
     ELSE requests' = [requests EXCEPT ![r].pc = "accepting", ![r].who = owner,
                                       ![r].owners = OwnerIds(owner)]
  /\ UNCHANGED <<users, aliases, identities, codes, sessions, deletions, overwritten, crossed, served>>

\* What accept_deletion writes, whatever became of the account meanwhile, unless it is gone.
AcceptDeletion(r) ==
  LET q == requests[r] IN
  /\ At(r, "accepting", {"delete"})
  /\ IF Exists(q.who)
     THEN /\ deletions' = [deletions EXCEPT ![q.who] = "queued"]
          /\ users' = MarkedForDeletion(q.who)
          /\ sessions' = [t \in DOMAIN sessions |->
               IF sessions[t].owner \in q.owners THEN [sessions[t] EXCEPT !.revoked = TRUE]
               ELSE sessions[t]]
     ELSE UNCHANGED <<users, sessions, deletions>>
  /\ End(r)
  /\ UNCHANGED <<aliases, identities, codes, overwritten, crossed, served>>

\* The last transaction of delete_account, for the account that the owner of the task
\* stands for by then.  The sessions and tasks of its aliases go, here revoked and ended.
DeleteAccount(u) ==
  LET owner  == Canonical(u)
      owners == OwnerIds(owner)
  IN
  /\ deletions[u] = "queued"
  /\ owner # None
  /\ users' = [v \in Users |->
       IF v = owner THEN [NoUser EXCEPT !.status = "deleted"]
       ELSE IF v \in owners THEN [NoUser EXCEPT !.status = "gone"]
       ELSE users[v]]
  /\ identities' = [i \in DOMAIN identities |->
       IF identities[i] \in owners THEN None ELSE identities[i]]
  /\ aliases' = [v \in Users |-> IF v \in owners THEN None ELSE aliases[v]]
  /\ sessions' = [t \in DOMAIN sessions |->
       IF sessions[t].owner \in owners THEN [sessions[t] EXCEPT !.revoked = TRUE]
       ELSE sessions[t]]
  /\ deletions' = [v \in Users |->
       IF v \in owners /\ deletions[v] = "queued" THEN "ended" ELSE deletions[v]]
  /\ UNCHANGED <<codes, requests, overwritten, crossed, served>>

-------------------------------------------------------------------------------
AccountsInit ==
  /\ users = [u \in Users |-> NoUser]
  /\ aliases = [u \in Users |-> None]
  /\ identities = [i \in Emails \cup {WeChat} |-> None]
  /\ codes = {}
  /\ sessions = <<>>
  /\ requests = [r \in Requests |-> Idle]
  /\ deletions = [u \in Users |-> "none"]
  /\ overwritten = {}
  /\ crossed = FALSE
  /\ served = 0

AccountsNext ==
  \/ \E e \in Emails : StartEmail(e) \/ CodeIsGone(e)
  \/ \E r \in Requests :
       \/ \E e \in Emails : \E op \in {"verify", "register"} : ReadByCode(r, op, e)
       \/ \E e \in Emails : ReadByPassword(r, e)
       \/ ReadByWeChat(r)
       \/ CreateAccount(r) \/ EnterAccount(r) \/ LoginWeChat(r) \/ SetPassword(r) \/ OpenSession(r)
       \/ \E s \in DOMAIN sessions :
            \/ ReadByToken(r, s) \/ ReadForLogout(r, s) \/ ReadForDeletion(r, s)
            \/ \E e \in Emails : ReadForBind(r, s, e)
       \/ ReadSession(r) \/ SaveSession(r) \/ ReadOwners(r) \/ AcceptDeletion(r)
       \/ ReadTarget(r) \/ Merge(r) \/ SaveUser(r) \/ SaveIdentity(r)
  \/ \E u \in Users : DeleteAccount(u)

AccountsSpec == AccountsInit /\ [][AccountsNext]_accountVars

-------------------------------------------------------------------------------
(* Properties *)

\* The rows have their types and keys, and references lead to rows that exist: an address
\* belongs to one account, however many requests register or bind it at once.
AccountsTypeOK ==
  /\ users \in [Users -> UserRow]
  /\ aliases \in AliasRows
  /\ identities \in IdentityRows
  /\ sessions \in Seq(SessionRow)
  /\ codes \subseteq Emails
  /\ \A e \in Emails : Cardinality(ByEmail(e)) <= 1
  /\ \A s \in DOMAIN sessions : users[sessions[s].owner].status # "none"

\* From the moment its deletion is accepted nobody enters an account, whatever requests
\* were on their way: logins that read it active, refreshes, merges into it
\* (07-fastapi-business-backend.md:194).  Only bind_email can bring it back, by saving
\* the row it read before (users/service.py:141).
NobodyEntersDeleted ==
  \A s \in DOMAIN sessions, u \in Users :
    Authenticated(s) = u /\ deletions[u] # "none" => u \in overwritten

\* The WeChat subject leads to an account that was not merged away, so that its owner can
\* log in with it: merge_users moves identities.  A binding that is served meanwhile can
\* still leave one behind (users/service.py:148).  Nothing of the kind holds of addresses,
\* which merge_users leaves on the merged row (db/task3_repositories.py:300).
WeChatLeadsHome ==
  crossed \/
    (identities[WeChat] # None => users[identities[WeChat]].status # "merged")

\* Every merged account stands for one that was not merged: chains of merges are followed
\* to their end.  Two accounts that are merged into each other at once form a circle
\* (db/task3_repositories.py:289).
AliasesResolve ==
  crossed \/ \A u \in Users : Canonical(u) # None /\ users[Canonical(u)].status # "merged"

\* An address is of one account, and the WeChat subject and every merged account lead to one
\* that was not merged away.
AccountsConsistent == AccountsTypeOK /\ WeChatLeadsHome /\ AliasesResolve

\* Two registrations with the same code, or one that races a binding, do not replace a
\* password that was set; only the deletion of the account, or a row saved over it, does.
PasswordsKept ==
  [][\A u \in Users :
       users[u].password # None /\ users'[u].password # users[u].password =>
         \/ users'[u].status \in {"deleted", "gone"}
         \/ u \in overwritten']_accountVars

\* The accounts a token is taken to be of: the owner of its row, the owner that a logout on
\* its way writes back, and the account that a refresh opens the next session of.
TokenOwners(s) ==
  {sessions[s].owner} \cup
  {u \in Users : \E r \in Requests :
     /\ requests[r].op \in {"refresh", "logout"} /\ requests[r].session = s
     /\ u \in {requests[r].who, requests[r].owner}}

\* They are all the same account, followed to the end of the aliases: a merge that moves the
\* session between the reads and the writes of logout and refresh, and a logout that moves
\* it back (auth/service.py:801), change neither whose token it is nor whose the next one
\* is.  What is left of a deleted account is none of them, and the accounts that bind_email
\* brings back are excepted (users/service.py:141), as are crossing merges.
TokensKeepTheirAccount ==
  crossed \/ overwritten # {} \/
    \A s \in DOMAIN sessions : \A u, v \in {w \in TokenOwners(s) : Exists(w)} :
      Canonical(u) = Canonical(v)
==============================================================================
