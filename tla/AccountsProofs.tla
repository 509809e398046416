---------------------------- MODULE AccountsProofs ----------------------------
(***************************************************************************)
(* What holds of Accounts for every finite set of accounts, every set of   *)
(* addresses and however many requests are served at once.  A request      *)
(* relies on rows it read in earlier transactions, so the invariant says   *)
(* what of that is still true (RequestFits), and the proof has a lemma for *)
(* each kind of row a transaction changes.                                 *)
(***************************************************************************)
EXTENDS Accounts, FiniteSetTheorems, SequenceTheorems, TLAPS

-------------------------------------------------------------------------------
(* The inductive invariant *)

Operations == {"verify", "register", "password", "wechat", "refresh", "logout", "bind", "delete"}

Counters == {"idle", "read", "known", "saving", "merging", "saved", "accepting"}

RequestRow ==
  [pc : Counters, op : Operations \cup {"none"},
   subject : Emails \cup {WeChat, None}, who : Users \cup {None}, user : UserRow,
   session : Users \cup {None} \cup Nat, owner : Users \cup {None}, owners : SUBSET Users]

Typed ==
  /\ users \in [Users -> UserRow] /\ aliases \in AliasRows /\ identities \in IdentityRows
  /\ sessions \in Seq(SessionRow) /\ codes \subseteq Emails
  /\ requests \in [Requests -> RequestRow]
  /\ deletions \in [Users -> {"none", "queued", "ended"}]
  /\ crossed \in BOOLEAN

\* A row that was not inserted is empty, an address belongs to one account, and a merged
\* account has an alias.
UsersFit ==
  /\ \A u \in Users : users[u].status = "none" => users[u] = NoUser
  /\ \A u, v \in Users : users[u].email # None /\ users[u].email = users[v].email => u = v
  /\ \A u \in Users : users[u].status = "merged" => aliases[u] # None

\* Aliases lead to accounts that were inserted and, unless merges crossed, to an end.
AliasesFit ==
  /\ \A u \in Users : aliases[u] # None => users[aliases[u]].status # "none"
  /\ ~crossed => \A u \in Users : \E v \in Users : EndOf(u, v)

IdentitiesFit ==
  \A i \in Emails \cup {WeChat} :
    identities[i] # None =>
      users[identities[i]].status # "none" /\ (~crossed => users[identities[i]].status # "merged")

SessionsFit == \A s \in 1..Len(sessions) : users[sessions[s].owner].status # "none"

\* What a request may rely on, by where it is, when the tables are us and al and merges
\* crossed or not (cr): the account it read was inserted, a target of a merge is the end
\* of its aliases, and an account that was bound is not merged yet, unless merges crossed.
RequestFits(q, us, al, cr) ==
  /\ q.who # None => us[q.who].status # "none"
  /\ q.owner # None => us[q.owner].status # "none"
  /\ q.pc # "idle" => q.op \in Operations
  /\ q.pc # "idle" /\ q.op \in {"verify", "register", "password", "bind"} => q.subject \in Emails
  /\ q.pc # "idle" /\ q.op = "wechat" => q.subject = WeChat
  /\ q.pc \in {"known", "merging", "saved", "accepting"} => q.who \in Users
  /\ q.pc # "idle" /\ q.op \in {"refresh", "bind", "delete"} => q.who \in Users
  /\ q.pc = "saving" => q.op \in {"refresh", "logout"} /\ q.owner \in Users
  /\ q.pc # "idle" /\ q.op = "bind" =>
       /\ q.user.status = "active"
       /\ q.session # None => q.session \in Users /\ us[q.session].status # "none"
  /\ q.pc = "merging" =>
       q.op = "bind" /\ q.session \in Users \ {q.who} /\ (~cr => al[q.session] = None)
  /\ q.pc = "saved" => q.op = "bind" /\ (~cr => us[q.who].status # "merged")

\* An account whose deletion was accepted is active only if its row was saved over.
DeletionsFit ==
  \A u \in Users :
    deletions[u] # "none" =>
      users[u].status # "none" /\ (users[u].status = "active" => u \in overwritten)

\* A request that serves a token serves the token of a session.
TokensFit ==
  \A r \in Requests :
    requests[r].op \in {"refresh", "logout"} => requests[r].session \in 1..Len(sessions)

AccountsInv ==
  /\ Typed
  /\ UsersFit
  /\ AliasesFit
  /\ IdentitiesFit
  /\ SessionsFit
  /\ \A r \in Requests : RequestFits(requests[r], users, aliases, crossed)
  /\ DeletionsFit

LEMMA Atoms ==
  /\ None \notin Users /\ None \notin Emails /\ WeChat \notin Emails
  /\ IsFiniteSet(Users)
  /\ NoUser \in UserRow /\ NoUser.status = "none" /\ NoUser.email = None /\ NoUser.password = None
BY AccountsAssumption DEF NoUser, UserRow, Statuses

-------------------------------------------------------------------------------
(* The ends of the aliases *)

\* EndOf, of any table of aliases.
Leads(al, u, v) ==
  /\ al[v] = None
  /\ \A S \in SUBSET Users : u \in S /\ (\A w \in S : al[w] \in S \cup {None}) => v \in S

LEMMA EndOfIsLeads == \A u, v : EndOf(u, v) <=> Leads(aliases, u, v)
BY DEF EndOf, Leads

\* An account ends at itself or where the account it stands for ends.
LEMMA OneStep ==
  ASSUME NEW al \in AliasRows, NEW u \in Users, NEW v \in Users
  PROVE  /\ al[u] = None => Leads(al, u, u)
         /\ al[u] # None => (Leads(al, u, v) <=> Leads(al, al[u], v))
<1>1. al[u] = None => Leads(al, u, u)
  BY DEF Leads
<1>2. ASSUME al[u] # None, Leads(al, al[u], v)
      PROVE  Leads(al, u, v)
  <2>1. SUFFICES ASSUME NEW S \in SUBSET Users, u \in S, \A w \in S : al[w] \in S \cup {None}
                 PROVE  v \in S
    BY <1>2 DEF Leads
  <2>2. al[u] \in S
    BY <1>2, <2>1
  <2> QED
    BY <1>2, <2>1, <2>2 DEF Leads
<1>3. ASSUME al[u] # None, Leads(al, u, v)
      PROVE  Leads(al, al[u], v)
  <2>1. al[u] \in Users
    BY <1>3 DEF AliasRows
  <2>2. SUFFICES ASSUME NEW S \in SUBSET Users, al[u] \in S, \A w \in S : al[w] \in S \cup {None}
                 PROVE  v \in S
    BY <1>3 DEF Leads
  <2>3. v \in S \cup {u}
    <3>1. S \cup {u} \in SUBSET Users /\ u \in S \cup {u}
      OBVIOUS
    <3>2. \A w \in S \cup {u} : al[w] \in (S \cup {u}) \cup {None}
      BY <2>2
    <3> QED
      BY <1>3, <3>1, <3>2 DEF Leads
  <2>4. v # u
    BY <1>3 DEF Leads
  <2> QED
    BY <2>3, <2>4
<1> QED
  BY <1>1, <1>2, <1>3

\* Aliases do not end twice: the accounts that lead to v are closed under them, but for
\* what does not lead to v.
LEMMA OneEnd ==
  ASSUME NEW al \in AliasRows, NEW u \in Users, NEW v \in Users, NEW w \in Users,
         Leads(al, u, v), Leads(al, u, w)
  PROVE  v = w
<1> DEFINE S == {x \in Users : Leads(al, x, v)}
<1>1. S \in SUBSET Users /\ u \in S
  OBVIOUS
<1>2. \A x \in S : al[x] \in S \cup {None}
  <2>1. SUFFICES ASSUME NEW x \in S, al[x] # None
                 PROVE  al[x] \in S
    OBVIOUS
  <2>2. al[x] \in Users
    BY <2>1 DEF AliasRows
  <2> QED
    BY <2>1, <2>2, OneStep
<1>3. Leads(al, w, v)
  BY <1>1, <1>2 DEF Leads
<1>4. al[w] = None
  BY DEF Leads
<1>5. {w} \in SUBSET Users /\ w \in {w} /\ \A x \in {w} : al[x] \in {w} \cup {None}
  BY <1>4
<1> QED
  BY <1>3, <1>5 DEF Leads

\* canonical_user_id finds the end if there is one.
LEMMA CanonicalIs ==
  ASSUME Typed, NEW u \in Users
  PROVE  /\ Canonical(u) \in Users \cup {None}
         /\ Canonical(u) # None => Leads(aliases, u, Canonical(u))
         /\ \A v \in Users : Leads(aliases, u, v) => Canonical(u) = v
<1>1. aliases \in AliasRows
  BY DEF Typed
<1>2. CASE \E v \in Users : EndOf(u, v)
  <2>1. Canonical(u) \in Users /\ EndOf(u, Canonical(u))
    BY <1>2 DEF Canonical
  <2> QED
    BY <1>1, <2>1, EndOfIsLeads, OneEnd
<1>3. CASE ~\E v \in Users : EndOf(u, v)
  BY <1>3, EndOfIsLeads DEF Canonical
<1> QED
  BY <1>2, <1>3

\* After a merge of two accounts that stood for themselves, what ended at the source ends at
\* the target.
LEMMA EndsMove ==
  ASSUME NEW al \in AliasRows, NEW s \in Users, NEW t \in Users, s # t,
         al[s] = None, al[t] = None, NEW u \in Users, NEW v \in Users, Leads(al, u, v)
  PROVE  Leads([al EXCEPT ![s] = t], u, IF v = s THEN t ELSE v)
<1> DEFINE bl == [al EXCEPT ![s] = t]
<1>0. bl[s] = t /\ (\A x \in Users \ {s} : bl[x] = al[x])
  BY DEF AliasRows
<1> HIDE DEF bl
<1>1. \A S \in SUBSET Users : u \in S /\ (\A w \in S : bl[w] \in S \cup {None}) => v \in S
  <2>1. SUFFICES ASSUME NEW S \in SUBSET Users, u \in S, \A w \in S : bl[w] \in S \cup {None}
                 PROVE  v \in S
    OBVIOUS
  <2>2. \A w \in S : al[w] \in S \cup {None}
    BY <1>0, <2>1
  <2> QED
    BY <2>1, <2>2 DEF Leads
<1>2. CASE v # s
  <2>1. Leads(bl, u, v)
    BY <1>0, <1>1, <1>2 DEF Leads
  <2> QED
    BY <1>2, <2>1 DEF bl
<1>3. CASE v = s
  <2>1. bl[t] = None
    BY <1>0
  <2>2. \A S \in SUBSET Users : u \in S /\ (\A w \in S : bl[w] \in S \cup {None}) => t \in S
    <3>1. SUFFICES ASSUME NEW S \in SUBSET Users, u \in S, \A w \in S : bl[w] \in S \cup {None}
                   PROVE  t \in S
      OBVIOUS
    <3>2. s \in S /\ t # None
      BY <1>1, <1>3, <3>1, Atoms
    <3> QED
      BY <1>0, <3>1, <3>2
  <2>3. Leads(bl, u, t)
    BY <2>1, <2>2 DEF Leads
  <2> QED
    BY <1>3, <2>3 DEF bl
<1> QED
  BY <1>2, <1>3

\* Every account still has an end after a merge of two accounts that stood for themselves.
LEMMA MergeKeepsEnds ==
  ASSUME NEW al \in AliasRows, NEW s \in Users, NEW t \in Users, s # t,
         al[s] = None, al[t] = None, \A u \in Users : \E v \in Users : Leads(al, u, v)
  PROVE  \A u \in Users : \E v \in Users : Leads([al EXCEPT ![s] = t], u, v)
<1>1. SUFFICES ASSUME NEW u \in Users
               PROVE  \E v \in Users : Leads([al EXCEPT ![s] = t], u, v)
  OBVIOUS
<1>2. PICK v \in Users : Leads(al, u, v)
  OBVIOUS
<1> QED
  BY <1>2, EndsMove

\* When the aliases of all the accounts that led to one are deleted, the others lead to
\* where they led.
LEMMA EndsStay ==
  ASSUME NEW al \in AliasRows, NEW bl \in AliasRows, NEW t \in Users, NEW O \in SUBSET Users,
         \A u \in Users : u \in O <=> Leads(al, u, t),
         \A u \in Users : bl[u] = IF u \in O THEN None ELSE al[u],
         NEW u \in Users, NEW v \in Users, Leads(al, u, v), u \notin O
  PROVE  Leads(bl, u, v)
<1>1. v \notin O
  <2>1. SUFFICES ASSUME v \in O
                 PROVE  FALSE
    OBVIOUS
  <2>2. Leads(al, v, v) /\ Leads(al, v, t)
    BY <2>1, OneStep DEF Leads
  <2>3. v = t
    BY <2>2, OneEnd
  <2> QED
    BY <2>3
<1>2. bl[v] = None
  BY <1>1 DEF Leads
<1>3. ASSUME NEW S \in SUBSET Users, u \in S, \A w \in S : bl[w] \in S \cup {None}
      PROVE  v \in S
  <2>1. S \cup O \in SUBSET Users /\ u \in S \cup O
    BY <1>3
  <2>2. \A w \in S \cup O : al[w] \in (S \cup O) \cup {None}
    <3>1. SUFFICES ASSUME NEW w \in S \cup O, al[w] # None
                   PROVE  al[w] \in S \cup O
      OBVIOUS
    <3>2. CASE w \in O
      <4>1. al[w] \in Users
        BY <3>1 DEF AliasRows
      <4> QED
        BY <3>1, <3>2, <4>1, OneStep
    <3>3. CASE w \notin O
      <4>1. w \in S /\ bl[w] = al[w]
        BY <3>3
      <4> QED
        BY <1>3, <3>1, <4>1
    <3> QED
      BY <3>2, <3>3
  <2>3. v \in S \cup O
    BY <2>1, <2>2 DEF Leads
  <2> QED
    BY <1>1, <2>3
<1> QED
  BY <1>2, <1>3 DEF Leads

\* So every account still has an end.
LEMMA DeletionKeepsEnds ==
  ASSUME NEW al \in AliasRows, NEW bl \in AliasRows, NEW t \in Users, NEW O \in SUBSET Users,
         \A u \in Users : u \in O <=> Leads(al, u, t),
         \A u \in Users : bl[u] = IF u \in O THEN None ELSE al[u],
         \A u \in Users : \E v \in Users : Leads(al, u, v)
  PROVE  \A u \in Users : \E v \in Users : Leads(bl, u, v)
<1>1. SUFFICES ASSUME NEW u \in Users
               PROVE  \E v \in Users : Leads(bl, u, v)
  OBVIOUS
<1>2. CASE u \in O
  BY <1>2, OneStep
<1>3. CASE u \notin O
  BY <1>3, EndsStay
<1> QED
  BY <1>2, <1>3

-------------------------------------------------------------------------------
(* What the steps leave alone *)

\* A request that is left alone may rely on what it relied on: no row goes back to before
\* its insert, and the rest holds for the accounts it names or merges crossed.
LEMMA StillFits ==
  ASSUME NEW q \in RequestRow, NEW us \in [Users -> UserRow], NEW vs \in [Users -> UserRow],
         NEW al \in AliasRows, NEW bl \in AliasRows, NEW cr \in BOOLEAN, NEW dr \in BOOLEAN,
         RequestFits(q, us, al, cr),
         \A u \in Users : us[u].status # "none" => vs[u].status # "none",
         cr => dr,
         ~dr /\ q.pc = "merging" /\ al[q.session] = None => bl[q.session] = None,
         ~dr /\ q.pc = "saved" /\ us[q.who].status # "merged" => vs[q.who].status # "merged"
  PROVE  RequestFits(q, vs, bl, dr)
<1>1. q.who \in Users \cup {None} /\ q.owner \in Users \cup {None}
  BY DEF RequestRow
<1> QED
  BY <1>1 DEF RequestFits

LEMMA IdleFits ==
  ASSUME NEW us, NEW al, NEW cr
  PROVE  Idle \in RequestRow /\ RequestFits(Idle, us, al, cr)
<1>1. /\ Idle.pc = "idle" /\ Idle.who = None /\ Idle.op = "none"
      /\ Idle.subject = None /\ Idle.user = NoUser /\ Idle.session = None
      /\ Idle.owner = None /\ Idle.owners = {}
  BY DEF Idle
<1>2. RequestFits(Idle, us, al, cr)
  BY <1>1 DEF RequestFits
<1>3. Idle \in RequestRow
  BY Atoms DEF Idle, RequestRow, Counters
<1> QED
  BY <1>2, <1>3

\* One request moves to another row, and the tables it may rely on stay as they were.
LEMMA OneMoves ==
  ASSUME AccountsInv, NEW r \in Requests, NEW q \in RequestRow,
         requests' = [requests EXCEPT ![r] = q],
         RequestFits(q, users, aliases, crossed)
  PROVE  /\ requests' \in [Requests -> RequestRow]
         /\ \A p \in Requests : RequestFits(requests'[p], users, aliases, crossed)
<1>1. requests \in [Requests -> RequestRow]
  BY DEF AccountsInv, Typed
<1>2. requests' \in [Requests -> RequestRow]
  BY <1>1
<1>3. \A p \in Requests : requests'[p] = IF p = r THEN q ELSE requests[p]
  BY <1>1
<1> QED
  BY <1>2, <1>3 DEF AccountsInv

TablesStay == UNCHANGED <<users, aliases, identities, deletions, overwritten, crossed>>

\* A step that only concerns requests, sessions and codes.
LEMMA QuietStep ==
  ASSUME AccountsInv, TablesStay,
         requests' \in [Requests -> RequestRow],
         \A p \in Requests : RequestFits(requests'[p], users, aliases, crossed),
         sessions' \in Seq(SessionRow), codes' \subseteq Emails,
         \A s \in 1..Len(sessions') : users[sessions'[s].owner].status # "none"
  PROVE  AccountsInv'
<1>1. Typed'
  BY DEF TablesStay, AccountsInv, Typed
<1>2. UsersFit'
  BY DEF TablesStay, AccountsInv, UsersFit
<1>3. AliasesFit'
  BY DEF TablesStay, AccountsInv, AliasesFit, EndOf
<1>4. IdentitiesFit'
  BY DEF TablesStay, AccountsInv, IdentitiesFit
<1>5. SessionsFit'
  BY DEF TablesStay, SessionsFit
<1>6. DeletionsFit'
  BY DEF TablesStay, AccountsInv, DeletionsFit
<1>7. (\A p \in Requests : RequestFits(requests[p], users, aliases, crossed))'
  BY DEF TablesStay
<1> QED
  BY <1>1, <1>2, <1>3, <1>4, <1>5, <1>6, <1>7 DEF AccountsInv

\* A request moves; sessions stay, and codes may be used up.
LEMMA RequestStep ==
  ASSUME AccountsInv, TablesStay, UNCHANGED sessions, codes' \subseteq Emails,
         NEW r \in Requests, NEW q \in RequestRow,
         requests' = [requests EXCEPT ![r] = q],
         RequestFits(q, users, aliases, crossed)
  PROVE  AccountsInv'
<1>1. sessions' \in Seq(SessionRow)
  BY DEF AccountsInv, Typed
<1>2. \A s \in 1..Len(sessions') : users[sessions'[s].owner].status # "none"
  BY DEF AccountsInv, SessionsFit
<1> QED
  BY <1>1, <1>2, OneMoves, QuietStep

LEMMA RowsOf ==
  ASSUME Typed
  PROVE  /\ users \in [Users -> UserRow] /\ aliases \in [Users -> Users \cup {None}]
         /\ identities \in [Emails \cup {WeChat} -> Users \cup {None}]
         /\ \A u \in Users : users[u] \in UserRow
         /\ requests \in [Requests -> RequestRow] /\ \A r \in Requests : requests[r] \in RequestRow
         /\ Len(sessions) \in Nat /\ DOMAIN sessions = 1..Len(sessions)
         /\ sessions \in [1..Len(sessions) -> SessionRow]
         /\ \A s \in 1..Len(sessions) :
              /\ sessions[s] = [owner |-> sessions[s].owner, revoked |-> sessions[s].revoked]
              /\ sessions[s].owner \in Users /\ sessions[s].revoked \in BOOLEAN
<1>1. sessions \in Seq(SessionRow)
  BY DEF Typed
<1>2. /\ Len(sessions) \in Nat /\ DOMAIN sessions = 1..Len(sessions)
      /\ sessions \in [1..Len(sessions) -> SessionRow]
  BY <1>1
<1>3. \A s \in 1..Len(sessions) :
        /\ sessions[s] = [owner |-> sessions[s].owner, revoked |-> sessions[s].revoked]
        /\ sessions[s].owner \in Users /\ sessions[s].revoked \in BOOLEAN
  BY <1>2 DEF SessionRow
<1> QED
  BY <1>2, <1>3 DEF Typed, AliasRows, IdentityRows

LEMMA RowsAreSessions ==
  ASSUME Typed, NEW f \in [1..Len(sessions) -> SessionRow]
  PROVE  f \in Seq(SessionRow) /\ Len(f) = Len(sessions)
BY RowsOf

-------------------------------------------------------------------------------
(* Requests that begin *)

LEMMA FindsOne ==
  ASSUME AccountsInv, NEW e \in Emails
  PROVE  FindByEmail(e) # None =>
           FindByEmail(e) \in Users /\ users[FindByEmail(e)].email = e
                                   /\ users[FindByEmail(e)].status # "none"
<1>1. SUFFICES ASSUME FindByEmail(e) # None
               PROVE  FindByEmail(e) \in ByEmail(e)
  <2>1. \A u \in Users : users[u].email = e => users[u].status # "none"
    BY Atoms DEF AccountsInv, UsersFit
  <2> QED
    BY <2>1 DEF ByEmail
<1> QED
  BY <1>1 DEF FindByEmail

LEMMA AuthenticatedIs ==
  ASSUME AccountsInv, NEW s \in 1..Len(sessions), Authenticated(s) # None
  PROVE  /\ Authenticated(s) \in Users /\ users[Authenticated(s)].status = "active"
         /\ Authenticated(s) = Canonical(sessions[s].owner) /\ ~sessions[s].revoked
<1>1. Typed /\ sessions[s].owner \in Users
  BY RowsOf DEF AccountsInv
<1>2. Canonical(sessions[s].owner) \in Users \cup {None}
  BY <1>1, CanonicalIs
<1> QED
  BY <1>1, <1>2 DEF Authenticated

LEMMA AskStep ==
  ASSUME AccountsInv, TablesStay, UNCHANGED <<sessions, codes>>, NEW r \in Requests,
         NEW pc \in {"read", "known"}, NEW op \in Operations,
         NEW subject \in Emails \cup {WeChat, None}, NEW who \in Users \cup {None},
         NEW session \in Users \cup {None} \cup Nat,
         Ask(r, pc, op, subject, who, session),
         who # None => users[who].status # "none",
         op \in {"verify", "register", "password", "bind"} => subject \in Emails,
         op = "wechat" => subject = WeChat,
         pc = "known" \/ op \in {"refresh", "bind", "delete"} => who \in Users,
         op = "bind" =>
           /\ users[who].status = "active"
           /\ session # None => session \in Users /\ users[session].status # "none"
  PROVE  AccountsInv'
<1> DEFINE q == [pc |-> pc, op |-> op, subject |-> subject, who |-> who, user |-> Row(who),
                 session |-> session, owner |-> None, owners |-> {}]
<1>1. Row(who) \in UserRow /\ (who # None => Row(who) = users[who])
  BY RowsOf, Atoms DEF Row, AccountsInv
<1>2. /\ q.pc = pc /\ q.op = op /\ q.subject = subject /\ q.who = who /\ q.user = Row(who)
      /\ q.session = session /\ q.owner = None
  OBVIOUS
<1>3. q \in RequestRow
  BY <1>1 DEF RequestRow, Counters
<1>4. requests' = [requests EXCEPT ![r] = q]
  BY DEF Ask
<1> HIDE DEF q
<1>5. RequestFits(q, users, aliases, crossed)
  BY <1>1, <1>2, Atoms DEF RequestFits
<1>6. codes' \subseteq Emails
  BY DEF AccountsInv, Typed
<1> QED
  BY <1>3, <1>4, <1>5, <1>6, RequestStep

LEMMA ReadByWeChatKeeps ==
  ASSUME AccountsInv, NEW r \in Requests, ReadByWeChat(r)
  PROVE  AccountsInv'
<1>1. Ask(r, "read", "wechat", WeChat, identities[WeChat], None) /\ TablesStay /\ UNCHANGED <<sessions, codes>>
  BY DEF ReadByWeChat, TablesStay
<1>2. identities[WeChat] \in Users \cup {None}
  BY RowsOf DEF AccountsInv
<1>3. identities[WeChat] # None => users[identities[WeChat]].status # "none"
  BY DEF AccountsInv, IdentitiesFit
<1> QED
  BY <1>1, <1>2, <1>3, AskStep DEF Operations

LEMMA CodesKeep ==
  ASSUME AccountsInv, NEW e \in Emails, StartEmail(e) \/ CodeIsGone(e)
  PROVE  AccountsInv'
<1>1. TablesStay /\ UNCHANGED <<sessions, requests>> /\ codes' \subseteq Emails
  BY DEF StartEmail, CodeIsGone, TablesStay, AccountsInv, Typed
<1> QED
  BY <1>1, QuietStep DEF AccountsInv, Typed, SessionsFit

-------------------------------------------------------------------------------
(* Requests that go on *)

\* The row of a request that goes on differs in where it is.
LEMMA GoesOn ==
  ASSUME NEW q \in RequestRow, NEW pc \in Counters
  PROVE  /\ [q EXCEPT !.pc = pc] \in RequestRow /\ [q EXCEPT !.pc = pc].pc = pc
         /\ [q EXCEPT !.pc = pc].op = q.op /\ [q EXCEPT !.pc = pc].subject = q.subject
         /\ [q EXCEPT !.pc = pc].who = q.who /\ [q EXCEPT !.pc = pc].user = q.user
         /\ [q EXCEPT !.pc = pc].session = q.session /\ [q EXCEPT !.pc = pc].owner = q.owner
BY DEF RequestRow

LEMMA EndsFit ==
  ASSUME AccountsInv, NEW r \in Requests, NEW us, NEW al, NEW cr, End(r)
  PROVE  /\ requests' = [requests EXCEPT ![r] = Idle]
         /\ Idle \in RequestRow /\ RequestFits(Idle, us, al, cr)
BY IdleFits DEF End

\* A login that found an account, or a registration that may go on, with the account known.
LEMMA KnownFits ==
  ASSUME AccountsInv, NEW r \in Requests, NEW us \in [Users -> UserRow], NEW al, NEW cr,
         Step(r, "known"), requests[r].pc \in {"read", "saving"}, requests[r].op # "bind",
         requests[r].who \in Users,
         \A u \in Users : users[u].status # "none" => us[u].status # "none"
  PROVE  LET q == [requests[r] EXCEPT !.pc = "known"] IN
         /\ requests' = [requests EXCEPT ![r] = q]
         /\ q \in RequestRow /\ RequestFits(q, us, al, cr)
<1> DEFINE q == [requests[r] EXCEPT !.pc = "known"]
<1>1. requests' = [requests EXCEPT ![r] = q]
  BY DEF Step
<1>2. /\ q \in RequestRow /\ q.pc = "known" /\ q.op = requests[r].op
      /\ q.subject = requests[r].subject /\ q.who = requests[r].who
      /\ q.owner = requests[r].owner
  BY GoesOn, RowsOf DEF AccountsInv, Counters
<1>3. requests[r].owner \in Users \cup {None}
  BY RowsOf DEF AccountsInv, RequestRow
<1>4. RequestFits(requests[r], users, aliases, crossed) /\ requests[r].who # None
  BY Atoms DEF AccountsInv
<1> HIDE DEF q
<1>5. RequestFits(q, us, al, cr)
  BY <1>2, <1>3, <1>4 DEF RequestFits
<1> QED
  BY <1>1, <1>2, <1>5 DEF q


LEMMA PassByStatusKeeps ==
  ASSUME AccountsInv, NEW r \in Requests, requests[r].pc = "read", requests[r].op # "bind",
         PassByStatus(r)
  PROVE  AccountsInv'
<1>1. TablesStay /\ UNCHANGED sessions /\ codes' \subseteq Emails /\ requests[r].who # None
  BY DEF PassByStatus, TablesStay, AccountsInv, Typed
<1>2. requests[r].who \in Users /\ users[requests[r].who].status # "none"
  BY <1>1, RowsOf DEF AccountsInv, RequestRow, RequestFits
<1>3. users \in [Users -> UserRow]
  BY DEF AccountsInv, Typed
<1>4. CASE Step(r, "known")
  BY <1>1, <1>2, <1>3, <1>4, KnownFits, RequestStep DEF PassByStatus
<1>5. CASE End(r)
  BY <1>1, <1>5, EndsFit, RequestStep DEF PassByStatus
<1> QED
  BY <1>4, <1>5 DEF PassByStatus

LEMMA EntersKeep ==
  ASSUME AccountsInv, NEW r \in Requests,
         EnterAccount(r) \/ (At(r, "read", {"wechat"}) /\ PassByStatus(r))
  PROVE  AccountsInv'
BY PassByStatusKeeps DEF EnterAccount, At

\* The aliases of an account that was inserted end at one that was.
LEMMA EndWasInserted ==
  ASSUME AccountsInv, NEW u \in Users, users[u].status # "none", Canonical(u) # None
  PROVE  /\ Canonical(u) \in Users /\ aliases[Canonical(u)] = None
         /\ users[Canonical(u)].status # "none"
<1>1. PICK v \in Users : v = Canonical(u) /\ Leads(aliases, u, v)
  BY CanonicalIs DEF AccountsInv
<1> DEFINE S == {w \in Users : users[w].status # "none"}
<1>2. S \in SUBSET Users /\ u \in S
  OBVIOUS
<1>3. \A w \in S : aliases[w] \in S \cup {None}
  BY RowsOf DEF AccountsInv, AliasesFit
<1>4. v \in S
  BY <1>1, <1>2, <1>3 DEF Leads
<1> QED
  BY <1>1, <1>4 DEF Leads

\* merge_users reads the end of the aliases of the other account.
LEMMA ReadTargetKeeps ==
  ASSUME AccountsInv, NEW r \in Requests, ReadTarget(r)
  PROVE  AccountsInv'
<1> DEFINE target == Canonical(Other(r))
<1> DEFINE q == [requests[r] EXCEPT !.pc = "merging", !.session = target]
<1>1. TablesStay /\ UNCHANGED sessions /\ codes' \subseteq Emails
  BY DEF ReadTarget, TablesStay, AccountsInv, Typed
<1>2. /\ requests[r].pc = "read" /\ requests[r].op = "bind" /\ requests[r] \in RequestRow
      /\ RequestFits(requests[r], users, aliases, crossed) /\ Typed
  BY RowsOf DEF ReadTarget, At, AccountsInv
<1>3. Other(r) \in Users /\ users[Other(r)].status # "none" /\ requests[r].who \in Users
  BY <1>2 DEF ReadTarget, Other, RequestFits
<1>4. CASE target \in {None, requests[r].who}
  <2>1. End(r)
    BY <1>4 DEF ReadTarget
  <2> QED
    BY <1>1, <2>1, EndsFit, RequestStep
<1>5. CASE target \notin {None, requests[r].who}
  <2>1. requests' = [requests EXCEPT ![r] = q]
    BY <1>5 DEF ReadTarget
  <2>2. target \in Users /\ aliases[target] = None /\ users[target].status # "none"
    BY <1>3, <1>5, EndWasInserted
  <2> HIDE DEF target
  <2>5. /\ q \in RequestRow /\ q.pc = "merging" /\ q.op = "bind" /\ q.session = target
        /\ q.who = requests[r].who /\ q.subject = requests[r].subject /\ q.user = requests[r].user
        /\ q.owner = requests[r].owner
    BY <1>2, <2>2 DEF RequestRow, Counters
  <2> HIDE DEF q
  <2>6. RequestFits(q, users, aliases, crossed)
    BY <1>2, <1>3, <1>5, <2>2, <2>5 DEF RequestFits
  <2> QED
    BY <1>1, <2>1, <2>5, <2>6, RequestStep
<1> QED
  BY <1>4, <1>5

-------------------------------------------------------------------------------
(* Sessions *)

LEMMA OpenSessionKeeps ==
  ASSUME AccountsInv, NEW r \in Requests, OpenSession(r)
  PROVE  AccountsInv'
<1>1. TablesStay /\ codes' \subseteq Emails /\ End(r) /\ requests[r].pc = "known"
  BY DEF OpenSession, TablesStay, AccountsInv, Typed
<1>2. requests[r].who \in Users
  BY <1>1 DEF AccountsInv, RequestFits
<1>3. sessions \in Seq(SessionRow)
  BY DEF AccountsInv, Typed
<1>4. /\ sessions' \in Seq(SessionRow)
      /\ \A s \in 1..Len(sessions') : users[sessions'[s].owner].status # "none"
  <2>1. CASE sessions' = sessions
    BY <1>3, <2>1 DEF AccountsInv, SessionsFit
  <2>2. CASE /\ Exists(requests[r].who)
             /\ sessions' = Append(sessions, [owner |-> requests[r].who, revoked |-> FALSE])
    <3> DEFINE new == [owner |-> requests[r].who, revoked |-> FALSE]
    <3>1. new \in SessionRow /\ users[new.owner].status # "none"
      BY <1>2, <2>2 DEF SessionRow, Exists
    <3>2. sessions' = Append(sessions, new)
      BY <2>2
    <3> HIDE DEF new
    <3>3. /\ sessions' \in Seq(SessionRow) /\ Len(sessions') = Len(sessions) + 1
          /\ \A s \in 1..Len(sessions') :
               sessions'[s] = IF s = Len(sessions) + 1 THEN new ELSE sessions[s]
      BY <1>3, <3>1, <3>2
    <3>4. \A s \in 1..Len(sessions') : s = Len(sessions) + 1 \/ s \in 1..Len(sessions)
      BY <1>3, <3>3
    <3> QED
      BY <3>1, <3>3, <3>4 DEF AccountsInv, SessionsFit
  <2> QED
    BY <2>1, <2>2 DEF OpenSession
<1>5. requests' = [requests EXCEPT ![r] = Idle] /\ Idle \in RequestRow
      /\ RequestFits(Idle, users, aliases, crossed)
  BY <1>1, EndsFit
<1>6. /\ requests' \in [Requests -> RequestRow]
      /\ \A p \in Requests : RequestFits(requests'[p], users, aliases, crossed)
  BY <1>5, OneMoves
<1> QED
  BY <1>1, <1>4, <1>6, QuietStep

LEMMA LoggedOutFits ==
  ASSUME AccountsInv, NEW r \in Requests, LoggedOut(r), requests[r].pc \in {"read", "saving"},
         requests[r].op \in {"refresh", "logout"}
  PROVE  \E q \in RequestRow : /\ requests' = [requests EXCEPT ![r] = q]
                               /\ RequestFits(q, users, aliases, crossed)
<1>1. CASE Step(r, "known") /\ requests[r].op = "refresh"
  <2>1. requests[r].who \in Users /\ users \in [Users -> UserRow]
    BY <1>1 DEF AccountsInv, RequestFits, Typed
  <2> QED
    BY <1>1, <2>1, KnownFits
<1>2. CASE End(r)
  BY <1>2, EndsFit
<1> QED
  BY <1>1, <1>2 DEF LoggedOut

LEMMA ReadSessionKeeps ==
  ASSUME AccountsInv, NEW r \in Requests, ReadSession(r), requests[r].session \in 1..Len(sessions)
  PROVE  AccountsInv'
<1> DEFINE q == [requests[r] EXCEPT !.pc = "saving", !.owner = sessions[requests[r].session].owner]
<1>1. /\ TablesStay /\ UNCHANGED sessions /\ codes' \subseteq Emails /\ Typed
      /\ requests[r].pc = "read" /\ requests[r].op \in {"refresh", "logout"}
  BY DEF ReadSession, At, TablesStay, AccountsInv, Typed
<1>2. CASE LoggedOut(r)
  BY <1>1, <1>2, LoggedOutFits, RequestStep
<1>3. CASE requests' = [requests EXCEPT ![r].pc = "saving",
                                        ![r].owner = sessions[requests[r].session].owner]
  <2>1. requests' = [requests EXCEPT ![r] = q]
    BY <1>3
  <2>2. /\ sessions[requests[r].session].owner \in Users
        /\ users[sessions[requests[r].session].owner].status # "none"
    BY <1>1, RowsOf DEF AccountsInv, SessionsFit
  <2>3. requests[r] \in RequestRow /\ RequestFits(requests[r], users, aliases, crossed)
    BY <1>1, RowsOf DEF AccountsInv
  <2>4. /\ q \in RequestRow /\ q.pc = "saving" /\ q.op = requests[r].op
        /\ q.subject = requests[r].subject /\ q.who = requests[r].who
        /\ q.owner = sessions[requests[r].session].owner
    BY <2>2, <2>3 DEF RequestRow, Counters
  <2> HIDE DEF q
  <2>5. RequestFits(q, users, aliases, crossed)
    BY <1>1, <2>2, <2>3, <2>4 DEF RequestFits
  <2> QED
    BY <1>1, <2>1, <2>4, <2>5, RequestStep
<1> QED
  BY <1>2, <1>3 DEF ReadSession

LEMMA SaveSessionKeeps ==
  ASSUME AccountsInv, NEW r \in Requests, SaveSession(r)
  PROVE  AccountsInv'
<1>1. /\ TablesStay /\ codes' \subseteq Emails /\ Typed /\ sessions \in Seq(SessionRow)
      /\ requests[r].pc = "saving" /\ requests[r].op \in {"refresh", "logout"}
      /\ RequestFits(requests[r], users, aliases, crossed)
  BY DEF SaveSession, At, TablesStay, AccountsInv, Typed
<1>2. CASE UNCHANGED sessions /\ End(r)
  BY <1>1, <1>2, EndsFit, RequestStep
<1>3. CASE /\ sessions' = [sessions EXCEPT ![requests[r].session] =
                [owner |-> requests[r].owner, revoked |-> TRUE]]
           /\ LoggedOut(r)
  <2> DEFINE row == [owner |-> requests[r].owner, revoked |-> TRUE]
  <2>1. row \in SessionRow /\ row.owner \in Users /\ users[row.owner].status # "none"
    BY <1>1, Atoms DEF RequestFits, SessionRow
  <2>2. sessions' = [sessions EXCEPT ![requests[r].session] = row]
    BY <1>3
  <2> HIDE DEF row
  <2>3. /\ DOMAIN sessions' = 1..Len(sessions) /\ sessions' = [s \in 1..Len(sessions) |-> sessions'[s]]
        /\ \A s \in 1..Len(sessions) : sessions'[s] = row \/ sessions'[s] = sessions[s]
    BY <1>1, <2>2, RowsOf
  <2>4. sessions' \in Seq(SessionRow) /\ Len(sessions') = Len(sessions)
    <3>1. sessions' \in [1..Len(sessions) -> SessionRow]
      BY <1>1, <2>1, <2>3, RowsOf
    <3> QED
      BY <1>1, <3>1, RowsOf
  <2>5. \A s \in 1..Len(sessions') : users[sessions'[s].owner].status # "none"
    BY <2>1, <2>3, <2>4 DEF AccountsInv, SessionsFit
  <2>6. /\ requests' \in [Requests -> RequestRow]
        /\ \A p \in Requests : RequestFits(requests'[p], users, aliases, crossed)
    BY <1>1, <1>3, LoggedOutFits, OneMoves
  <2> QED
    BY <1>1, <2>4, <2>5, <2>6, QuietStep
<1> QED
  BY <1>2, <1>3 DEF SaveSession

\* accept_deletion reads the end of the aliases of its account.
LEMMA ReadOwnersKeeps ==
  ASSUME AccountsInv, NEW r \in Requests, ReadOwners(r)
  PROVE  AccountsInv'
<1> DEFINE owner == Canonical(requests[r].who)
           q == [requests[r] EXCEPT !.pc = "accepting", !.who = owner, !.owners = OwnerIds(owner)]
<1>1. /\ TablesStay /\ UNCHANGED sessions /\ codes' \subseteq Emails /\ Typed
      /\ requests[r].pc = "read" /\ requests[r].op = "delete" /\ requests[r] \in RequestRow
      /\ RequestFits(requests[r], users, aliases, crossed)
  BY RowsOf DEF ReadOwners, At, TablesStay, AccountsInv, Typed
<1>2. CASE owner = None
  BY <1>1, <1>2, EndsFit, RequestStep DEF ReadOwners
<1>3. CASE owner # None
  <2>1. requests' = [requests EXCEPT ![r] = q]
    BY <1>3 DEF ReadOwners
  <2>2. requests[r].who \in Users /\ users[requests[r].who].status # "none"
    BY <1>1, Atoms DEF RequestFits
  <2>3. owner \in Users /\ users[owner].status # "none" /\ OwnerIds(owner) \in SUBSET Users
    BY <1>3, <2>2, EndWasInserted DEF OwnerIds
  <2> HIDE DEF owner
  <2>4. /\ q \in RequestRow /\ q.pc = "accepting" /\ q.op = "delete" /\ q.who = owner
        /\ q.owner = requests[r].owner
    BY <1>1, <2>3 DEF RequestRow, Counters
  <2> HIDE DEF q
  <2>5. RequestFits(q, users, aliases, crossed)
    BY <1>1, <2>3, <2>4 DEF RequestFits
  <2> QED
    BY <1>1, <2>1, <2>4, <2>5, RequestStep
<1> QED
  BY <1>2, <1>3

-------------------------------------------------------------------------------
(* Rows of accounts that change *)

\* One request moves while tables change; what the others rely on must stay.
LEMMA OthersFit ==
  ASSUME AccountsInv, NEW r \in Requests, NEW q \in RequestRow,
         requests' = [requests EXCEPT ![r] = q], RequestFits(q, users', aliases', crossed'),
         users' \in [Users -> UserRow], aliases' \in AliasRows, crossed' \in BOOLEAN,
         \A u \in Users : users[u].status # "none" => users'[u].status # "none",
         crossed => crossed',
         \A p \in Requests \ {r} : ~crossed' =>
           /\ ReliesOn(p, requests[p].session) /\ requests[p].pc = "merging"
                /\ aliases[requests[p].session] = None
              => aliases'[requests[p].session] = None
           /\ ReliesOn(p, requests[p].who) /\ requests[p].pc = "saved"
                /\ users[requests[p].who].status # "merged"
              => users'[requests[p].who].status # "merged"
  PROVE  /\ requests' \in [Requests -> RequestRow]
         /\ \A p \in Requests : RequestFits(requests'[p], users', aliases', crossed')
<1>1. /\ requests \in [Requests -> RequestRow] /\ users \in [Users -> UserRow]
      /\ aliases \in AliasRows /\ crossed \in BOOLEAN
  BY DEF AccountsInv, Typed
<1>2. requests' \in [Requests -> RequestRow]
  BY <1>1
<1>3. requests'[r] = q /\ \A p \in Requests \ {r} : requests'[p] = requests[p]
  BY <1>1
<1>4. ASSUME NEW p \in Requests \ {r}
      PROVE  RequestFits(requests[p], users', aliases', crossed')
  <2>1. requests[p] \in RequestRow /\ RequestFits(requests[p], users, aliases, crossed)
    BY <1>1 DEF AccountsInv
  <2>2. requests[p].pc = "merging" => ReliesOn(p, requests[p].session)
    BY <2>1 DEF ReliesOn, At, Other, RequestFits
  <2>3. requests[p].pc = "saved" => ReliesOn(p, requests[p].who)
    BY <2>1 DEF ReliesOn, At, RequestFits
  <2> QED
    BY <1>1, <2>1, <2>2, <2>3, StillFits
<1> QED
  BY <1>2, <1>3, <1>4

LEMMA InsertKeeps ==
  ASSUME AccountsInv, NEW r \in Requests, NEW email \in Emails \cup {None},
         requests[r].pc = "read", requests[r].op \in {"verify", "register", "wechat"},
         InsertAccount(r, email)
  PROVE  AccountsInv'
<1>1. /\ UNCHANGED <<aliases, codes, sessions, deletions, overwritten, crossed>>
      /\ Typed /\ requests[r] \in RequestRow /\ RequestFits(requests[r], users, aliases, crossed)
  BY RowsOf DEF InsertAccount, AccountsInv
<1>2. requests[r].subject \in Emails \cup {WeChat}
  BY <1>1 DEF RequestFits
<1>3. CASE End(r) /\ UNCHANGED <<users, identities>>
  <2>1. TablesStay /\ UNCHANGED sessions /\ codes' \subseteq Emails
    BY <1>1, <1>3 DEF TablesStay, Typed
  <2> QED
    BY <1>3, <2>1, EndsFit, RequestStep
<1>4. ASSUME NEW u \in Users, users[u].status = "none",
             users' = [users EXCEPT ![u] =
               [status |-> "active", email |-> email,
                password |-> IF requests[r].op = "register" THEN r ELSE None]],
             identities' = [identities EXCEPT ![requests[r].subject] = u],
             requests' = [requests EXCEPT ![r].pc = "known", ![r].who = u],
             email = None \/ ~Taken(email, None)
      PROVE  AccountsInv'
  <2> DEFINE row == [status |-> "active", email |-> email,
                     password |-> IF requests[r].op = "register" THEN r ELSE None]
  <2> DEFINE q == [requests[r] EXCEPT !.pc = "known", !.who = u]
  <2>1. row \in UserRow /\ row.status = "active" /\ row.email = email
    BY DEF UserRow, Statuses
  <2>2. /\ q \in RequestRow /\ q.pc = "known" /\ q.op = requests[r].op
        /\ q.subject = requests[r].subject /\ q.who = u
        /\ q.owner = requests[r].owner /\ q.owner \in Users \cup {None}
    BY <1>1 DEF RequestRow, Counters
  <2>3. requests' = [requests EXCEPT ![r] = q]
    BY <1>4
  <2>4. users' = [users EXCEPT ![u] = row]
    BY <1>4
  <2> HIDE DEF row, q
  <2>5. users' \in [Users -> UserRow] /\ users'[u] = row /\ \A v \in Users \ {u} : users'[v] = users[v]
    BY <1>1, <2>1, <2>4, RowsOf
  <2>6. \A v \in Users : users'[v].status # "none" /\ v # u => users[v].status # "none"
    BY <2>5
  <2>7. \A v \in Users : /\ users[v].status # "none" => users'[v].status # "none"
                         /\ users'[v].status = "merged" => users[v].status = "merged"
    BY <2>1, <2>5
  <2>8. RequestFits(q, users', aliases', crossed')
    BY <1>1, <2>1, <2>2, <2>5, <2>7, Atoms DEF RequestFits
  <2>9. /\ requests' \in [Requests -> RequestRow]
        /\ \A p \in Requests : RequestFits(requests'[p], users', aliases', crossed')
    <3>1. aliases' = aliases /\ crossed' = crossed /\ aliases' \in AliasRows /\ crossed' \in BOOLEAN
      BY <1>1 DEF Typed
    <3>2. \A p \in Requests : requests[p].pc = "saved" => requests[p].who \in Users
      BY DEF AccountsInv, RequestFits
    <3> QED
      BY <2>2, <2>3, <2>5, <2>7, <2>8, <3>1, <3>2, OthersFit
  <2>10. identities' \in IdentityRows
    BY <1>1, <1>2, <1>4 DEF Typed, IdentityRows
  <2>11. Typed'
    BY <1>1, <2>5, <2>9, <2>10 DEF Typed
  <2>12. UsersFit'
    <3>1. \A v \in Users : email # None => users[v].email # email
      BY <1>4, Atoms DEF Taken, ByEmail
    <3> QED
      BY <1>1, <2>1, <2>5, <3>1 DEF AccountsInv, UsersFit
  <2>13. AliasesFit'
    BY <1>1, <2>7, RowsOf DEF AccountsInv, AliasesFit, EndOf
  <2>14. IdentitiesFit'
    <3>1. \A i \in Emails \cup {WeChat} : identities'[i] = u \/ identities'[i] = identities[i]
      BY <1>1, <1>4, RowsOf
    <3>2. users'[u].status = "active"
      BY <2>1, <2>5
    <3> QED
      BY <1>1, <2>7, <3>1, <3>2, RowsOf DEF AccountsInv, IdentitiesFit
  <2>15. SessionsFit'
    BY <1>1, <2>7, RowsOf DEF AccountsInv, SessionsFit
  <2>16. DeletionsFit'
    BY <1>1, <1>4, <2>5 DEF AccountsInv, DeletionsFit
  <2> QED
    BY <2>9, <2>11, <2>12, <2>13, <2>14, <2>15, <2>16 DEF AccountsInv
<1> QED
  BY <1>3, <1>4 DEF InsertAccount

LEMMA CreatesKeep ==
  ASSUME AccountsInv, NEW r \in Requests,
         CreateAccount(r) \/ (At(r, "read", {"wechat"}) /\ InsertAccount(r, None))
  PROVE  AccountsInv'
<1>1. CASE CreateAccount(r)
  <2>1. requests[r].pc = "read" /\ requests[r].op \in {"verify", "register"}
    BY <1>1 DEF CreateAccount, At
  <2>2. requests[r].subject \in Emails
    BY <2>1 DEF AccountsInv, RequestFits
  <2> QED
    BY <1>1, <2>1, <2>2, InsertKeeps DEF CreateAccount
<1>2. CASE At(r, "read", {"wechat"}) /\ InsertAccount(r, None)
  BY <1>2, InsertKeeps DEF At
<1> QED
  BY <1>1, <1>2

LEMMA SetPasswordKeeps ==
  ASSUME AccountsInv, NEW r \in Requests, SetPassword(r)
  PROVE  AccountsInv'
<1>1. /\ UNCHANGED <<aliases, identities, codes, sessions, deletions, overwritten, crossed>>
      /\ Typed /\ requests[r].pc = "read" /\ requests[r].op = "register"
      /\ requests[r].who \in Users /\ users[requests[r].who].status # "none"
  BY RowsOf DEF SetPassword, At, AccountsInv, RequestFits, RequestRow
<1>2. CASE UNCHANGED users /\ End(r)
  <2>1. TablesStay /\ UNCHANGED sessions /\ codes' \subseteq Emails
    BY <1>1, <1>2 DEF TablesStay, Typed
  <2> QED
    BY <1>2, <2>1, EndsFit, RequestStep
<1>3. CASE users' = [users EXCEPT ![requests[r].who].password = r] /\ Step(r, "known")
  <2>1. PICK u \in Users : u = requests[r].who
    BY <1>1
  <2>2. /\ users'[u] \in UserRow /\ users'[u].status = users[u].status
        /\ users'[u].email = users[u].email
        /\ \A v \in Users \ {u} : users'[v] = users[v]
    <3>1. users'[u] = [users[u] EXCEPT !.password = r] /\ \A v \in Users \ {u} : users'[v] = users[v]
      BY <1>1, <1>3, <2>1, RowsOf
    <3>2. users[u] \in UserRow
      BY <1>1, RowsOf
    <3> QED
      BY <3>1, <3>2 DEF UserRow
  <2>3. users' \in [Users -> UserRow]
    <3>1. users' = [v \in Users |-> users'[v]]
      BY <1>1, <1>3, RowsOf
    <3> QED
      BY <1>1, <2>2, <3>1, RowsOf
  <2>4. \A v \in Users : users'[v].status = users[v].status /\ users'[v].email = users[v].email
    BY <2>2
  <2>6. PICK q \in RequestRow : /\ requests' = [requests EXCEPT ![r] = q]
                                /\ RequestFits(q, users', aliases', crossed')
    BY <1>1, <1>3, <2>3, <2>4, KnownFits
  <2>7. /\ requests' \in [Requests -> RequestRow]
        /\ \A p \in Requests : RequestFits(requests'[p], users', aliases', crossed')
    <3>1. aliases' = aliases /\ crossed' = crossed /\ aliases' \in AliasRows /\ crossed' \in BOOLEAN
      BY <1>1 DEF Typed
    <3>2. \A p \in Requests : requests[p].pc = "saved" => requests[p].who \in Users
      BY DEF AccountsInv, RequestFits
    <3> QED
      BY <2>3, <2>4, <2>6, <3>1, <3>2, OthersFit
  <2>8. Typed'
    BY <1>1, <2>3, <2>7 DEF Typed
  <2>9. UsersFit'
    <3>1. \A v \in Users : users'[v].status = "none" => v # u
      BY <1>1, <2>1, <2>4
    <3> QED
      BY <1>1, <2>2, <2>4, <3>1 DEF AccountsInv, UsersFit
  <2>10. AliasesFit'
    BY <1>1, <2>4, RowsOf DEF AccountsInv, AliasesFit, EndOf
  <2>11. IdentitiesFit'
    BY <1>1, <2>4, RowsOf DEF AccountsInv, IdentitiesFit
  <2>12. SessionsFit'
    BY <1>1, <2>4, RowsOf DEF AccountsInv, SessionsFit
  <2>13. DeletionsFit'
    BY <1>1, <2>4 DEF AccountsInv, DeletionsFit
  <2> QED
    BY <2>7, <2>8, <2>9, <2>10, <2>11, <2>12, <2>13 DEF AccountsInv
<1> QED
  BY <1>2, <1>3 DEF SetPassword

-------------------------------------------------------------------------------
(* bind_email *)

LEMMA SaveUserKeeps ==
  ASSUME AccountsInv, NEW r \in Requests, SaveUser(r)
  PROVE  AccountsInv'
<1>1. /\ UNCHANGED <<aliases, identities, codes, sessions, deletions, crossed>>
      /\ Typed /\ requests[r] \in RequestRow /\ RequestFits(requests[r], users, aliases, crossed)
      /\ requests[r].pc = "read" /\ requests[r].op = "bind"
  BY RowsOf DEF SaveUser, At, AccountsInv
<1>2. PICK u \in Users : u = requests[r].who
  BY <1>1 DEF RequestFits
<1>3. CASE End(r) /\ UNCHANGED <<users, overwritten>>
  <2>1. TablesStay /\ UNCHANGED sessions /\ codes' \subseteq Emails
    BY <1>1, <1>3 DEF TablesStay, Typed
  <2> QED
    BY <1>3, <2>1, EndsFit, RequestStep
<1>4. CASE /\ ~Taken(requests[r].subject, requests[r].who)
           /\ users' = [users EXCEPT ![requests[r].who] =
                [requests[r].user EXCEPT !.email = requests[r].subject]]
           /\ overwritten' = IF users[requests[r].who] = requests[r].user THEN overwritten
                             ELSE overwritten \cup {requests[r].who}
           /\ Step(r, "saved")
  <2> DEFINE row == [requests[r].user EXCEPT !.email = requests[r].subject]
  <2> DEFINE q == [requests[r] EXCEPT !.pc = "saved"]
  <2>1. row \in UserRow /\ row.status = "active" /\ row.email = requests[r].subject
        /\ requests[r].subject \in Emails
    BY <1>1 DEF UserRow, RequestRow, RequestFits
  <2>2. /\ q \in RequestRow /\ q.pc = "saved" /\ q.op = "bind" /\ q.subject = requests[r].subject
        /\ q.who = u /\ q.user = requests[r].user /\ q.session = requests[r].session
        /\ q.owner = requests[r].owner /\ q.owner \in Users \cup {None}
    BY <1>1, <1>2, GoesOn DEF Counters, RequestRow
  <2>3. requests' = [requests EXCEPT ![r] = q]
    BY <1>4 DEF Step
  <2>4. users' = [users EXCEPT ![u] = row]
    BY <1>2, <1>4
  <2> HIDE DEF row, q
  <2>5. users' \in [Users -> UserRow] /\ users'[u] = row /\ \A v \in Users \ {u} : users'[v] = users[v]
    BY <1>1, <2>1, <2>4, RowsOf
  <2>6. \A v \in Users : /\ users[v].status # "none" => users'[v].status # "none"
                         /\ users'[v].status = "merged" => users[v].status = "merged" /\ v # u
    BY <2>1, <2>5
  <2>7. RequestFits(q, users', aliases', crossed')
    <3>1. requests[r].session # None =>
            requests[r].session \in Users /\ users'[requests[r].session].status # "none"
      BY <1>1, <2>6 DEF RequestFits
    <3>2. users'[u].status = "active"
      BY <2>1, <2>5
    <3> QED
      BY <1>1, <2>1, <2>2, <2>6, <3>1, <3>2 DEF RequestFits
  <2>8. /\ requests' \in [Requests -> RequestRow]
        /\ \A p \in Requests : RequestFits(requests'[p], users', aliases', crossed')
    <3>1. aliases' = aliases /\ crossed' = crossed /\ aliases' \in AliasRows /\ crossed' \in BOOLEAN
      BY <1>1 DEF Typed
    <3>2. \A p \in Requests : requests[p].pc = "saved" => requests[p].who \in Users
      BY DEF AccountsInv, RequestFits
    <3> QED
      BY <2>2, <2>3, <2>5, <2>6, <2>7, <3>1, <3>2, OthersFit
  <2>9. Typed'
    BY <1>1, <2>5, <2>8 DEF Typed
  <2>10. UsersFit'
    <3>1. \A v \in Users \ {u} : users[v].email # requests[r].subject
      BY <1>2, <1>4 DEF Taken, ByEmail
    <3> QED
      BY <1>1, <2>1, <2>5, <3>1 DEF AccountsInv, UsersFit
  <2>11. AliasesFit'
    BY <1>1, <2>6, RowsOf DEF AccountsInv, AliasesFit, EndOf
  <2>12. IdentitiesFit'
    BY <1>1, <2>6, RowsOf DEF AccountsInv, IdentitiesFit
  <2>13. SessionsFit'
    BY <1>1, <2>6, RowsOf DEF AccountsInv, SessionsFit
  <2>14. DeletionsFit'
    <3>1. overwritten \subseteq overwritten'
      BY <1>4
    <3>2. users[u] # requests[r].user => u \in overwritten'
      BY <1>2, <1>4
    <3>3. requests[r].user.status = "active"
      BY <1>1 DEF RequestFits
    <3>4. deletions[u] # "none" => u \in overwritten'
      BY <3>1, <3>2, <3>3 DEF AccountsInv, DeletionsFit
    <3> QED
      BY <1>1, <2>5, <2>6, <3>1, <3>4 DEF AccountsInv, DeletionsFit
  <2> QED
    BY <2>8, <2>9, <2>10, <2>11, <2>12, <2>13, <2>14 DEF AccountsInv
<1> QED
  BY <1>3, <1>4 DEF SaveUser

LEMMA SaveIdentityKeeps ==
  ASSUME AccountsInv, NEW r \in Requests, SaveIdentity(r)
  PROVE  AccountsInv'
<1>1. /\ UNCHANGED <<users, aliases, sessions, deletions, overwritten, crossed>> /\ End(r)
      /\ Typed /\ RequestFits(requests[r], users, aliases, crossed) /\ requests[r].pc = "saved"
  BY DEF SaveIdentity, At, AccountsInv
<1>2. /\ requests[r].op = "bind" /\ requests[r].subject \in Emails /\ requests[r].who \in Users
      /\ users[requests[r].who].status # "none"
      /\ ~crossed => users[requests[r].who].status # "merged"
  BY <1>1, Atoms DEF RequestFits
<1>3. /\ requests' \in [Requests -> RequestRow]
      /\ \A p \in Requests : RequestFits(requests'[p], users, aliases, crossed)
  BY <1>1, EndsFit, OneMoves
<1>4. /\ identities' \in IdentityRows
      /\ \A i \in Emails \cup {WeChat} : identities'[i] \in {identities[i], requests[r].who}
  <2>1. \/ identities' = identities
        \/ identities' = [identities EXCEPT ![requests[r].subject] = requests[r].who]
    BY DEF SaveIdentity
  <2> QED
    BY <1>1, <1>2, <2>1 DEF Typed, IdentityRows
<1>5. codes' \subseteq Emails
  BY <1>1 DEF SaveIdentity, Typed
<1>6. Typed'
  BY <1>1, <1>3, <1>4, <1>5 DEF Typed
<1>7. IdentitiesFit'
  BY <1>1, <1>2, <1>4 DEF AccountsInv, IdentitiesFit
<1>8. UsersFit' /\ AliasesFit' /\ SessionsFit' /\ DeletionsFit'
  BY <1>1 DEF AccountsInv, UsersFit, AliasesFit, EndOf, SessionsFit, DeletionsFit
<1>9. (\A p \in Requests : RequestFits(requests[p], users, aliases, crossed))'
  BY <1>1, <1>3
<1> QED
  BY <1>6, <1>7, <1>8, <1>9 DEF AccountsInv

\* What a merge writes: the sessions of the source are the target's, and stay revoked.
LEMMA SessionsMove ==
  ASSUME Typed, NEW source \in Users, NEW target \in Users,
         sessions' = [s \in DOMAIN sessions |->
           IF sessions[s].owner = source THEN [sessions[s] EXCEPT !.owner = target]
           ELSE sessions[s]]
  PROVE  /\ sessions' \in Seq(SessionRow) /\ Len(sessions') = Len(sessions)
         /\ \A s \in 1..Len(sessions) : /\ sessions'[s].revoked = sessions[s].revoked
                                       /\ sessions'[s].owner \in {sessions[s].owner, target}
<1>1. ASSUME NEW s \in 1..Len(sessions)
      PROVE  /\ sessions'[s] \in SessionRow /\ sessions'[s].revoked = sessions[s].revoked
             /\ sessions'[s].owner \in {sessions[s].owner, target}
  <2>1. sessions[s] \in SessionRow
    BY RowsOf
  <2>2. \/ sessions'[s] = sessions[s]
        \/ sessions'[s] = [sessions[s] EXCEPT !.owner = target]
    BY RowsOf
  <2> QED
    BY <2>1, <2>2 DEF SessionRow
<1>2. sessions' \in [1..Len(sessions) -> SessionRow]
  <2>1. sessions' = [s \in 1..Len(sessions) |-> sessions'[s]]
    BY RowsOf
  <2> QED
    BY <1>1, <2>1
<1>3. sessions' \in Seq(SessionRow) /\ Len(sessions') = Len(sessions)
  BY <1>2, RowsOf
<1> QED
  BY <1>1, <1>3

LEMMA MergeKeeps ==
  ASSUME AccountsInv, NEW r \in Requests, Merge(r)
  PROVE  AccountsInv'
<1>1. /\ UNCHANGED <<deletions, overwritten>> /\ End(r) /\ Typed
      /\ RequestFits(requests[r], users, aliases, crossed) /\ requests[r].pc = "merging"
  BY DEF Merge, At, AccountsInv
<1>2. PICK source \in Users, target \in Users :
        /\ source = requests[r].who /\ target = Other(r) /\ source # target
        /\ ~crossed => aliases[target] = None
  BY <1>1 DEF RequestFits, Other
<1>3. CASE UNCHANGED <<users, aliases, identities, codes, sessions, crossed>>
  <2>1. TablesStay /\ UNCHANGED sessions /\ codes' \subseteq Emails
    BY <1>1, <1>3 DEF TablesStay, Typed
  <2> QED
    BY <1>1, <2>1, EndsFit, RequestStep
<1>4. CASE /\ aliases[source] = None /\ Exists(source) /\ Exists(target)
           /\ aliases' = MergedInto(source, target)
           /\ identities' = MovedIdentities(source, target)
           /\ sessions' = [s \in DOMAIN sessions |->
                IF sessions[s].owner = source THEN [sessions[s] EXCEPT !.owner = target]
                ELSE sessions[s]]
           /\ users' = [users EXCEPT ![source].status = "merged"]
           /\ codes' = codes \ {requests[r].subject}
           /\ crossed' = (crossed \/ \E p \in Requests \ {r} : ReliesOn(p, source))
  <2>1. /\ aliases' \in AliasRows /\ aliases'[source] = target
        /\ \A v \in Users \ {source} : aliases'[v] = aliases[v]
    BY <1>1, <1>4 DEF Typed, AliasRows, MergedInto
  <2>2. /\ users'[source] = [users[source] EXCEPT !.status = "merged"]
        /\ \A v \in Users \ {source} : users'[v] = users[v]
    BY <1>1, <1>4, RowsOf
  <2>3. /\ users'[source] \in UserRow /\ users'[source].status = "merged"
        /\ users'[source].email = users[source].email
    <3>1. users[source] \in UserRow
      BY <1>1, RowsOf
    <3> QED
      BY <2>2, <3>1 DEF UserRow, Statuses
  <2>4. users' \in [Users -> UserRow]
    <3>1. users' = [v \in Users |-> users'[v]]
      BY <1>1, <1>4, RowsOf
    <3> QED
      BY <1>1, <2>2, <2>3, <3>1, RowsOf
  <2>5. \A v \in Users : users[v].status # "none" => users'[v].status # "none"
    BY <2>2, <2>3
  <2>6. crossed' \in BOOLEAN /\ (crossed => crossed')
        /\ (~crossed' => \A p \in Requests \ {r} : ~ReliesOn(p, source))
    BY <1>1, <1>4 DEF Typed
  <2>7. /\ requests' \in [Requests -> RequestRow]
        /\ \A p \in Requests : RequestFits(requests'[p], users', aliases', crossed')
    <3>1. ASSUME NEW p \in Requests \ {r}, ~crossed'
          PROVE  /\ ReliesOn(p, requests[p].session) /\ requests[p].pc = "merging"
                      /\ aliases[requests[p].session] = None
                    => aliases'[requests[p].session] = None
                 /\ ReliesOn(p, requests[p].who) /\ requests[p].pc = "saved"
                      /\ users[requests[p].who].status # "merged"
                    => users'[requests[p].who].status # "merged"
      <4>1. ~ReliesOn(p, source)
        BY <2>6, <3>1
      <4>2. RequestFits(requests[p], users, aliases, crossed)
        BY DEF AccountsInv
      <4>3. requests[p].pc = "merging" => requests[p].session \in Users
        BY <4>2 DEF RequestFits
      <4>4. requests[p].pc = "saved" => requests[p].who \in Users
        BY <4>2 DEF RequestFits
      <4> QED
        BY <2>1, <2>2, <4>1, <4>3, <4>4
    <3>2. /\ requests' = [requests EXCEPT ![r] = Idle] /\ Idle \in RequestRow
          /\ RequestFits(Idle, users', aliases', crossed')
      BY <1>1, EndsFit
    <3> QED
      BY <2>1, <2>4, <2>5, <2>6, <3>1, <3>2, OthersFit
  <2>8. /\ identities' \in IdentityRows
        /\ \A i \in Emails \cup {WeChat} :
             identities'[i] = IF identities[i] = source THEN target ELSE identities[i]
    BY <1>1, <1>4 DEF Typed, IdentityRows, MovedIdentities
  <2>9. Typed'
    <3>1. codes' \subseteq Emails
      BY <1>1, <1>4 DEF Typed
    <3>2. sessions' \in Seq(SessionRow)
      BY <1>1, <1>4, SessionsMove
    <3> QED
      BY <1>1, <2>1, <2>4, <2>6, <2>7, <2>8, <3>1, <3>2 DEF Typed
  <2>10. UsersFit'
    <3>1. \A v \in Users : users'[v].email = users[v].email
      BY <2>2, <2>3
    <3>2. \A v \in Users : users'[v].status = "none" => v # source
      BY <2>3
    <3>3. \A v \in Users : users'[v].status = "merged" => aliases'[v] # None
      BY <2>1, <2>2, Atoms DEF AccountsInv, UsersFit
    <3>4. \A v \in Users : users'[v].status = "none" => users'[v] = NoUser
      BY <2>2, <3>2 DEF AccountsInv, UsersFit
    <3>5. \A v, w \in Users : users'[v].email # None /\ users'[v].email = users'[w].email => v = w
      BY <3>1 DEF AccountsInv, UsersFit
    <3> QED
      BY <3>3, <3>4, <3>5 DEF UsersFit
  <2>11. AliasesFit'
    <3>1. \A v \in Users : aliases'[v] # None => users'[aliases'[v]].status # "none"
      <4>1. SUFFICES ASSUME NEW v \in Users, aliases'[v] # None
                     PROVE  users'[aliases'[v]].status # "none"
        OBVIOUS
      <4>2. CASE v = source
        BY <1>4, <2>1, <2>5, <4>2 DEF Exists
      <4>3. CASE v # source
        <5>1. aliases'[v] = aliases[v] /\ aliases[v] \in Users
          BY <1>1, <2>1, <4>1, <4>3, RowsOf
        <5> QED
          BY <2>5, <4>1, <5>1 DEF AccountsInv, AliasesFit
      <4> QED
        BY <4>2, <4>3
    <3>2. ~crossed' => \A u \in Users : \E v \in Users : Leads(aliases', u, v)
      <4>1. SUFFICES ASSUME ~crossed'
                     PROVE  \A u \in Users : \E v \in Users : Leads(aliases', u, v)
        OBVIOUS
      <4>2. ~crossed /\ aliases[target] = None
        BY <1>2, <2>6, <4>1
      <4>3. \A u \in Users : \E v \in Users : Leads(aliases, u, v)
        BY <4>2, EndOfIsLeads DEF AccountsInv, AliasesFit
      <4>4. aliases \in AliasRows
        BY <1>1 DEF Typed
      <4> QED
        BY <1>2, <1>4, <4>2, <4>3, <4>4, MergeKeepsEnds DEF MergedInto
    <3>3. \A u, v : (EndOf(u, v))' <=> Leads(aliases', u, v)
      BY DEF EndOf, Leads
    <3> QED
      BY <3>1, <3>2, <3>3 DEF AliasesFit
  <2>12. IdentitiesFit'
    <3>1. ~crossed' => users'[target].status # "merged"
      BY <1>2, <2>2, <2>6 DEF AccountsInv, UsersFit
    <3>2. users'[target].status # "none"
      BY <1>4, <2>5 DEF Exists
    <3>3. \A i \in Emails \cup {WeChat} : identities[i] \in Users \cup {None}
      BY <1>1, RowsOf
    <3> QED
      BY <2>2, <2>6, <2>8, <3>1, <3>2, <3>3 DEF AccountsInv, IdentitiesFit
  <2>13. SessionsFit'
    <3>1. users'[target].status # "none"
      BY <1>4, <2>5 DEF Exists
    <3>2. \A s \in 1..Len(sessions) : sessions[s].owner \in Users /\ users[sessions[s].owner].status # "none"
      BY <1>1, RowsOf DEF AccountsInv, SessionsFit
    <3>3. Len(sessions') = Len(sessions)
          /\ \A s \in 1..Len(sessions) : sessions'[s].owner \in {sessions[s].owner, target}
      BY <1>1, <1>4, SessionsMove
    <3>4. \A s \in 1..Len(sessions) : users'[sessions'[s].owner].status # "none"
      BY <2>5, <3>1, <3>2, <3>3
    <3> QED
      BY <3>3, <3>4 DEF SessionsFit
  <2>14. DeletionsFit'
    BY <1>1, <2>2, <2>3, <2>5 DEF AccountsInv, DeletionsFit
  <2> QED
    BY <2>7, <2>9, <2>10, <2>11, <2>12, <2>13, <2>14 DEF AccountsInv
<1> QED
  BY <1>2, <1>3, <1>4 DEF Merge

-------------------------------------------------------------------------------
(* Deletion *)

LEMMA SessionsRevoked ==
  ASSUME Typed, NEW O,
         sessions' = [t \in DOMAIN sessions |->
           IF sessions[t].owner \in O THEN [sessions[t] EXCEPT !.revoked = TRUE] ELSE sessions[t]]
  PROVE  /\ sessions' \in Seq(SessionRow) /\ Len(sessions') = Len(sessions)
         /\ \A t \in 1..Len(sessions) : /\ sessions[t].revoked => sessions'[t].revoked
                                       /\ sessions'[t].owner = sessions[t].owner
<1>1. ASSUME NEW t \in 1..Len(sessions)
      PROVE  /\ sessions'[t] \in SessionRow /\ (sessions[t].revoked => sessions'[t].revoked)
             /\ sessions'[t].owner = sessions[t].owner
  <2>1. sessions[t] \in SessionRow
    BY RowsOf
  <2>2. \/ sessions'[t] = sessions[t]
        \/ sessions'[t] = [sessions[t] EXCEPT !.revoked = TRUE]
    BY RowsOf
  <2> QED
    BY <2>1, <2>2 DEF SessionRow
<1>2. sessions' \in [1..Len(sessions) -> SessionRow]
  <2>1. sessions' = [t \in 1..Len(sessions) |-> sessions'[t]]
    BY RowsOf
  <2> QED
    BY <1>1, <2>1
<1>3. sessions' \in Seq(SessionRow) /\ Len(sessions') = Len(sessions)
  BY <1>2, RowsOf
<1> QED
  BY <1>1, <1>3

LEMMA AcceptDeletionKeeps ==
  ASSUME AccountsInv, NEW r \in Requests, AcceptDeletion(r), Exists(requests[r].who)
  PROVE  AccountsInv'
<1>1. UNCHANGED <<aliases, identities, codes, overwritten, crossed>> /\ Typed /\ End(r)
  BY DEF AcceptDeletion, AccountsInv
<1>2. PICK u \in Users : u = requests[r].who /\ users[u].status # "none"
  BY DEF AcceptDeletion, At, AccountsInv, RequestFits, Exists
<1>3. /\ deletions' = [deletions EXCEPT ![u] = "queued"]
      /\ users' = [users EXCEPT ![u].status = "pending_deletion"]
      /\ \E O : sessions' = [t \in DOMAIN sessions |->
           IF sessions[t].owner \in O THEN [sessions[t] EXCEPT !.revoked = TRUE]
           ELSE sessions[t]]
  BY <1>2 DEF AcceptDeletion, MarkedForDeletion
<1>4. /\ users'[u] \in UserRow /\ users'[u].status = "pending_deletion"
      /\ users'[u].email = users[u].email /\ \A v \in Users \ {u} : users'[v] = users[v]
  <2>1. /\ users'[u] = [users[u] EXCEPT !.status = "pending_deletion"]
        /\ \A v \in Users \ {u} : users'[v] = users[v]
    BY <1>1, <1>3, RowsOf
  <2>2. users[u] \in UserRow
    BY <1>1, RowsOf
  <2> QED
    BY <2>1, <2>2 DEF UserRow, Statuses
<1>5. users' \in [Users -> UserRow]
  <2>1. users' = [v \in Users |-> users'[v]]
    BY <1>1, <1>3, RowsOf
  <2> QED
    BY <1>1, <1>4, <2>1, RowsOf
<1>6. \A v \in Users : /\ users[v].status # "none" => users'[v].status # "none"
                       /\ users'[v].status = "merged" => users[v].status = "merged"
                       /\ users'[v].email = users[v].email
                       /\ users'[v].status = "none" => users'[v] = users[v]
  BY <1>4
<1>7. /\ sessions' \in Seq(SessionRow) /\ Len(sessions') = Len(sessions)
      /\ \A t \in 1..Len(sessions) : sessions'[t].owner = sessions[t].owner
  BY <1>1, <1>3, SessionsRevoked
<1>8. UsersFit'
  BY <1>1, <1>6 DEF AccountsInv, UsersFit
<1>9. AliasesFit'
  BY <1>1, <1>6, RowsOf DEF AccountsInv, AliasesFit, EndOf
<1>10. IdentitiesFit'
  BY <1>1, <1>6, RowsOf DEF AccountsInv, IdentitiesFit
<1>11. SessionsFit'
  BY <1>1, <1>6, <1>7, RowsOf DEF AccountsInv, SessionsFit
<1>12. /\ requests' \in [Requests -> RequestRow]
       /\ \A p \in Requests : RequestFits(requests'[p], users', aliases', crossed')
  <2>1. /\ requests' = [requests EXCEPT ![r] = Idle] /\ Idle \in RequestRow
        /\ RequestFits(Idle, users', aliases', crossed')
    BY <1>1, EndsFit
  <2>2. aliases' = aliases /\ crossed' = crossed /\ aliases' \in AliasRows /\ crossed' \in BOOLEAN
    BY <1>1 DEF Typed
  <2>3. \A p \in Requests : requests[p].pc = "saved" => requests[p].who \in Users
    BY DEF AccountsInv, RequestFits
  <2> QED
    BY <1>5, <1>6, <2>1, <2>2, <2>3, OthersFit
<1>13. Typed'
  BY <1>1, <1>3, <1>5, <1>7, <1>12 DEF Typed
<1>14. DeletionsFit'
  BY <1>1, <1>3, <1>4 DEF AccountsInv, Typed, DeletionsFit
<1> QED
  BY <1>8, <1>9, <1>10, <1>11, <1>12, <1>13, <1>14 DEF AccountsInv

LEMMA DeletionRefused ==
  ASSUME AccountsInv, NEW r \in Requests, AcceptDeletion(r), ~Exists(requests[r].who)
  PROVE  AccountsInv'
<1>1. TablesStay /\ UNCHANGED sessions /\ codes' \subseteq Emails /\ End(r)
  BY DEF AcceptDeletion, TablesStay, AccountsInv, Typed
<1> QED
  BY <1>1, EndsFit, RequestStep

\* The account goes with the accounts that lead to it, and with everything of theirs.
LEMMA DeleteAccountKeeps ==
  ASSUME AccountsInv, NEW d \in Users, DeleteAccount(d)
  PROVE  AccountsInv'
<1>1. UNCHANGED <<codes, requests, overwritten, crossed>> /\ Typed
  BY DEF DeleteAccount, AccountsInv
<1>2. PICK owner \in Users : owner = Canonical(d) /\ Leads(aliases, d, owner)
  BY <1>1, CanonicalIs DEF DeleteAccount
<1>3. PICK O \in SUBSET Users : O = OwnerIds(owner)
  BY DEF OwnerIds
<1>4. \A u \in Users : u \in O <=> Leads(aliases, u, owner)
  <2>1. \A u \in Users : u \in O <=> Canonical(u) = owner
    BY <1>3 DEF OwnerIds
  <2> QED
    BY <1>1, <2>1, CanonicalIs, Atoms
<1>5. owner \in O
  BY <1>1, <1>2, <1>4, OneStep DEF Leads, Typed
<1>6. /\ users' = [v \in Users |->
           IF v = owner THEN [NoUser EXCEPT !.status = "deleted"]
           ELSE IF v \in O THEN [NoUser EXCEPT !.status = "gone"]
           ELSE users[v]]
      /\ identities' = [i \in DOMAIN identities |->
           IF identities[i] \in O THEN None ELSE identities[i]]
      /\ aliases' = [v \in Users |-> IF v \in O THEN None ELSE aliases[v]]
      /\ sessions' = [t \in DOMAIN sessions |->
           IF sessions[t].owner \in O THEN [sessions[t] EXCEPT !.revoked = TRUE] ELSE sessions[t]]
      /\ deletions' = [v \in Users |->
           IF v \in O /\ deletions[v] = "queued" THEN "ended" ELSE deletions[v]]
  BY <1>2, <1>3 DEF DeleteAccount
<1> DEFINE erased == [NoUser EXCEPT !.status = "deleted"]
           empty  == [NoUser EXCEPT !.status = "gone"]
<1>7. /\ erased \in UserRow /\ erased.status = "deleted" /\ erased.email = None
      /\ empty \in UserRow /\ empty.status = "gone" /\ empty.email = None
  BY DEF NoUser, UserRow, Statuses
<1>8. \A v \in Users : users'[v] = IF v = owner THEN erased ELSE IF v \in O THEN empty ELSE users[v]
  BY <1>6
<1> HIDE DEF erased, empty
<1>9. /\ users' \in [Users -> UserRow] /\ aliases' \in AliasRows
      /\ \A v \in Users : aliases'[v] = IF v \in O THEN None ELSE aliases[v]
  <2>1. \A v \in Users : users'[v] \in UserRow
    BY <1>1, <1>7, <1>8, RowsOf
  <2>2. users' = [v \in Users |-> users'[v]]
    BY <1>6
  <2> QED
    BY <1>1, <1>6, <2>1, <2>2, RowsOf DEF AliasRows
<1>10. \A v \in Users : /\ users[v].status # "none" => users'[v].status # "none"
                        /\ users'[v].status = "merged" => users[v].status = "merged" /\ v \notin O
                        /\ v \in O => users'[v].status \in {"deleted", "gone"}
  BY <1>5, <1>7, <1>8
<1>11. /\ requests' \in [Requests -> RequestRow]
       /\ \A p \in Requests : RequestFits(requests'[p], users', aliases', crossed')
  <2>1. \A p \in Requests : requests[p] \in RequestRow /\ RequestFits(requests[p], users, aliases, crossed)
    BY <1>1, RowsOf DEF AccountsInv
  <2>2. \A p \in Requests : /\ requests[p].pc = "saved" => requests[p].who \in Users
                            /\ requests[p].pc = "merging" => requests[p].session \in Users
    BY <2>1 DEF RequestFits
  <2>3. \A p \in Requests : RequestFits(requests[p], users', aliases', crossed)
    BY <1>1, <1>9, <1>10, <2>1, <2>2, StillFits DEF Typed
  <2> QED
    BY <1>1, <2>3 DEF Typed
<1>12. /\ identities' \in IdentityRows
       /\ \A i \in Emails \cup {WeChat} :
            identities'[i] # None => identities'[i] = identities[i] /\ identities[i] \notin O
  BY <1>1, <1>6 DEF Typed, IdentityRows
<1>13. Typed'
  <2>1. sessions' \in Seq(SessionRow)
    BY <1>1, <1>6, SessionsRevoked
  <2>2. deletions' \in [Users -> {"none", "queued", "ended"}]
    BY <1>1, <1>6 DEF Typed
  <2> QED
    BY <1>1, <1>9, <1>11, <1>12, <2>1, <2>2 DEF Typed
<1>14. UsersFit'
  <2>1. \A v \in Users : users'[v].status = "none" => users'[v] = NoUser
    BY <1>5, <1>8, <1>10 DEF AccountsInv, UsersFit
  <2>2. \A v \in Users : users'[v].email # None => users'[v] = users[v]
    BY <1>7, <1>8
  <2>3. \A v, w \in Users : users'[v].email # None /\ users'[v].email = users'[w].email => v = w
    BY <2>2 DEF AccountsInv, UsersFit
  <2>4. \A v \in Users : users'[v].status = "merged" => aliases'[v] # None
    BY <1>9, <1>10 DEF AccountsInv, UsersFit
  <2> QED
    BY <2>1, <2>3, <2>4 DEF UsersFit
<1>15. AliasesFit'
  <2>1. \A v \in Users : aliases'[v] # None => users'[aliases'[v]].status # "none"
    BY <1>1, <1>9, <1>10, RowsOf DEF AccountsInv, AliasesFit
  <2>2. ~crossed' => \A u \in Users : \E v \in Users : Leads(aliases', u, v)
    <3>1. ~crossed' => \A u \in Users : \E v \in Users : Leads(aliases, u, v)
      BY <1>1, EndOfIsLeads DEF AccountsInv, AliasesFit
    <3>2. aliases \in AliasRows
      BY <1>1 DEF Typed
    <3> QED
      BY <1>4, <1>9, <3>1, <3>2, DeletionKeepsEnds
  <2>3. \A u, v : (EndOf(u, v))' <=> Leads(aliases', u, v)
    BY DEF EndOf, Leads
  <2> QED
    BY <2>1, <2>2, <2>3 DEF AliasesFit
<1>16. IdentitiesFit'
  BY <1>1, <1>10, <1>12, RowsOf DEF AccountsInv, IdentitiesFit
<1>17. SessionsFit'
  BY <1>1, <1>6, <1>10, SessionsRevoked, RowsOf DEF AccountsInv, SessionsFit
<1>18. DeletionsFit'
  <2>1. ASSUME NEW v \in Users, deletions'[v] # "none"
        PROVE  users'[v].status # "none" /\ (users'[v].status = "active" => v \in overwritten')
    <3>1. deletions[v] # "none"
      BY <1>6, <2>1
    <3>2. users[v].status # "none" /\ (users[v].status = "active" => v \in overwritten)
      BY <3>1 DEF AccountsInv, DeletionsFit
    <3>3. users'[v].status = "active" => users'[v] = users[v]
      BY <1>5, <1>8, <1>10
    <3> QED
      BY <1>1, <1>10, <3>2, <3>3
  <2> QED
    BY <2>1 DEF DeletionsFit
<1>19. (\A p \in Requests : RequestFits(requests[p], users, aliases, crossed))'
  BY <1>11
<1> QED
  BY <1>13, <1>14, <1>15, <1>16, <1>17, <1>18, <1>19 DEF AccountsInv

-------------------------------------------------------------------------------
(* The theorems *)

LEMMA InitInv ==
  ASSUME AccountsInit
  PROVE  AccountsInv
<1>1. Typed
  <2>1. users \in [Users -> UserRow] /\ requests \in [Requests -> RequestRow]
    BY Atoms, IdleFits DEF AccountsInit
  <2>2. sessions \in Seq(SessionRow)
    BY DEF AccountsInit
  <2> QED
    BY <2>1, <2>2 DEF AccountsInit, Typed, AliasRows, IdentityRows
<1>2. \A u \in Users : users[u] = NoUser /\ aliases[u] = None
  BY DEF AccountsInit
<1>3. UsersFit
  BY <1>2, Atoms DEF UsersFit
<1>4. AliasesFit
  <2>1. \A u \in Users : Leads(aliases, u, u)
    BY <1>1, <1>2, OneStep DEF Typed
  <2> QED
    BY <1>2, <2>1, EndOfIsLeads DEF AliasesFit
<1>5. IdentitiesFit /\ SessionsFit /\ DeletionsFit
  BY DEF AccountsInit, IdentitiesFit, SessionsFit, DeletionsFit
<1>6. \A p \in Requests : RequestFits(requests[p], users, aliases, crossed)
  BY IdleFits DEF AccountsInit
<1> QED
  BY <1>1, <1>3, <1>4, <1>5, <1>6 DEF AccountsInv

LEMMA NextInv ==
  ASSUME AccountsInv, TokensFit, [AccountsNext]_accountVars
  PROVE  AccountsInv'
<1>1. CASE \E e \in Emails : StartEmail(e) \/ CodeIsGone(e)
  BY <1>1, CodesKeep
<1>2. ASSUME NEW r \in Requests, NEW e \in Emails, NEW op \in {"verify", "register"}, ReadByCode(r, op, e)
      PROVE  AccountsInv'
  <2>1. Ask(r, "read", op, e, FindByEmail(e), None) /\ TablesStay /\ UNCHANGED <<sessions, codes>>
    BY <1>2 DEF ReadByCode, TablesStay
  <2> QED
    BY <2>1, AskStep, FindsOne DEF Operations
<1>3. ASSUME NEW r \in Requests, NEW e \in Emails, ReadByPassword(r, e)
      PROVE  AccountsInv'
  <2>1. /\ Ask(r, "known", "password", e, FindByEmail(e), None) /\ TablesStay
        /\ UNCHANGED <<sessions, codes>> /\ FindByEmail(e) # None
    BY <1>3 DEF ReadByPassword, TablesStay
  <2> QED
    BY <2>1, AskStep, FindsOne DEF Operations
<1>4. ASSUME NEW r \in Requests, NEW s \in DOMAIN sessions,
             ReadByToken(r, s) \/ ReadForLogout(r, s) \/ ReadForDeletion(r, s)
      PROVE  AccountsInv'
  <2>1. s \in 1..Len(sessions) /\ s \in Nat
    BY RowsOf DEF AccountsInv
  <2>2. CASE ReadByToken(r, s)
    <3>1. /\ Ask(r, "read", "refresh", None, Authenticated(s), s) /\ TablesStay
          /\ UNCHANGED <<sessions, codes>> /\ Authenticated(s) # None
      BY <2>2 DEF ReadByToken, TablesStay
    <3> QED
      BY <2>1, <3>1, AskStep, AuthenticatedIs DEF Operations
  <2>3. CASE ReadForLogout(r, s)
    <3>1. /\ Ask(r, "read", "logout", None, None, s) /\ TablesStay /\ UNCHANGED <<sessions, codes>>
      BY <2>3 DEF ReadForLogout, TablesStay
    <3> QED
      BY <2>1, <3>1, AskStep DEF Operations
  <2>4. CASE ReadForDeletion(r, s)
    <3>1. /\ Ask(r, "read", "delete", None, Authenticated(s), None) /\ TablesStay
          /\ UNCHANGED <<sessions, codes>> /\ Authenticated(s) # None
      BY <2>4 DEF ReadForDeletion, TablesStay
    <3> QED
      BY <2>1, <3>1, AskStep, AuthenticatedIs DEF Operations
  <2> QED
    BY <1>4, <2>2, <2>3, <2>4
<1>5. ASSUME NEW r \in Requests, NEW s \in DOMAIN sessions, NEW e \in Emails, ReadForBind(r, s, e)
      PROVE  AccountsInv'
  <2>1. /\ Ask(r, "read", "bind", e, Authenticated(s), FindByEmail(e)) /\ TablesStay
        /\ UNCHANGED <<sessions, codes>> /\ Authenticated(s) # None
    BY <1>5 DEF ReadForBind, TablesStay
  <2>2. s \in 1..Len(sessions) /\ FindByEmail(e) \in Users \cup {None}
    BY RowsOf, FindsOne DEF AccountsInv
  <2> QED
    BY <2>1, <2>2, AskStep, AuthenticatedIs, FindsOne DEF Operations
<1>6. ASSUME NEW r \in Requests, ReadByWeChat(r) \/ CreateAccount(r) \/ EnterAccount(r) \/ LoginWeChat(r)
      PROVE  AccountsInv'
  BY <1>6, ReadByWeChatKeeps, CreatesKeep, EntersKeep DEF LoginWeChat
<1>7. ASSUME NEW r \in Requests,
             SetPassword(r) \/ OpenSession(r) \/ ReadSession(r) \/ SaveSession(r) \/ ReadOwners(r)
      PROVE  AccountsInv'
  <2>1. ReadSession(r) => requests[r].session \in 1..Len(sessions)
    BY DEF ReadSession, At, TokensFit
  <2> QED
    BY <1>7, <2>1, SetPasswordKeeps, OpenSessionKeeps, ReadSessionKeeps, SaveSessionKeeps, ReadOwnersKeeps
<1>8. ASSUME NEW r \in Requests, ReadTarget(r) \/ Merge(r) \/ SaveUser(r) \/ SaveIdentity(r)
      PROVE  AccountsInv'
  BY <1>8, ReadTargetKeeps, MergeKeeps, SaveUserKeeps, SaveIdentityKeeps
<1>9. ASSUME NEW r \in Requests, AcceptDeletion(r)
      PROVE  AccountsInv'
  BY <1>9, AcceptDeletionKeeps, DeletionRefused
<1>10. CASE \E u \in Users : DeleteAccount(u)
  BY <1>10, DeleteAccountKeeps
<1>11. CASE UNCHANGED accountVars
  <2>1. TablesStay /\ UNCHANGED <<sessions, codes, requests>>
    BY <1>11 DEF accountVars, TablesStay
  <2> QED
    BY <2>1, QuietStep DEF AccountsInv, Typed, SessionsFit
<1> QED
  BY <1>1, <1>2, <1>3, <1>4, <1>5, <1>6, <1>7, <1>8, <1>9, <1>10, <1>11 DEF AccountsNext

-------------------------------------------------------------------------------
(* Whose a token is *)

\* Aliases and accepted deletions are of accounts that exist; a row that is gone has none.
RowsExist ==
  /\ \A u \in Users : aliases[u] # None => Exists(u) /\ Exists(aliases[u])
  /\ \A u \in Users : deletions[u] = "queued" => Exists(u)

TokensInv == RowsExist /\ TokensFit /\ TokensKeepTheirAccount

\* Canonical, of any table of aliases.
CanonicalOf(al, u) ==
  IF \E v \in Users : Leads(al, u, v) THEN CHOOSE v \in Users : Leads(al, u, v) ELSE None

LEMMA CanonicalsAre ==
  \A u : Canonical(u) = CanonicalOf(aliases, u) /\ Canonical(u)' = CanonicalOf(aliases', u)
BY DEF Canonical, CanonicalOf, EndOf, Leads

LEMMA CanonicalOfIs ==
  ASSUME NEW al \in AliasRows, NEW u \in Users, NEW v \in Users, Leads(al, u, v)
  PROVE  CanonicalOf(al, u) = v
<1>1. CanonicalOf(al, u) \in Users /\ Leads(al, u, CanonicalOf(al, u))
  BY DEF CanonicalOf
<1> QED
  BY <1>1, OneEnd

LEMMA OwnersOf ==
  \A s, u : u \in TokenOwners(s) <=>
    \/ u = sessions[s].owner
    \/ u \in Users /\ \E r \in Requests :
         /\ requests[r].op \in {"refresh", "logout"} /\ requests[r].session = s
         /\ u \in {requests[r].who, requests[r].owner}
BY DEF TokenOwners

LEMMA OwnersNow ==
  \A s, u : u \in TokenOwners(s)' <=>
    \/ u = sessions'[s].owner
    \/ u \in Users /\ \E r \in Requests :
         /\ requests'[r].op \in {"refresh", "logout"} /\ requests'[r].session = s
         /\ u \in {requests'[r].who, requests'[r].owner}
BY DEF TokenOwners

\* The owners of a token are accounts that were inserted.
LEMMA OwnersAre ==
  ASSUME AccountsInv, NEW s \in 1..Len(sessions)
  PROVE  /\ sessions[s].owner \in TokenOwners(s)
         /\ \A u \in TokenOwners(s) : u \in Users /\ users[u].status # "none"
<1>1. sessions[s].owner \in Users /\ users[sessions[s].owner].status # "none"
  BY RowsOf DEF AccountsInv, SessionsFit
<1>2. \A r \in Requests : \A u \in {requests[r].who, requests[r].owner} :
        u # None => u \in Users /\ users[u].status # "none"
  BY RowsOf DEF AccountsInv, RequestRow, RequestFits
<1>3. \A u \in TokenOwners(s) :
        \/ u = sessions[s].owner
        \/ u \in Users /\ \E r \in Requests : u \in {requests[r].who, requests[r].owner}
  BY OwnersOf
<1> QED
  BY <1>1, <1>2, <1>3, Atoms, OwnersOf

\* An account that a request may take for the owner of a token: one of its owners, or one
\* that stands for the same.
StandsFor(s, w) ==
  \/ w \in TokenOwners(s)
  \/ \E v \in TokenOwners(s) : Exists(v) /\ Canonical(w) = Canonical(v)

Exempt == crossed \/ overwritten # {}

\* What a step leaves of the rows that tokens depend on, but for merges and deletions.
RowsStay ==
  /\ aliases' = aliases /\ (crossed => crossed') /\ overwritten \subseteq overwritten'
  /\ \A u \in Users : Exists(u) => Exists(u)'
  /\ \A u \in Users : deletions'[u] = "queued" => deletions[u] = "queued" \/ Exists(u)
  /\ overwritten' = {} =>
       \A u \in Users : users[u].status # "none" /\ Exists(u)' => Exists(u)

LEMMA RowsStayExist ==
  ASSUME AccountsInv, RowsExist, RowsStay
  PROVE  RowsExist'
BY RowsOf DEF AccountsInv, RowsExist, RowsStay

\* A request of a token goes on with accounts that stand for the token's.
LEMMA TokensStep ==
  ASSUME AccountsInv, TokensInv, RowsStay, sessions' \in Seq(SessionRow),
         NEW r \in Requests, \A p \in Requests \ {r} : requests'[p] = requests[p],
         requests'[r].op \in {"refresh", "logout"} =>
           /\ requests'[r].session \in 1..Len(sessions)
           /\ \A w \in {requests'[r].who, requests'[r].owner} \ {None} :
                w \in Users /\ StandsFor(requests'[r].session, w),
         Len(sessions') >= Len(sessions),
         \A s \in 1..Len(sessions) : sessions'[s].owner \in TokenOwners(s),
         \A s \in 1..Len(sessions') :
           s \in 1..Len(sessions) \/ TokenOwners(s)' = {sessions'[s].owner}
  PROVE  TokensInv'
<1>1. RowsExist'
  BY RowsStayExist DEF TokensInv
<1>2. Len(sessions) \in Nat /\ Len(sessions') \in Nat /\ DOMAIN sessions' = 1..Len(sessions')
  BY RowsOf DEF AccountsInv
<1>3. TokensFit'
  BY <1>2 DEF TokensInv, TokensFit
<1>4. ASSUME ~Exempt', NEW s \in 1..Len(sessions), NEW u \in TokenOwners(s)', Exists(u)'
      PROVE  \E v \in TokenOwners(s) : Exists(v) /\ Canonical(u)' = Canonical(v)
  <2>1. u \in Users /\ StandsFor(s, u)
    <3>1. CASE u = sessions'[s].owner
      BY <3>1, OwnersAre DEF StandsFor
    <3>2. CASE u \in Users /\ \E p \in Requests :
                 /\ requests'[p].op \in {"refresh", "logout"} /\ requests'[p].session = s
                 /\ u \in {requests'[p].who, requests'[p].owner}
      <4>1. PICK p \in Requests : /\ requests'[p].op \in {"refresh", "logout"}
                                  /\ requests'[p].session = s
                                  /\ u \in {requests'[p].who, requests'[p].owner} \ {None}
        BY <3>2, Atoms
      <4>2. CASE p = r
        BY <4>1, <4>2
      <4>3. CASE p # r
        <5>1. u \in TokenOwners(s)
          BY <3>2, <4>1, <4>3, OwnersOf
        <5> QED
          BY <5>1, OwnersAre DEF StandsFor
      <4> QED
        BY <4>2, <4>3
    <3> QED
      BY <1>4, <3>1, <3>2, OwnersNow
  <2>2. Canonical(u)' = Canonical(u)
    BY CanonicalsAre DEF RowsStay
  <2>3. u \in TokenOwners(s) => Exists(u)
    BY <1>4, <2>1, OwnersAre DEF RowsStay, Exempt
  <2> QED
    BY <2>1, <2>2, <2>3 DEF StandsFor
<1>5. TokensKeepTheirAccount'
  <2>1. SUFFICES ASSUME ~Exempt', NEW s \in 1..Len(sessions'),
                        NEW u \in TokenOwners(s)', Exists(u)',
                        NEW v \in TokenOwners(s)', Exists(v)'
                 PROVE  Canonical(u)' = Canonical(v)'
    BY <1>2 DEF TokensKeepTheirAccount, Exempt
  <2>2. CASE s \notin 1..Len(sessions)
    BY <2>1, <2>2
  <2>3. CASE s \in 1..Len(sessions)
    <3>1. PICK x \in TokenOwners(s) : Exists(x) /\ Canonical(u)' = Canonical(x)
      BY <1>4, <2>1, <2>3
    <3>2. PICK y \in TokenOwners(s) : Exists(y) /\ Canonical(v)' = Canonical(y)
      BY <1>4, <2>1, <2>3
    <3>3. ~Exempt /\ DOMAIN sessions = 1..Len(sessions)
      BY <2>1, RowsOf DEF RowsStay, Exempt, AccountsInv
    <3>4. Canonical(x) = Canonical(y)
      BY <2>3, <3>1, <3>2, <3>3 DEF TokensInv, TokensKeepTheirAccount, Exempt
    <3> QED
      BY <3>1, <3>2, <3>4
  <2> QED
    BY <2>2, <2>3
<1> QED
  BY <1>1, <1>3, <1>5 DEF TokensInv

\* The same, when sessions stay with their owners.
LEMMA TokensStepHere ==
  ASSUME AccountsInv, TokensInv, RowsStay, sessions' \in Seq(SessionRow),
         Len(sessions') = Len(sessions),
         \A s \in 1..Len(sessions) : sessions'[s].owner = sessions[s].owner,
         NEW r \in Requests, \A p \in Requests \ {r} : requests'[p] = requests[p],
         requests'[r].op \in {"refresh", "logout"} =>
           /\ requests'[r].session \in 1..Len(sessions)
           /\ \A w \in {requests'[r].who, requests'[r].owner} \ {None} :
                w \in Users /\ StandsFor(requests'[r].session, w)
  PROVE  TokensInv'
<1>1. Len(sessions') >= Len(sessions)
  BY RowsOf DEF AccountsInv
<1> QED
  BY <1>1, OwnersAre, TokensStep

LEMMA TablesStayRows ==
  ASSUME TablesStay
  PROVE  RowsStay
BY DEF TablesStay, RowsStay, Exists

LEMMA AskTokens ==
  ASSUME AccountsInv, TokensInv, TablesStay, UNCHANGED sessions, NEW r \in Requests,
         NEW pc, NEW op, NEW subject, NEW who, NEW session, Ask(r, pc, op, subject, who, session),
         op \in {"refresh", "logout"} =>
           /\ session \in 1..Len(sessions)
           /\ who # None => who \in Users /\ StandsFor(session, who)
  PROVE  TokensInv'
<1>1. /\ requests'[r].op = op /\ requests'[r].session = session
      /\ requests'[r].who = who /\ requests'[r].owner = None
      /\ \A p \in Requests \ {r} : requests'[p] = requests[p]
  BY RowsOf DEF AccountsInv, Ask
<1>2. sessions' \in Seq(SessionRow)
  BY DEF AccountsInv, Typed
<1> QED
  BY <1>1, <1>2, TablesStayRows, TokensStepHere

\* A request that serves no token, and goes on or ends.
LEMMA OtherMoves ==
  ASSUME AccountsInv, NEW r \in Requests, requests[r].op \notin {"refresh", "logout"},
         \/ End(r)
         \/ \E pc : Step(r, pc)
         \/ \E pc, x : requests' = [requests EXCEPT ![r].pc = pc, ![r].who = x]
         \/ \E pc, x : requests' = [requests EXCEPT ![r].pc = pc, ![r].session = x]
         \/ \E pc, x, y : requests' = [requests EXCEPT ![r].pc = pc, ![r].who = x, ![r].owners = y]
  PROVE  /\ requests'[r].op \notin {"refresh", "logout"}
         /\ \A p \in Requests \ {r} : requests'[p] = requests[p]
<1>1. requests \in [Requests -> RequestRow] /\ requests[r] \in RequestRow
  BY RowsOf DEF AccountsInv
<1>2. CASE End(r)
  <2>1. requests'[r] = Idle
    BY <1>1, <1>2 DEF End
  <2>2. Idle.op = "none"
    BY DEF Idle
  <2> QED
    BY <1>1, <1>2, <2>1, <2>2 DEF End
<1>3. CASE \E pc : Step(r, pc)
  BY <1>1, <1>3 DEF Step, RequestRow
<1>4. CASE \E pc, x : requests' = [requests EXCEPT ![r].pc = pc, ![r].who = x]
  BY <1>1, <1>4 DEF RequestRow
<1>5. CASE \E pc, x : requests' = [requests EXCEPT ![r].pc = pc, ![r].session = x]
  BY <1>1, <1>5 DEF RequestRow
<1>6. CASE \E pc, x, y : requests' = [requests EXCEPT ![r].pc = pc, ![r].who = x, ![r].owners = y]
  <2>1. PICK pc, x, y : requests' = [requests EXCEPT ![r].pc = pc, ![r].who = x, ![r].owners = y]
    BY <1>6
  <2>2. /\ requests'[r] = [requests[r] EXCEPT !.pc = pc, !.who = x, !.owners = y]
        /\ \A p \in Requests \ {r} : requests'[p] = requests[p]
    BY <1>1, <2>1
  <2>3. requests'[r].op = requests[r].op
    BY <1>1, <2>2 DEF RequestRow
  <2> QED
    BY <2>2, <2>3
<1> QED
  BY <1>2, <1>3, <1>4, <1>5, <1>6

\* Registrations, logins and bindings, whatever they do to the rows of accounts.
LEMMA OthersKeepTokens ==
  ASSUME AccountsInv, TokensInv, NEW r \in Requests,
         \/ CreateAccount(r) \/ EnterAccount(r) \/ LoginWeChat(r) \/ SetPassword(r)
         \/ ReadTarget(r) \/ SaveUser(r) \/ SaveIdentity(r) \/ ReadOwners(r)
  PROVE  TokensInv'
<1>1. /\ UNCHANGED <<aliases, sessions, deletions, crossed>> /\ sessions' \in Seq(SessionRow)
      /\ users \in [Users -> UserRow] /\ requests[r] \in RequestRow
      /\ RequestFits(requests[r], users, aliases, crossed)
  <2>1. UNCHANGED <<aliases, sessions, deletions, crossed>>
    BY DEF CreateAccount, EnterAccount, LoginWeChat, InsertAccount, PassByStatus, SetPassword,
           ReadTarget, SaveUser, SaveIdentity, ReadOwners
  <2> QED
    BY <2>1, RowsOf DEF AccountsInv, Typed
<1>2. requests[r].op \notin {"refresh", "logout"}
  BY DEF At, CreateAccount, EnterAccount, LoginWeChat, SetPassword, ReadTarget, SaveUser,
         SaveIdentity, ReadOwners
<1>3. \/ End(r)
      \/ \E pc : Step(r, pc)
      \/ \E pc, x : requests' = [requests EXCEPT ![r].pc = pc, ![r].who = x]
      \/ \E pc, x : requests' = [requests EXCEPT ![r].pc = pc, ![r].session = x]
      \/ \E pc, x, y : requests' = [requests EXCEPT ![r].pc = pc, ![r].who = x, ![r].owners = y]
  <2>1. ASSUME NEW email, InsertAccount(r, email)
        PROVE  \/ End(r)
               \/ \E pc, x : requests' = [requests EXCEPT ![r].pc = pc, ![r].who = x]
    BY <2>1 DEF InsertAccount
  <2>2. PassByStatus(r) => End(r) \/ Step(r, "known")
    BY DEF PassByStatus
  <2>3. CASE CreateAccount(r) \/ EnterAccount(r) \/ LoginWeChat(r)
    BY <2>1, <2>2, <2>3 DEF CreateAccount, EnterAccount, LoginWeChat
  <2>4. CASE SetPassword(r) \/ SaveUser(r) \/ SaveIdentity(r)
    BY <2>4 DEF SetPassword, SaveUser, SaveIdentity
  <2>5. CASE ReadTarget(r)
    BY <2>5 DEF ReadTarget
  <2>6. CASE ReadOwners(r)
    BY <2>6 DEF ReadOwners
  <2> QED
    BY <2>3, <2>4, <2>5, <2>6
<1>4. RowsStay
  <2>1. ASSUME NEW email, InsertAccount(r, email), users' # users
        PROVE  RowsStay
    <3>1. PICK u \in Users : /\ users[u].status = "none"
                             /\ \E pw : users' = [users EXCEPT ![u] =
                                  [status |-> "active", email |-> email, password |-> pw]]
      BY <2>1 DEF InsertAccount
    <3>2. overwritten' = overwritten
      BY <2>1 DEF InsertAccount
    <3> QED
      BY <1>1, <3>1, <3>2 DEF RowsStay, Exists
  <2>2. ASSUME SetPassword(r), users' # users
        PROVE  RowsStay
    <3>1. users' = [users EXCEPT ![requests[r].who].password = r] /\ overwritten' = overwritten
      BY <2>2 DEF SetPassword
    <3>2. \A u \in Users : users'[u].status = users[u].status
      <4>1. \A u \in Users : users[u] \in UserRow
        BY <1>1
      <4> QED
        BY <1>1, <3>1, <4>1 DEF UserRow
    <3> QED
      BY <1>1, <3>1, <3>2 DEF RowsStay, Exists
  <2>3. ASSUME SaveUser(r), users' # users
        PROVE  RowsStay
    <3>1. PICK u \in Users, old \in UserRow :
            u = requests[r].who /\ old = requests[r].user /\ old.status = "active"
      BY <1>1, <2>3 DEF SaveUser, At, RequestFits, RequestRow
    <3>2. /\ users' = [users EXCEPT ![u] = [old EXCEPT !.email = requests[r].subject]]
          /\ overwritten' = IF users[u] = old THEN overwritten ELSE overwritten \cup {u}
      BY <2>3, <3>1 DEF SaveUser
    <3>3. users'[u].status = "active" /\ \A v \in Users \ {u} : users'[v] = users[v]
      BY <1>1, <3>1, <3>2 DEF UserRow
    <3>4. overwritten' = {} => users[u].status = "active"
      BY <3>1, <3>2
    <3> QED
      BY <1>1, <3>2, <3>3, <3>4 DEF RowsStay, Exists
  <2>4. CASE users' = users
    <3>1. overwritten \subseteq overwritten'
      BY <2>4 DEF CreateAccount, EnterAccount, LoginWeChat, InsertAccount, PassByStatus, SetPassword,
             ReadTarget, SaveUser, SaveIdentity, ReadOwners
    <3> QED
      BY <1>1, <2>4, <3>1 DEF RowsStay, Exists
  <2>5. users' = users \/ SetPassword(r) \/ SaveUser(r) \/ \E email : InsertAccount(r, email)
    BY DEF CreateAccount, EnterAccount, LoginWeChat, PassByStatus, ReadTarget, SaveIdentity, ReadOwners
  <2> QED
    BY <2>1, <2>2, <2>3, <2>4, <2>5
<1>5. /\ requests'[r].op \notin {"refresh", "logout"}
      /\ \A p \in Requests \ {r} : requests'[p] = requests[p]
  BY <1>2, <1>3, OtherMoves
<1>6. Len(sessions') = Len(sessions) /\ \A s \in 1..Len(sessions) : sessions'[s].owner = sessions[s].owner
  BY <1>1
<1> QED
  BY <1>1, <1>4, <1>5, <1>6, TokensStepHere

\* accept_deletion marks an account that exists, and leaves sessions with their owners.
LEMMA AcceptKeepsTokens ==
  ASSUME AccountsInv, TokensInv, NEW r \in Requests, AcceptDeletion(r)
  PROVE  TokensInv'
<1>1. /\ Typed /\ users \in [Users -> UserRow] /\ End(r) /\ requests[r].op = "delete"
      /\ UNCHANGED <<aliases, overwritten, crossed>>
  BY DEF AcceptDeletion, At, AccountsInv, Typed
<1>2. /\ requests'[r].op \notin {"refresh", "logout"}
      /\ \A p \in Requests \ {r} : requests'[p] = requests[p]
  BY <1>1, OtherMoves
<1>3. /\ sessions' \in Seq(SessionRow) /\ Len(sessions') = Len(sessions)
      /\ \A s \in 1..Len(sessions) : sessions'[s].owner = sessions[s].owner
  <2>1. CASE sessions' = sessions
    BY <1>1, <2>1 DEF Typed
  <2>2. CASE Exists(requests[r].who)
    BY <1>1, <2>2, SessionsRevoked DEF AcceptDeletion
  <2> QED
    BY <2>1, <2>2 DEF AcceptDeletion
<1>4. RowsStay
  <2>1. CASE Exists(requests[r].who)
    <3>1. PICK u : u = requests[r].who
      OBVIOUS
    <3>2. /\ Exists(u) /\ deletions' = [deletions EXCEPT ![u] = "queued"]
          /\ users' = [users EXCEPT ![u].status = "pending_deletion"]
      BY <2>1, <3>1 DEF AcceptDeletion, MarkedForDeletion
    <3>3. \A v \in Users : users'[v].status = IF v = u THEN "pending_deletion" ELSE users[v].status
      <4>1. SUFFICES ASSUME NEW v \in Users
                     PROVE  users'[v].status = IF v = u THEN "pending_deletion" ELSE users[v].status
        OBVIOUS
      <4>2. users[v] \in UserRow
        BY <1>1
      <4>3. users'[v] = IF v = u THEN [users[v] EXCEPT !.status = "pending_deletion"] ELSE users[v]
        BY <1>1, <3>2
      <4> QED
        BY <4>2, <4>3 DEF UserRow
    <3>4. \A v \in Users : deletions'[v] = "queued" => deletions[v] = "queued" \/ v = u
      BY <1>1, <3>2 DEF Typed
    <3> QED
      BY <1>1, <3>2, <3>3, <3>4 DEF RowsStay, Exists
  <2>2. CASE ~Exists(requests[r].who)
    BY <1>1, <2>2 DEF AcceptDeletion, RowsStay, Exists
  <2> QED
    BY <2>1, <2>2
<1> QED
  BY <1>2, <1>3, <1>4, TokensStepHere

\* A session is found with its owner, and saved with the owner that was found.
LEMMA LogoutKeepsTokens ==
  ASSUME AccountsInv, TokensInv, NEW r \in Requests, ReadSession(r) \/ SaveSession(r)
  PROVE  TokensInv'
<1> DEFINE q == requests[r]
           s == requests[r].session
<1>1. /\ Typed /\ TablesStay /\ q.op \in {"refresh", "logout"} /\ s \in 1..Len(sessions)
      /\ sessions \in Seq(SessionRow) /\ requests \in [Requests -> RequestRow]
      /\ q \in RequestRow /\ RequestFits(q, users, aliases, crossed)
  <2>1. TablesStay /\ q.op \in {"refresh", "logout"}
    BY DEF ReadSession, SaveSession, At, TablesStay
  <2> QED
    BY <2>1, RowsOf DEF AccountsInv, Typed, TokensInv, TokensFit
<1>2. \A w \in {q.who, q.owner, sessions[s].owner} \ {None} : w \in Users /\ w \in TokenOwners(s)
  <2>1. q.who \in Users \cup {None} /\ q.owner \in Users \cup {None} /\ sessions[s].owner \in Users
    BY <1>1, RowsOf DEF RequestRow
  <2> QED
    BY <1>1, <2>1, OwnersOf
<1>3. /\ \A p \in Requests \ {r} : requests'[p] = requests[p]
      /\ requests'[r].op \in {"refresh", "logout"} =>
           /\ requests'[r].session = s
           /\ requests'[r].who = q.who
           /\ requests'[r].owner \in {q.owner, sessions[s].owner}
  <2>1. ASSUME LoggedOut(r) \/ End(r)
        PROVE  <1>3
    <3>1. CASE End(r)
      BY <1>1, <3>1 DEF End, Idle
    <3>2. CASE Step(r, "known")
      BY <1>1, <3>2 DEF Step, RequestRow
    <3> QED
      BY <2>1, <3>1, <3>2 DEF LoggedOut
  <2>2. ASSUME requests' = [requests EXCEPT ![r].pc = "saving", ![r].owner = sessions[s].owner]
        PROVE  <1>3
    <3>1. /\ requests'[r] = [q EXCEPT !.pc = "saving", !.owner = sessions[s].owner]
          /\ \A p \in Requests \ {r} : requests'[p] = requests[p]
      BY <1>1, <2>2
    <3>2. requests'[r].session = s /\ requests'[r].who = q.who
          /\ requests'[r].owner = sessions[s].owner
      BY <1>1, <3>1 DEF RequestRow
    <3> QED
      BY <3>1, <3>2
  <2> QED
    BY <2>1, <2>2 DEF ReadSession, SaveSession
<1>4. /\ sessions' \in Seq(SessionRow) /\ Len(sessions') = Len(sessions)
      /\ \A t \in 1..Len(sessions) : sessions'[t].owner \in TokenOwners(t)
  <2>1. CASE sessions' = sessions
    BY <1>1, <2>1, OwnersAre
  <2>2. CASE /\ q.pc = "saving"
             /\ sessions' = [sessions EXCEPT ![s] = [owner |-> q.owner, revoked |-> TRUE]]
    <3>1. q.owner \in Users /\ q.owner # None
      BY <1>1, <2>2, Atoms DEF RequestFits
    <3>2. \A t \in 1..Len(sessions) :
            sessions'[t] = IF t = s THEN [owner |-> q.owner, revoked |-> TRUE] ELSE sessions[t]
      BY <1>1, <2>2, RowsOf
    <3>3. [owner |-> q.owner, revoked |-> TRUE] \in SessionRow
      BY <3>1 DEF SessionRow
    <3>4. sessions' \in [1..Len(sessions) -> SessionRow]
      BY <1>1, <2>2, <3>3, RowsOf
    <3>5. sessions' \in Seq(SessionRow) /\ Len(sessions') = Len(sessions)
      BY <1>1, <3>4, RowsAreSessions
    <3>6. \A t \in 1..Len(sessions) : sessions'[t].owner \in TokenOwners(t)
      BY <1>2, <3>1, <3>2, OwnersAre
    <3> QED
      BY <3>5, <3>6
  <2> QED
    BY <2>1, <2>2 DEF ReadSession, SaveSession, At
<1>5. Len(sessions') >= Len(sessions)
  BY <1>1, <1>4
<1> QED
  BY <1>1, <1>2, <1>3, <1>4, <1>5, TablesStayRows, TokensStep DEF StandsFor

\* A session that is opened is of one account, and no other request knows it yet.
LEMMA OpenKeepsTokens ==
  ASSUME AccountsInv, TokensInv, NEW r \in Requests, OpenSession(r)
  PROVE  TokensInv'
<1>1. /\ TablesStay /\ Typed /\ requests \in [Requests -> RequestRow] /\ End(r)
      /\ sessions \in Seq(SessionRow) /\ Len(sessions) \in Nat
  BY RowsOf DEF OpenSession, TablesStay, AccountsInv, Typed
<1>2. /\ \A p \in Requests \ {r} : requests'[p] = requests[p]
      /\ requests'[r].op \notin {"refresh", "logout"}
  BY <1>1 DEF End, Idle
<1>3. CASE sessions' = sessions
  BY <1>1, <1>2, <1>3, TablesStayRows, TokensStepHere
<1>4. CASE /\ Exists(requests[r].who)
           /\ sessions' = Append(sessions, [owner |-> requests[r].who, revoked |-> FALSE])
  <2> DEFINE new == [owner |-> requests[r].who, revoked |-> FALSE]
  <2>1. new \in SessionRow
    <3>1. requests[r].who \in Users
      BY DEF OpenSession, AccountsInv, RequestFits
    <3> QED
      BY <3>1 DEF SessionRow
  <2>2. sessions' = Append(sessions, new)
    BY <1>4
  <2> HIDE DEF new
  <2>3. /\ sessions' \in Seq(SessionRow) /\ Len(sessions') = Len(sessions) + 1
        /\ \A s \in 1..Len(sessions) : sessions'[s] = sessions[s]
    BY <1>1, <2>1, <2>2
  <2>4. ASSUME NEW s \in 1..Len(sessions'), s \notin 1..Len(sessions)
        PROVE  TokenOwners(s)' = {sessions'[s].owner}
    <3>1. \A p \in Requests : requests'[p].op \in {"refresh", "logout"} => requests'[p].session # s
      BY <1>2, <2>4 DEF TokensInv, TokensFit
    <3>2. \A u : u \in TokenOwners(s)' <=> u = sessions'[s].owner
      BY <3>1, OwnersNow
    <3> QED
      BY <3>2
  <2>5. Len(sessions') >= Len(sessions)
    BY <1>1, <2>3
  <2>6. \A s \in 1..Len(sessions) : sessions'[s].owner \in TokenOwners(s)
    BY <2>3, OwnersAre
  <2> QED
    BY <1>1, <1>2, <2>3, <2>4, <2>5, <2>6, TablesStayRows, TokensStep
<1> QED
  BY <1>3, <1>4 DEF OpenSession

\* A token is only accepted of an owner that exists, whose aliases end where refresh reads.
LEMMA RefreshKeepsTokens ==
  ASSUME AccountsInv, TokensInv, NEW r \in Requests, NEW s \in 1..Len(sessions), ReadByToken(r, s)
  PROVE  TokensInv'
<1> DEFINE owner == sessions[s].owner
           who == Authenticated(s)
<1>1. /\ TablesStay /\ UNCHANGED sessions /\ Typed /\ aliases \in AliasRows
      /\ Ask(r, "read", "refresh", None, who, s) /\ who # None
  BY DEF ReadByToken, TablesStay, AccountsInv, Typed
<1>2. /\ who \in Users /\ who = Canonical(owner) /\ users[who].status = "active"
      /\ owner \in Users /\ owner \in TokenOwners(s) /\ users[owner].status # "none"
  BY <1>1, AuthenticatedIs, OwnersAre
<1>3. Canonical(who) = who
  <2>1. aliases[who] = None
    BY <1>1, <1>2, EndWasInserted
  <2> QED
    BY <1>1, <1>2, <2>1, OneStep, CanonicalIs
<1>4. Exists(owner)
  <2>1. CASE aliases[owner] = None
    <3>1. who = owner
      BY <1>1, <1>2, <2>1, OneStep, CanonicalIs
    <3> QED
      BY <1>2, <3>1 DEF Exists
  <2>2. CASE aliases[owner] # None
    BY <1>2, <2>2 DEF TokensInv, RowsExist
  <2> QED
    BY <2>1, <2>2
<1>5. StandsFor(s, who)
  BY <1>2, <1>3, <1>4 DEF StandsFor
<1> QED
  BY <1>1, <1>2, <1>5, AskTokens

\* A merge moves sessions and the ends of aliases alike.
LEMMA MergeKeepsTokens ==
  ASSUME AccountsInv, TokensInv, NEW r \in Requests, Merge(r)
  PROVE  TokensInv'
<1>1. /\ UNCHANGED <<deletions, overwritten>> /\ End(r) /\ Typed
      /\ RequestFits(requests[r], users, aliases, crossed) /\ requests[r].op = "bind"
      /\ requests \in [Requests -> RequestRow] /\ aliases \in AliasRows
      /\ users \in [Users -> UserRow] /\ requests[r].pc = "merging"
  BY DEF Merge, At, AccountsInv, Typed
<1>2. PICK source \in Users, target \in Users :
        /\ source = requests[r].who /\ target = Other(r) /\ source # target
        /\ ~crossed => aliases[target] = None
  BY <1>1 DEF RequestFits, Other
<1>3. /\ requests'[r].op \notin {"refresh", "logout"}
      /\ \A p \in Requests \ {r} : requests'[p] = requests[p]
  BY <1>1, OtherMoves
<1>4. CASE UNCHANGED <<users, aliases, identities, codes, sessions, crossed>>
  <2>1. TablesStay /\ UNCHANGED sessions /\ sessions' \in Seq(SessionRow)
    BY <1>1, <1>4 DEF TablesStay, Typed
  <2> QED
    BY <1>3, <2>1, TablesStayRows, TokensStepHere
<1>5. CASE /\ aliases[source] = None /\ Exists(source) /\ Exists(target)
           /\ aliases' = MergedInto(source, target)
           /\ sessions' = [s \in DOMAIN sessions |->
                IF sessions[s].owner = source THEN [sessions[s] EXCEPT !.owner = target]
                ELSE sessions[s]]
           /\ users' = [users EXCEPT ![source].status = "merged"]
           /\ crossed' = (crossed \/ \E p \in Requests \ {r} : ReliesOn(p, source))
  <2>1. \A u \in Users : (Exists(u))' <=> Exists(u)
    <3>1. SUFFICES ASSUME NEW u \in Users
                   PROVE  users'[u].status = IF u = source THEN "merged" ELSE users[u].status
      BY <1>5 DEF Exists
    <3>2. users[u] \in UserRow
      BY <1>1
    <3>3. users'[u] = IF u = source THEN [users[u] EXCEPT !.status = "merged"] ELSE users[u]
      BY <1>1, <1>5
    <3> QED
      BY <3>2, <3>3 DEF UserRow
  <2>2. /\ aliases' = [aliases EXCEPT ![source] = target] /\ aliases' \in AliasRows
        /\ aliases'[source] = target /\ \A u \in Users \ {source} : aliases'[u] = aliases[u]
    BY <1>1, <1>5 DEF AliasRows, MergedInto
  <2>3. RowsExist'
    <3>1. \A u \in Users : aliases'[u] # None =>
            users'[u].status \notin {"none", "gone"} /\ users'[aliases'[u]].status \notin {"none", "gone"}
      <4>1. SUFFICES ASSUME NEW u \in Users, aliases'[u] # None
                     PROVE  Exists(u) /\ aliases'[u] \in Users /\ Exists(aliases'[u])
        BY <2>1 DEF Exists
      <4>2. CASE u = source
        BY <1>5, <2>2, <4>2
      <4>3. CASE u # source
        BY <1>1, <2>2, <4>1, <4>3 DEF TokensInv, RowsExist, AliasRows
      <4> QED
        BY <4>2, <4>3
    <3>2. \A u \in Users : deletions'[u] = "queued" => Exists(u)'
      BY <1>1, <2>1 DEF TokensInv, RowsExist
    <3> QED
      BY <3>1, <3>2 DEF RowsExist, Exists
  <2>4. /\ DOMAIN sessions' = 1..Len(sessions) /\ Len(sessions') = Len(sessions)
        /\ DOMAIN sessions = 1..Len(sessions)
        /\ \A s \in 1..Len(sessions) :
             sessions'[s].owner = IF sessions[s].owner = source THEN target ELSE sessions[s].owner
    <3>1. Len(sessions') = Len(sessions) /\ sessions' \in Seq(SessionRow)
      BY <1>1, <1>5, SessionsMove
    <3>2. \A s \in 1..Len(sessions) :
            sessions'[s].owner = IF sessions[s].owner = source THEN target ELSE sessions[s].owner
      <4>1. SUFFICES ASSUME NEW s \in 1..Len(sessions)
                     PROVE  sessions'[s].owner =
                              IF sessions[s].owner = source THEN target ELSE sessions[s].owner
        OBVIOUS
      <4>2. sessions[s] \in SessionRow
        BY <1>1, RowsOf
      <4>3. sessions'[s] = IF sessions[s].owner = source THEN [sessions[s] EXCEPT !.owner = target]
                           ELSE sessions[s]
        BY <1>1, <1>5, RowsOf
      <4> QED
        BY <4>2, <4>3 DEF SessionRow
    <3> QED
      BY <1>1, <3>1, <3>2, RowsOf
  <2>5. TokensFit'
    BY <1>3, <2>4 DEF TokensInv, TokensFit
  <2> DEFINE Moved(c) == IF c = source THEN target ELSE c
  <2>6. ASSUME ~Exempt'
        PROVE  /\ ~Exempt /\ aliases[target] = None
               /\ \A u \in Users : Canonical(u) \in Users /\ Canonical(u)' = Moved(Canonical(u))
               /\ Canonical(source) = source /\ Canonical(target) = target
    <3>1. ~Exempt /\ aliases[target] = None
      BY <1>1, <1>2, <1>5, <2>6 DEF Exempt
    <3>2. ASSUME NEW u \in Users
          PROVE  Canonical(u) \in Users /\ Canonical(u)' = Moved(Canonical(u))
      <4>1. PICK v \in Users : Leads(aliases, u, v)
        BY <3>1, EndOfIsLeads DEF AccountsInv, AliasesFit, Exempt
      <4>2. Canonical(u) = v
        BY <1>1, <4>1, CanonicalIs
      <4>3. Leads(aliases', u, Moved(v))
        <5>1. Leads([aliases EXCEPT ![source] = target], u, IF v = source THEN target ELSE v)
          BY <1>1, <1>2, <1>5, <3>1, <4>1, EndsMove
        <5> QED
          BY <2>2, <5>1
      <4>4. Moved(v) \in Users
        BY <4>1
      <4>5. Canonical(u)' = Moved(v)
        BY <2>2, <4>3, <4>4, CanonicalsAre, CanonicalOfIs
      <4> QED
        BY <4>1, <4>2, <4>5
    <3>3. Canonical(source) = source /\ Canonical(target) = target
      BY <1>1, <1>5, <3>1, OneStep, CanonicalIs
    <3> QED
      BY <3>1, <3>2, <3>3
  <2> HIDE DEF Moved
  <2>7. ASSUME ~Exempt', NEW s \in 1..Len(sessions), NEW u \in TokenOwners(s)', Exists(u)'
        PROVE  \E v \in TokenOwners(s) : Exists(v) /\ Canonical(u)' = Moved(Canonical(v))
    <3>1. CASE u \in TokenOwners(s)
      BY <2>1, <2>6, <2>7, <3>1, OwnersAre
    <3>2. CASE u = target /\ sessions[s].owner = source
      <4>1. Canonical(u)' = target /\ Moved(Canonical(source)) = target
        BY <1>2, <2>6, <2>7, <3>2 DEF Moved
      <4> QED
        BY <1>5, <3>2, <4>1, OwnersAre
    <3>3. u \in TokenOwners(s) \/ (u = target /\ sessions[s].owner = source)
      <4>1. CASE u = sessions'[s].owner
        BY <2>4, <4>1, OwnersAre
      <4>2. CASE u \in Users /\ \E p \in Requests :
                   /\ requests'[p].op \in {"refresh", "logout"} /\ requests'[p].session = s
                   /\ u \in {requests'[p].who, requests'[p].owner}
        <5>1. \A p \in Requests : requests'[p].op \in {"refresh", "logout"} => requests'[p] = requests[p]
          BY <1>3
        <5> QED
          BY <4>2, <5>1, OwnersOf
      <4> QED
        BY <2>7, <4>1, <4>2, OwnersNow
    <3> QED
      BY <3>1, <3>2, <3>3
  <2>8. TokensKeepTheirAccount'
    <3>1. SUFFICES ASSUME ~Exempt', NEW s \in 1..Len(sessions),
                          NEW u \in TokenOwners(s)', Exists(u)',
                          NEW v \in TokenOwners(s)', Exists(v)'
                   PROVE  Canonical(u)' = Canonical(v)'
      BY <2>4 DEF TokensKeepTheirAccount, Exempt
    <3>2. PICK x \in TokenOwners(s) : Exists(x) /\ Canonical(u)' = Moved(Canonical(x))
      BY <2>7, <3>1
    <3>3. PICK y \in TokenOwners(s) : Exists(y) /\ Canonical(v)' = Moved(Canonical(y))
      BY <2>7, <3>1
    <3>4. Canonical(x) = Canonical(y)
      BY <2>4, <2>6, <3>1, <3>2, <3>3 DEF TokensInv, TokensKeepTheirAccount, Exempt
    <3> QED
      BY <3>2, <3>3, <3>4
  <2> QED
    BY <2>3, <2>5, <2>8 DEF TokensInv
<1> QED
  BY <1>2, <1>4, <1>5 DEF Merge

\* Of the accounts that are deleted together one row is left, which stands for itself; the
\* others stand for what they stood for.
LEMMA DeleteKeepsTokens ==
  ASSUME AccountsInv, TokensInv, NEW d \in Users, DeleteAccount(d)
  PROVE  TokensInv'
<1>1. UNCHANGED <<requests, overwritten, crossed>> /\ Typed /\ aliases \in AliasRows
  BY DEF DeleteAccount, AccountsInv, Typed
<1>2. PICK owner \in Users : owner = Canonical(d) /\ Leads(aliases, d, owner)
  BY <1>1, CanonicalIs DEF DeleteAccount
<1>3. PICK O \in SUBSET Users : O = OwnerIds(owner)
  BY DEF OwnerIds
<1>4. \A u \in Users : u \in O <=> Leads(aliases, u, owner)
  <2>1. \A u \in Users : u \in O <=> Canonical(u) = owner
    BY <1>3 DEF OwnerIds
  <2> QED
    BY <1>1, <2>1, CanonicalIs, Atoms
<1>5. /\ users' = [v \in Users |->
           IF v = owner THEN [NoUser EXCEPT !.status = "deleted"]
           ELSE IF v \in O THEN [NoUser EXCEPT !.status = "gone"]
           ELSE users[v]]
      /\ aliases' = [v \in Users |-> IF v \in O THEN None ELSE aliases[v]]
      /\ sessions' = [t \in DOMAIN sessions |->
           IF sessions[t].owner \in O THEN [sessions[t] EXCEPT !.revoked = TRUE] ELSE sessions[t]]
      /\ deletions' = [v \in Users |->
           IF v \in O /\ deletions[v] = "queued" THEN "ended" ELSE deletions[v]]
      /\ deletions[d] = "queued"
  BY <1>2, <1>3 DEF DeleteAccount
<1>6. owner \in O /\ aliases[owner] = None /\ Exists(owner)
  <2> DEFINE S == {u \in Users : Exists(u)}
  <2>1. S \in SUBSET Users /\ d \in S
    BY <1>5 DEF TokensInv, RowsExist
  <2>2. \A w \in S : aliases[w] \in S \cup {None}
    BY <1>1 DEF TokensInv, RowsExist, AliasRows
  <2>3. owner \in S
    BY <1>2, <2>1, <2>2 DEF Leads
  <2> QED
    BY <1>1, <1>2, <1>4, <2>3, OneStep DEF Leads
<1>7. \A u \in Users : (Exists(u))' <=> u = owner \/ (u \notin O /\ Exists(u))
  <2>1. /\ [NoUser EXCEPT !.status = "deleted"].status = "deleted"
        /\ [NoUser EXCEPT !.status = "gone"].status = "gone"
    BY DEF NoUser
  <2> QED
    BY <1>5, <1>6, <2>1 DEF Exists
<1>8. /\ aliases' \in AliasRows
      /\ \A u \in Users : aliases'[u] = IF u \in O THEN None ELSE aliases[u]
  BY <1>1, <1>5 DEF AliasRows
<1>9. RowsExist'
  <2>1. ASSUME NEW u \in Users, aliases'[u] # None
        PROVE  (Exists(u))' /\ users'[aliases'[u]].status \notin {"none", "gone"}
    <3>1. u \notin O /\ aliases'[u] = aliases[u] /\ aliases[u] \in Users /\ aliases[u] # None
      BY <1>1, <1>8, <2>1 DEF AliasRows
    <3>2. aliases[u] \notin O
      BY <1>1, <1>4, <3>1, OneStep
    <3>3. Exists(u) /\ Exists(aliases[u])
      BY <3>1 DEF TokensInv, RowsExist
    <3>4. PICK w \in Users : w = aliases[u]
      BY <3>1
    <3>5. (Exists(w))'
      BY <1>7, <3>2, <3>3, <3>4
    <3> QED
      BY <1>7, <3>1, <3>3, <3>4, <3>5 DEF Exists
  <2>2. ASSUME NEW u \in Users, deletions'[u] = "queued"
        PROVE  (Exists(u))'
    <3>1. u \notin O /\ deletions[u] = "queued"
      BY <1>5, <2>2
    <3> QED
      BY <1>7, <3>1 DEF TokensInv, RowsExist
  <2> QED
    BY <2>1, <2>2 DEF RowsExist, Exists
<1>10. /\ Len(sessions') = Len(sessions) /\ DOMAIN sessions = 1..Len(sessions)
       /\ DOMAIN sessions' = 1..Len(sessions)
       /\ \A s \in 1..Len(sessions) : sessions'[s].owner = sessions[s].owner
  <2>1. /\ Len(sessions') = Len(sessions) /\ sessions' \in Seq(SessionRow)
        /\ \A s \in 1..Len(sessions) : sessions'[s].owner = sessions[s].owner
    BY <1>1, <1>5, SessionsRevoked
  <2> QED
    BY <1>1, <2>1, RowsOf
<1>11. TokensFit'
  BY <1>1, <1>10 DEF TokensInv, TokensFit
<1>12. TokensKeepTheirAccount'
  <2>1. SUFFICES ASSUME ~Exempt, NEW s \in 1..Len(sessions),
                        NEW u \in TokenOwners(s)', (Exists(u))',
                        NEW v \in TokenOwners(s)', (Exists(v))'
                 PROVE  Canonical(u)' = Canonical(v)'
    BY <1>1, <1>10 DEF TokensKeepTheirAccount, Exempt
  <2>2. u \in TokenOwners(s) /\ v \in TokenOwners(s)
    BY <1>1, <1>10, <2>1, OwnersOf, OwnersNow
  <2>3. u \in Users /\ v \in Users /\ Exists(u) /\ Exists(v)
    BY <1>6, <1>7, <2>1, <2>2, OwnersAre
  <2>4. Canonical(u) = Canonical(v)
    BY <1>10, <2>1, <2>2, <2>3 DEF TokensInv, TokensKeepTheirAccount, Exempt
  <2>5. PICK end \in Users : Leads(aliases, u, end) /\ Leads(aliases, v, end)
    <3>1. \A x \in Users : \E y \in Users : Leads(aliases, x, y)
      BY <2>1, EndOfIsLeads DEF AccountsInv, AliasesFit, Exempt
    <3>2. PICK y \in Users : Leads(aliases, u, y)
      BY <2>3, <3>1
    <3>3. PICK z \in Users : Leads(aliases, v, z)
      BY <2>3, <3>1
    <3> QED
      BY <1>1, <2>3, <2>4, <3>2, <3>3, CanonicalIs
  <2>6. CASE end = owner
    BY <1>4, <1>7, <2>1, <2>3, <2>5, <2>6
  <2>7. CASE end # owner
    <3>1. u \notin O /\ v \notin O
      BY <1>1, <1>4, <2>3, <2>5, <2>7, OneEnd
    <3>2. Leads(aliases', u, end) /\ Leads(aliases', v, end)
      BY <1>1, <1>4, <1>8, <2>3, <2>5, <3>1, EndsStay
    <3> QED
      BY <1>8, <2>3, <3>2, CanonicalsAre, CanonicalOfIs
  <2> QED
    BY <2>6, <2>7
<1> QED
  BY <1>9, <1>11, <1>12 DEF TokensInv

LEMMA InitTokens ==
  ASSUME AccountsInit
  PROVE  TokensInv
BY DEF AccountsInit, TokensInv, RowsExist, TokensFit, TokensKeepTheirAccount, Idle

LEMMA NextTokens ==
  ASSUME AccountsInv, TokensInv, [AccountsNext]_accountVars
  PROVE  TokensInv'
<1>1. ASSUME UNCHANGED <<users, aliases, sessions, requests, deletions, overwritten, crossed>>
      PROVE  TokensInv'
  <2>1. (\A u : Canonical(u)' = Canonical(u)) /\ (\A s : TokenOwners(s)' = TokenOwners(s))
    BY <1>1, CanonicalsAre DEF TokenOwners
  <2>2. \A u : (Exists(u))' <=> Exists(u)
    BY <1>1 DEF Exists
  <2>3. RowsExist' /\ TokensFit'
    BY <1>1, <2>2 DEF TokensInv, RowsExist, TokensFit, Exists
  <2>4. TokensKeepTheirAccount'
    BY <1>1, <2>1, <2>2 DEF TokensInv, TokensKeepTheirAccount
  <2> QED
    BY <2>3, <2>4 DEF TokensInv
<1>2. CASE \E e \in Emails : StartEmail(e) \/ CodeIsGone(e)
  BY <1>1, <1>2 DEF StartEmail, CodeIsGone
<1>3. CASE UNCHANGED accountVars
  BY <1>1, <1>3 DEF accountVars
<1>4. ASSUME NEW r \in Requests, NEW e \in Emails, NEW op \in {"verify", "register"}, ReadByCode(r, op, e)
      PROVE  TokensInv'
  <2>1. Ask(r, "read", op, e, FindByEmail(e), None) /\ TablesStay /\ UNCHANGED sessions
    BY <1>4 DEF ReadByCode, TablesStay
  <2> QED
    BY <2>1, AskTokens
<1>5. ASSUME NEW r \in Requests, NEW e \in Emails, ReadByPassword(r, e)
      PROVE  TokensInv'
  <2>1. Ask(r, "known", "password", e, FindByEmail(e), None) /\ TablesStay /\ UNCHANGED sessions
    BY <1>5 DEF ReadByPassword, TablesStay
  <2> QED
    BY <2>1, AskTokens
<1>6. ASSUME NEW r \in Requests, ReadByWeChat(r)
      PROVE  TokensInv'
  <2>1. Ask(r, "read", "wechat", WeChat, identities[WeChat], None) /\ TablesStay /\ UNCHANGED sessions
    BY <1>6 DEF ReadByWeChat, TablesStay
  <2> QED
    BY <2>1, AskTokens
<1>7. ASSUME NEW r \in Requests, NEW s \in DOMAIN sessions, NEW e \in Emails, ReadForBind(r, s, e)
      PROVE  TokensInv'
  <2>1. Ask(r, "read", "bind", e, Authenticated(s), FindByEmail(e)) /\ TablesStay /\ UNCHANGED sessions
    BY <1>7 DEF ReadForBind, TablesStay
  <2> QED
    BY <2>1, AskTokens
<1>8. ASSUME NEW r \in Requests, NEW s \in DOMAIN sessions, ReadForLogout(r, s)
      PROVE  TokensInv'
  <2>1. Ask(r, "read", "logout", None, None, s) /\ TablesStay /\ UNCHANGED sessions
    BY <1>8 DEF ReadForLogout, TablesStay
  <2>2. s \in 1..Len(sessions)
    BY RowsOf DEF AccountsInv
  <2> QED
    BY <2>1, <2>2, AskTokens
<1>9. ASSUME NEW r \in Requests, NEW s \in DOMAIN sessions, ReadForDeletion(r, s)
      PROVE  TokensInv'
  <2>1. Ask(r, "read", "delete", None, Authenticated(s), None) /\ TablesStay /\ UNCHANGED sessions
    BY <1>9 DEF ReadForDeletion, TablesStay
  <2> QED
    BY <2>1, AskTokens
<1>10. ASSUME NEW r \in Requests, NEW s \in DOMAIN sessions, ReadByToken(r, s)
       PROVE  TokensInv'
  <2>1. s \in 1..Len(sessions)
    BY RowsOf DEF AccountsInv
  <2> QED
    BY <1>10, <2>1, RefreshKeepsTokens
<1>11. ASSUME NEW r \in Requests,
              \/ CreateAccount(r) \/ EnterAccount(r) \/ LoginWeChat(r) \/ SetPassword(r)
              \/ ReadTarget(r) \/ SaveUser(r) \/ SaveIdentity(r) \/ ReadOwners(r)
       PROVE  TokensInv'
  BY <1>11, OthersKeepTokens
<1>12. ASSUME NEW r \in Requests,
              \/ OpenSession(r) \/ ReadSession(r) \/ SaveSession(r) \/ AcceptDeletion(r) \/ Merge(r)
       PROVE  TokensInv'
  BY <1>12, OpenKeepsTokens, LogoutKeepsTokens, AcceptKeepsTokens, MergeKeepsTokens
<1>13. CASE \E u \in Users : DeleteAccount(u)
  BY <1>13, DeleteKeepsTokens
<1> QED
  BY <1>2, <1>3, <1>4, <1>5, <1>6, <1>7, <1>8, <1>9, <1>10, <1>11, <1>12, <1>13 DEF AccountsNext

\* In every state the rows are what the requests on their way still rely on.
THEOREM AccountsCorrect == AccountsSpec => [](AccountsInv /\ TokensInv)
<1>1. AccountsInit => AccountsInv /\ TokensInv
  BY InitInv, InitTokens
<1>2. AccountsInv /\ TokensInv /\ [AccountsNext]_accountVars => (AccountsInv /\ TokensInv)'
  BY NextInv, NextTokens DEF TokensInv
<1> QED
  BY <1>1, <1>2, PTL DEF AccountsSpec

\* However many registrations, bindings and merges are served at once: an address is of one
\* account, the WeChat subject of one that was not merged away, and the aliases of a merged
\* account lead to one that was not (merge_users, unless another binding relied on it).
THEOREM ConsistentCorrect == AccountsSpec => []AccountsConsistent
<1>1. ASSUME AccountsInv
      PROVE  AccountsConsistent
  <2>1. Typed
    BY <1>1 DEF AccountsInv
  <2>2. \A e \in Emails : Cardinality(ByEmail(e)) <= 1
    <3>1. SUFFICES ASSUME NEW e \in Emails
                   PROVE  Cardinality(ByEmail(e)) <= 1
      OBVIOUS
    <3>2. CASE ByEmail(e) = {}
      BY <3>2, FS_EmptySet
    <3>3. CASE ByEmail(e) # {}
      <4>1. PICK u \in ByEmail(e) : TRUE
        BY <3>3
      <4>2. ByEmail(e) = {u}
        BY <1>1, <4>1, Atoms DEF ByEmail, AccountsInv, UsersFit
      <4> QED
        BY <4>2, FS_Singleton
    <3> QED
      BY <3>2, <3>3
  <2>3. AccountsTypeOK
    BY <1>1, <2>1, <2>2, RowsOf DEF AccountsTypeOK, Typed, AccountsInv, SessionsFit
  <2>4. WeChatLeadsHome
    BY <1>1, <2>1, RowsOf DEF WeChatLeadsHome, AccountsInv, IdentitiesFit
  <2>5. AliasesResolve
    <3>1. SUFFICES ASSUME ~crossed, NEW u \in Users
                   PROVE  Canonical(u) # None /\ users[Canonical(u)].status # "merged"
      BY DEF AliasesResolve
    <3>2. PICK v \in Users : Leads(aliases, u, v)
      BY <1>1, <3>1, EndOfIsLeads DEF AccountsInv, AliasesFit
    <3>3. Canonical(u) = v /\ aliases[v] = None
      BY <2>1, <3>2, CanonicalIs DEF Leads
    <3> QED
      BY <1>1, <3>3, Atoms DEF AccountsInv, UsersFit
  <2> QED
    BY <2>3, <2>4, <2>5 DEF AccountsConsistent
<1> QED
  BY <1>1, AccountsCorrect, PTL

\* Nobody enters an account from the moment its deletion is accepted, whatever logins,
\* refreshes and merges were on their way (accept_deletion, authenticate); only bind_email
\* can bring it back, by saving the row it read before.
THEOREM DeletedCorrect == AccountsSpec => []NobodyEntersDeleted
<1>1. ASSUME AccountsInv
      PROVE  NobodyEntersDeleted
  <2>1. SUFFICES ASSUME NEW s \in DOMAIN sessions, NEW u \in Users,
                        Authenticated(s) = u, deletions[u] # "none"
                 PROVE  u \in overwritten
    BY DEF NobodyEntersDeleted
  <2>2. s \in 1..Len(sessions) /\ u # None
    BY <1>1, RowsOf, Atoms DEF AccountsInv
  <2>3. users[u].status = "active"
    BY <1>1, <2>1, <2>2, AuthenticatedIs
  <2> QED
    BY <1>1, <2>1, <2>3 DEF AccountsInv, DeletionsFit
<1> QED
  BY <1>1, AccountsCorrect, PTL

\* PasswordsKept, of one account.
KeepsPassword(u) ==
  users[u].password # None /\ users'[u].password # users[u].password =>
    \/ users'[u].status \in {"deleted", "gone"}
    \/ u \in overwritten'

LEMMA StepKeepsPasswords ==
  ASSUME AccountsInv, [AccountsNext]_accountVars, NEW u \in Users
  PROVE  KeepsPassword(u)
<1>1. Typed /\ users \in [Users -> UserRow]
  BY DEF AccountsInv, Typed
<1>2. CASE users' = users
  BY <1>2 DEF KeepsPassword
<1>3. ASSUME NEW r \in Requests, NEW email, InsertAccount(r, email), users' # users
      PROVE  KeepsPassword(u)
  <2>1. PICK v \in Users : users[v].status = "none" /\ \E row : users' = [users EXCEPT ![v] = row]
    BY <1>3 DEF InsertAccount
  <2>2. users[v].password = None
    BY <2>1, Atoms DEF AccountsInv, UsersFit
  <2> QED
    BY <1>1, <2>1, <2>2 DEF KeepsPassword
<1>4. ASSUME NEW r \in Requests, SetPassword(r), users' # users
      PROVE  KeepsPassword(u)
  <2>1. PICK v \in Users, p \in Requests :
          users[v].password = None /\ users' = [users EXCEPT ![v].password = p]
    <3>1. requests[r].who \in Users
      BY <1>1, <1>4, RowsOf DEF SetPassword, RequestRow
    <3> QED
      BY <1>4, <3>1 DEF SetPassword, StillMissing
  <2> QED
    BY <1>1, <2>1 DEF KeepsPassword
<1>5. ASSUME NEW r \in Requests, SaveUser(r), users' # users
      PROVE  KeepsPassword(u)
  <2>1. PICK v \in Users : v = requests[r].who
    BY <1>5 DEF SaveUser, At, AccountsInv, RequestFits
  <2>2. PICK old \in UserRow : old = requests[r].user
    BY <1>1, RowsOf DEF RequestRow
  <2>3. /\ users' = [users EXCEPT ![v] = [old EXCEPT !.email = requests[r].subject]]
        /\ overwritten' = IF users[v] = old THEN overwritten ELSE overwritten \cup {v}
    BY <1>5, <2>1, <2>2 DEF SaveUser
  <2>4. CASE u = v
    <3>1. users'[u].password = old.password
      BY <1>1, <2>2, <2>3, <2>4 DEF UserRow
    <3>2. users[v] = old \/ u \in overwritten'
      BY <2>3, <2>4
    <3> QED
      BY <2>4, <3>1, <3>2 DEF KeepsPassword
  <2>5. CASE u # v
    BY <1>1, <2>3, <2>5 DEF KeepsPassword
  <2> QED
    BY <2>4, <2>5
<1>6. ASSUME NEW v, NEW status, users' = [users EXCEPT ![v].status = status]
      PROVE  KeepsPassword(u)
  <2>1. users'[u] = users[u] \/ users'[u] = [users[u] EXCEPT !.status = status]
    BY <1>1, <1>6
  <2>2. users[u] \in UserRow
    BY <1>1
  <2>3. users'[u].password = users[u].password
    BY <2>1, <2>2 DEF UserRow
  <2> QED
    BY <2>3 DEF KeepsPassword
<1>7. ASSUME NEW r \in Requests, Merge(r), users' # users
      PROVE  KeepsPassword(u)
  <2>1. PICK v : users' = [users EXCEPT ![v].status = "merged"]
    BY <1>7 DEF Merge
  <2> QED
    BY <1>6, <2>1
<1>8. ASSUME NEW r \in Requests, AcceptDeletion(r), users' # users
      PROVE  KeepsPassword(u)
  <2>1. PICK v : users' = [users EXCEPT ![v].status = "pending_deletion"]
    BY <1>8 DEF AcceptDeletion, MarkedForDeletion
  <2> QED
    BY <1>6, <2>1
<1>9. ASSUME NEW d \in Users, DeleteAccount(d)
      PROVE  KeepsPassword(u)
  <2>1. PICK v, O :
          users' = [w \in Users |->
            IF w = v THEN [NoUser EXCEPT !.status = "deleted"]
            ELSE IF w \in O THEN [NoUser EXCEPT !.status = "gone"]
            ELSE users[w]]
    BY <1>9 DEF DeleteAccount
  <2>2. \/ users'[u].status \in {"deleted", "gone"}
        \/ users'[u] = users[u]
    BY <2>1 DEF NoUser
  <2> QED
    BY <2>2 DEF KeepsPassword
<1>10. \/ users' = users
       \/ \E r \in Requests :
            \/ CreateAccount(r) \/ LoginWeChat(r) \/ SetPassword(r)
            \/ SaveUser(r) \/ Merge(r) \/ AcceptDeletion(r)
       \/ \E d \in Users : DeleteAccount(d)
  <2>1. CASE UNCHANGED accountVars
    BY <2>1 DEF accountVars
  <2>2. CASE \E e \in Emails : StartEmail(e) \/ CodeIsGone(e)
    BY <2>2 DEF StartEmail, CodeIsGone
  <2>3. CASE \E r \in Requests, e \in Emails :
               (\E op \in {"verify", "register"} : ReadByCode(r, op, e)) \/ ReadByPassword(r, e)
    BY <2>3 DEF ReadByCode, ReadByPassword
  <2>4. CASE \E r \in Requests, s \in DOMAIN sessions :
               \/ ReadByToken(r, s) \/ ReadForLogout(r, s) \/ ReadForDeletion(r, s)
               \/ \E e \in Emails : ReadForBind(r, s, e)
    BY <2>4 DEF ReadByToken, ReadForLogout, ReadForDeletion, ReadForBind
  <2>5. CASE \E r \in Requests : ReadByWeChat(r) \/ EnterAccount(r) \/ OpenSession(r)
    BY <2>5 DEF ReadByWeChat, EnterAccount, PassByStatus, OpenSession
  <2>6. CASE \E r \in Requests : ReadTarget(r) \/ SaveIdentity(r)
    BY <2>6 DEF ReadTarget, SaveIdentity
  <2>7. CASE \E r \in Requests : ReadSession(r) \/ SaveSession(r) \/ ReadOwners(r)
    BY <2>7 DEF ReadSession, SaveSession, ReadOwners
  <2> QED
    BY <2>1, <2>2, <2>3, <2>4, <2>5, <2>6, <2>7 DEF AccountsNext
<1>11. ASSUME NEW r \in Requests, CreateAccount(r) \/ LoginWeChat(r)
       PROVE  users' = users \/ \E email : InsertAccount(r, email)
  BY <1>11 DEF CreateAccount, LoginWeChat, PassByStatus
<1> QED
  BY <1>2, <1>3, <1>4, <1>5, <1>7, <1>8, <1>9, <1>10, <1>11

\* A password that was set is the password until the account is deleted or a row is saved
\* over it: set_password_if_missing looks at the row again, and the others keep the column.
THEOREM PasswordsCorrect == AccountsSpec => PasswordsKept
<1>1. ASSUME AccountsInv, [AccountsNext]_accountVars
      PROVE  [\A u \in Users :
                users[u].password # None /\ users'[u].password # users[u].password =>
                  \/ users'[u].status \in {"deleted", "gone"}
                  \/ u \in overwritten']_accountVars
  BY <1>1, StepKeepsPasswords DEF KeepsPassword
<1> QED
  BY <1>1, AccountsCorrect, PTL DEF AccountsSpec, PasswordsKept

\* However merges move sessions between the reads and the writes of logouts and refreshes,
\* and the writes move them back, a token stays one account's, and so is the one a refresh
\* puts in its place (save_session, merge_users, canonical_user_id).
THEOREM TokensCorrect == AccountsSpec => []TokensKeepTheirAccount
<1>1. TokensInv => TokensKeepTheirAccount
  BY DEF TokensInv
<1> QED
  BY <1>1, AccountsCorrect, PTL
===============================================================================
