------------------------- MODULE IamServiceProofs -------------------------
(***************************************************************************)
(* The safety properties of IamService, proved for any number of requests, *)
(* organizations, users, sessions and keys and for whatever the operator   *)
(* has put into the database within IamAssumption.                         *)
(***************************************************************************)
EXTENDS IamService, SequenceTheorems, TLAPS

-----------------------------------------------------------------------------
(* The inductive invariant *)

Values == KeyRows \cup Entries \cup Granted \cup {"active", "revoked", "custom", "updated"}
Statements == [row : Rows, value : Values, new : BOOLEAN]

\* Request r has written row with value v or is going to.
Wants(r, row, v) ==
  \/ row \in DOMAIN tx[r] /\ tx[r][row] = v
  \/ \E i \in DOMAIN plan[r] : plan[r][i].row = row /\ plan[r][i].value = v

\* Writes of rows that may be there already; of a key, only its revocation.
Changes(row, v) ==
  \/ \E s \in Sessions : row = Session(s)
  \/ \E o \in Orgs : row = Policy(o)
  \/ \E k \in Keys : row = Key(k) /\ v.status = "revoked"

\* A row is written by one open transaction at a time.
Exclusive ==
  \A r, q \in Requests, row \in Rows : row \in DOMAIN tx[r] /\ row \in DOMAIN tx[q] => r = q

\* A transaction writes a row once; a row that it inserts is not there.
Ordered(r) ==
  /\ plan[r] \in Seq(Statements)
  /\ \A i \in DOMAIN plan[r] :
       /\ plan[r][i].row \notin DOMAIN tx[r]
       /\ \A j \in DOMAIN plan[r] : plan[r][i].row = plan[r][j].row => i = j
       /\ ~plan[r][i].new => Changes(plan[r][i].row, plan[r][i].value)
  /\ \A row \in DOMAIN tx[r] : db[row] = None \/ Changes(row, tx[r][row])

\* What may be written to a row of each table.
Fits(r, row, v) ==
  /\ v # None
  /\ \A s \in Sessions : row = Session(s) => v = "revoked"
  /\ \A o \in Orgs : row = Policy(o) => v = "updated"
  /\ \A k \in Keys : row = Key(k) => v \in KeyRows
  /\ \A k \in Keys : row = Key(k) /\ v.status = "revoked" =>
       db[Key(k)] # None /\ db[Key(k)].org = v.org /\ db[Key(k)].by = v.by
  /\ \A q \in Requests : row = Audit(q) => q = r /\ v \in Entries

AllFit(r) == \A row \in Rows : \A v : Wants(r, row, v) => Fits(r, row, v)

\* The change that an audit entry is about is in the same transaction.
Carried(r, e) ==
  /\ e.action \in {"user.invited", "user.created"} =>
       /\ e.target \in Users
       /\ \E v : Wants(r, User(e.target), v)
       /\ \E v : Wants(r, Member(e.org, e.target), v)
  /\ e.action = "api_key.created" =>
       /\ e.target \in Keys
       /\ \E v : /\ Wants(r, Key(e.target), v) /\ v.status = "active"
                 /\ v.org = e.org /\ v.by = e.actor
  /\ e.action = "api_key.revoked" =>
       /\ e.target \in Keys
       /\ \E v : Wants(r, Key(e.target), v) /\ v.status = "revoked" /\ v.org = e.org
  /\ e.action = "role.created" => e.target \in Slugs /\ \E v : Wants(r, Role(e.org, e.target), v)
  /\ e.action = "security_policy.updated" => \E v : Wants(r, Policy(e.org), v)
  /\ e.action = "session.revoked" =>
       /\ e.target \in Sessions /\ e.org = Token[e.target].org
       /\ \E v : Wants(r, Session(e.target), v)

AllCarried(r) == \A e : Wants(r, Audit(r), e) => Carried(r, e)

\* And the other way round: the entry about a change is in its transaction.
WithEntry(r, o, actions, target) ==
  \E e : Wants(r, Audit(r), e) /\ e.org = o /\ e.action \in actions /\ e.target = target

AllLogged(r) ==
  \A v :
    /\ \A u \in Users : Wants(r, User(u), v) =>
         \E o \in Orgs : WithEntry(r, o, {"user.invited", "user.created"}, u)
    /\ \A k \in Keys : Wants(r, Key(k), v) =>
         WithEntry(r, v.org, {IF v.status = "revoked" THEN "api_key.revoked"
                              ELSE "api_key.created"}, k)
    /\ \A o \in Orgs, s \in Slugs : Wants(r, Role(o, s), v) =>
         WithEntry(r, o, {"role.created"}, s)
    /\ \A s \in Sessions : Wants(r, Session(s), v) /\ Token[s].org # None =>
         WithEntry(r, Token[s].org, {"session.revoked"}, s)
    /\ \A o \in Orgs : Wants(r, Policy(o), v) =>
         WithEntry(r, o, {"security_policy.updated"}, None)
    /\ \A o \in Orgs, u \in Users : Wants(r, Member(o, u), v) =>
         db[User(u)] # None \/ \E x : Wants(r, User(u), x)

\* What request r will have recorded, and the members it adds, its actor might.
AllAllowed(r) ==
  /\ \A e : Wants(r, Audit(r), e) => Allowed(r, e)
  /\ \A o \in Orgs, u \in Users : \A v : Wants(r, Member(o, u), v) =>
       \/ WithEntry(r, o, {"user.created"}, u)
       \/ \E actor \in Users : <<o, actor, "manage_users">> \in held[r]

\* The committed trail: what an entry is about has happened ...
Explained(e) ==
  /\ e.action \in {"user.invited", "user.created"} =>
       e.target \in Users /\ db[User(e.target)] # None /\ db[Member(e.org, e.target)] # None
  /\ e.action = "api_key.created" =>
       /\ e.target \in Keys /\ Key(e.target) \notin DOMAIN Rows0 /\ db[Key(e.target)] # None
       /\ db[Key(e.target)].org = e.org /\ db[Key(e.target)].by = e.actor
  /\ e.action = "api_key.revoked" =>
       /\ e.target \in Keys /\ db[Key(e.target)] # None
       /\ db[Key(e.target)].org = e.org /\ db[Key(e.target)].status = "revoked"
  /\ e.action = "role.created" => e.target \in Slugs /\ db[Role(e.org, e.target)] # None
  /\ e.action = "security_policy.updated" => db[Policy(e.org)] = "updated"
  /\ e.action = "session.revoked" =>
       e.target \in Sessions /\ e.org = Token[e.target].org /\ db[Session(e.target)] = "revoked"

AllExplained ==
  \A q \in Requests : db[Audit(q)] # None => db[Audit(q)] \in Entries /\ Explained(db[Audit(q)])

\* ... and what has happened has an entry, a user one only.
Entry(q, o, actions, target) ==
  /\ db[Audit(q)] # None /\ db[Audit(q)].org = o
  /\ db[Audit(q)].action \in actions /\ db[Audit(q)].target = target

AllRecorded ==
  /\ \A row \in Rows \cap DOMAIN Rows0 : db[row] # None
  /\ \A u \in Users : db[User(u)] # None /\ User(u) \notin DOMAIN Rows0 =>
       \E q \in Requests, o \in Orgs : Entry(q, o, {"user.invited", "user.created"}, u)
  /\ \A u \in Users : \A p, q \in Requests : \A o, m \in Orgs :
       Entry(p, o, {"user.invited", "user.created"}, u)
         /\ Entry(q, m, {"user.invited", "user.created"}, u) => p = q
  /\ \A k \in Keys : db[Key(k)] # None =>
       /\ Key(k) \notin DOMAIN Rows0 =>
            \E q \in Requests : Entry(q, db[Key(k)].org, {"api_key.created"}, k)
       /\ db[Key(k)].status = "revoked" =>
            \E q \in Requests : Entry(q, db[Key(k)].org, {"api_key.revoked"}, k)
  /\ \A s \in Sessions : db[Session(s)] = "revoked" /\ Token[s].org # None =>
       \E q \in Requests : Entry(q, Token[s].org, {"session.revoked"}, s)
  /\ \A o \in Orgs : db[Policy(o)] = "updated" =>
       \E q \in Requests : Entry(q, o, {"security_policy.updated"}, None)
  /\ \A o \in Orgs, u \in Users : db[Member(o, u)] # None => db[User(u)] # None
  /\ \A o \in Orgs, s \in Slugs : db[Role(o, s)] # None =>
       \E q \in Requests : Entry(q, o, {"role.created"}, s)

\* A void credential stays void until the request that shows it is refused.
Void(c) ==
  \/ c \in expired
  \/ c \in Sessions /\ db[Session(c)] # "active"
  \/ c \in Keys /\ db[Key(c)] # None /\ db[Key(c)].status # "active"

Refused == \A r \in Requests : dead[r] => pc[r] = "auth" /\ Void(call[r].cred)

\* Past authentication, the principal is the credential's and passes the
\* route's dependencies; the history has what its user's role allows at the
\* moment, and past _require_permission it has what the route needs.
Principals ==
  \A r \in Requests :
    /\ pc[r] = "member" => call[r].cred \in Sessions
    /\ pc[r] \in {"check", "look", "flush"} /\ call[r].route \notin Public =>
         /\ Entitled(call[r], who[r])
         /\ who[r].user # None =>
              /\ call[r].cred \in Sessions /\ who[r].user = Token[call[r].cred].user
              /\ who[r].permissions = resolve_permissions(Token[call[r].cred].role)
    /\ pc[r] \in {"auth", "member", "check"} => call[r].route \notin Public
    /\ Granting(r) \subseteq held[r]
    /\ pc[r] \in {"look", "flush"} /\ call[r].route \in Rechecked =>
         who[r].user # None /\ <<call[r].org, who[r].user, Needs[call[r].route]>> \in held[r]

Actors == ActorsPermitted /\ \A r \in Requests : AllAllowed(r)
Trails == AllExplained /\ AllRecorded
Consistent(r) == Ordered(r) /\ AllFit(r) /\ AllCarried(r) /\ AllLogged(r)
Writes == Exclusive /\ \A r \in Requests : Consistent(r)
Inv == TypeOK /\ Writes /\ Trails /\ Refused /\ Principals /\ Actors

-----------------------------------------------------------------------------
(* Rows and calls *)

\* Rows of different tables are different; a row has one key.
LEMMA Tables ==
  /\ \A u : User(u)[1] = "iam_users"
  /\ \A o, u : Member(o, u)[1] = "organization_memberships"
  /\ \A o, s : Role(o, s)[1] = "iam_roles"
  /\ \A k : Key(k)[1] = "iam_api_keys"
  /\ \A s : Session(s)[1] = "iam_sessions"
  /\ \A o : Policy(o)[1] = "iam_security_policies"
  /\ \A r : Audit(r)[1] = "iam_audit_logs"
BY DEF User, Member, Role, Key, Session, Policy, Audit

LEMMA OneKey ==
  /\ \A u, v : User(u) = User(v) => u = v
  /\ \A o, m, u, v : Member(o, u) = Member(m, v) => o = m /\ u = v
  /\ \A o, m, s, t : Role(o, s) = Role(m, t) => o = m /\ s = t
  /\ \A k, l : Key(k) = Key(l) => k = l
  /\ \A s, t : Session(s) = Session(t) => s = t
  /\ \A o, m : Policy(o) = Policy(m) => o = m
  /\ \A r, q : Audit(r) = Audit(q) => r = q
BY DEF User, Member, Role, Key, Session, Policy, Audit

LEMMA AreRows ==
  /\ \A u \in Users : User(u) \in Rows
  /\ \A o \in Orgs, u \in Users : Member(o, u) \in Rows
  /\ \A o \in Orgs, s \in Slugs : Role(o, s) \in Rows
  /\ \A k \in Keys : Key(k) \in Rows
  /\ \A s \in Sessions : Session(s) \in Rows
  /\ \A o \in Orgs : Policy(o) \in Rows
  /\ \A r \in Requests : Audit(r) \in Rows
BY DEF Rows

LEMMA CallTypes ==
  ASSUME NEW c \in Calls
  PROVE  /\ c.route \in Routes
         /\ c.org \in IF c.route \in InOrg THEN Orgs ELSE {None}
         /\ c.arg \in Args(c.route)
         /\ c.cred \in IF c.route \in Public THEN {None} ELSE Sessions \cup Keys \cup {None}
BY DEF Calls

\* What the handlers that write know of their call.
LEMMA CallArgs ==
  ASSUME NEW c \in Calls
  PROVE  /\ c.route \in {"register_user", "invite_user"} => c.arg \in Users
         /\ c.route = "create_role" => c.arg \in Slugs
         /\ c.route = "revoke_api_key" => c.arg \in Keys
         /\ c.route = "revoke_session" => c.arg \in Sessions \cup {None}
         /\ c.route \in InOrg => c.org \in Orgs
         /\ c.route \in Public => c.cred = None
         /\ c.route \notin Public => c.cred \in Sessions \cup Keys \cup {None}
<1>1. /\ c.arg \in Args(c.route)
      /\ c.org \in IF c.route \in InOrg THEN Orgs ELSE {None}
      /\ c.cred \in IF c.route \in Public THEN {None} ELSE Sessions \cup Keys \cup {None}
  BY CallTypes
<1>2. c.route \in {"register_user", "invite_user"} => c.arg \in Users
  BY <1>1 DEF Args
<1>3. c.route = "create_role" => c.arg \in Slugs
  BY <1>1 DEF Args
<1>4. c.route = "revoke_api_key" => c.arg \in Keys
  BY <1>1 DEF Args
<1>5. c.route = "revoke_session" => c.arg \in Sessions \cup {None}
  BY <1>1 DEF Args
<1> QED BY <1>1, <1>2, <1>3, <1>4, <1>5

\* The routes' dependencies.
LEMMA RouteFacts ==
  /\ Rechecked \subseteq InOrg /\ Rechecked \cap Public = {}
  /\ {"invite_user", "register_user", "create_role", "create_api_key", "revoke_api_key",
      "update_security_policy"} \subseteq InOrg
  /\ Needs["logout"] = "user" /\ "logout" \notin Public
  /\ Needs["revoke_session"] = "user" /\ "revoke_session" \notin Public
  /\ Needs["register_user"] = "manage_users" /\ "register_user" \notin Public
  /\ Needs["invite_user"] = "manage_users" /\ Needs["create_role"] = "manage_roles"
  /\ Needs["create_api_key"] = "manage_api_keys" /\ Needs["revoke_api_key"] = "manage_api_keys"
  /\ Needs["update_security_policy"] = "manage_security"
  /\ {"invite_user", "create_role", "create_api_key", "revoke_api_key",
      "update_security_policy"} \subseteq Rechecked
BY DEF Rechecked, InOrg, Public, Routes, Needs

-----------------------------------------------------------------------------
(* Statements *)

LEMMA TailFacts ==
  ASSUME NEW S, NEW s \in Seq(S), s # <<>>
  PROVE  /\ Head(s) \in S /\ Head(s) = s[1] /\ 1 \in DOMAIN s
         /\ Tail(s) \in Seq(S)
         /\ \A i \in DOMAIN Tail(s) : i + 1 \in DOMAIN s /\ Tail(s)[i] = s[i + 1] /\ i + 1 # 1
         /\ \A i, j \in DOMAIN Tail(s) : i + 1 = j + 1 => i = j
         /\ \A i \in DOMAIN s : i = 1 \/ (i - 1 \in DOMAIN Tail(s) /\ Tail(s)[i - 1] = s[i])
<1>1. Len(s) \in Nat /\ Len(s) # 0 /\ DOMAIN s = 1..Len(s)
  BY EmptySeq
<1>2. /\ Head(s) \in S /\ Tail(s) \in Seq(S) /\ Len(Tail(s)) = Len(s) - 1
      /\ \A i \in 1 .. Len(Tail(s)) : Tail(s)[i] = s[i + 1]
  BY HeadTailProperties
<1>3. DOMAIN Tail(s) = 1..(Len(s) - 1)
  BY <1>1, <1>2
<1>4. Head(s) = s[1] /\ 1 \in DOMAIN s
  BY <1>1
<1>5. \A i \in DOMAIN Tail(s) : i + 1 \in DOMAIN s /\ Tail(s)[i] = s[i + 1] /\ i + 1 # 1
  BY <1>1, <1>2, <1>3
<1>6. \A i, j \in DOMAIN Tail(s) : i + 1 = j + 1 => i = j
  BY <1>1, <1>3
<1>7. \A i \in DOMAIN s : i = 1 \/ (i - 1 \in DOMAIN Tail(s) /\ Tail(s)[i - 1] = s[i])
  BY <1>1, <1>2, <1>3
<1> QED BY <1>2, <1>4, <1>5, <1>6, <1>7

-----------------------------------------------------------------------------
(* What a step does to the database and to the open transactions *)

\* No row goes away; a key stays its organization's and its maker's; what is
\* revoked or updated stays so.
Grows ==
  /\ DOMAIN db' = Rows
  /\ \A row \in Rows : db[row] # None => db'[row] # None
  /\ \A k \in Keys : db'[Key(k)] \in KeyRows \cup {None}
  /\ \A k \in Keys : db[Key(k)] # None =>
       /\ db'[Key(k)].org = db[Key(k)].org /\ db'[Key(k)].by = db[Key(k)].by
       /\ db[Key(k)].status = "revoked" => db'[Key(k)].status = "revoked"
  /\ \A s \in Sessions : /\ db[Session(s)] # "active" => db'[Session(s)] # "active"
                         /\ db[Session(s)] = "revoked" => db'[Session(s)] = "revoked"
  /\ \A o \in Orgs : db[Policy(o)] = "updated" => db'[Policy(o)] = "updated"

Kept(q) == tx'[q] = tx[q] /\ plan'[q] = plan[q] /\ \A row \in DOMAIN tx[q] : db'[row] = db[row]
Gone(q) == tx'[q] = Empty /\ plan'[q] = <<>>

LEMMA SameDb == ASSUME TypeOK, db' = db PROVE Grows
BY DEF TypeOK, Grows

\* What a request logs depends on its statements and on the users there are.
LEMMA LoggedStays ==
  ASSUME NEW r \in Requests, AllLogged(r), \A row, v : Wants(r, row, v)' <=> Wants(r, row, v),
         \A u \in Users : db[User(u)] # None => db'[User(u)] # None
  PROVE  AllLogged(r)'
<1>1. \A o, actions, target : WithEntry(r, o, actions, target) => WithEntry(r, o, actions, target)'
  BY DEF WithEntry
<1> SUFFICES ASSUME NEW v
             PROVE  (/\ \A u \in Users : Wants(r, User(u), v) =>
                         \E o \in Orgs : WithEntry(r, o, {"user.invited", "user.created"}, u)
                     /\ \A k \in Keys : Wants(r, Key(k), v) =>
                         WithEntry(r, v.org, {IF v.status = "revoked" THEN "api_key.revoked"
                                              ELSE "api_key.created"}, k)
                     /\ \A o \in Orgs, s \in Slugs : Wants(r, Role(o, s), v) =>
                         WithEntry(r, o, {"role.created"}, s)
                     /\ \A s \in Sessions : Wants(r, Session(s), v) /\ Token[s].org # None =>
                         WithEntry(r, Token[s].org, {"session.revoked"}, s)
                     /\ \A o \in Orgs : Wants(r, Policy(o), v) =>
                         WithEntry(r, o, {"security_policy.updated"}, None)
                     /\ \A o \in Orgs, u \in Users : Wants(r, Member(o, u), v) =>
                         db[User(u)] # None \/ \E x : Wants(r, User(u), x))'
  BY DEF AllLogged
<1>2. (\A u \in Users : Wants(r, User(u), v) =>
         \E o \in Orgs : WithEntry(r, o, {"user.invited", "user.created"}, u))'
  BY <1>1 DEF AllLogged
<1>3. (\A k \in Keys : Wants(r, Key(k), v) =>
         WithEntry(r, v.org, {IF v.status = "revoked" THEN "api_key.revoked"
                              ELSE "api_key.created"}, k))'
  BY <1>1 DEF AllLogged
<1>4. (\A o \in Orgs, s \in Slugs : Wants(r, Role(o, s), v) =>
         WithEntry(r, o, {"role.created"}, s))'
  BY <1>1 DEF AllLogged
<1>5. (\A s \in Sessions : Wants(r, Session(s), v) /\ Token[s].org # None =>
         WithEntry(r, Token[s].org, {"session.revoked"}, s))'
  BY <1>1 DEF AllLogged
<1>6. (\A o \in Orgs : Wants(r, Policy(o), v) =>
         WithEntry(r, o, {"security_policy.updated"}, None))'
  BY <1>1 DEF AllLogged
<1>7. (\A o \in Orgs, u \in Users : Wants(r, Member(o, u), v) =>
         db[User(u)] # None \/ \E x : Wants(r, User(u), x))'
  <2> SUFFICES ASSUME NEW o \in Orgs, NEW u \in Users, Wants(r, Member(o, u), v)'
               PROVE  (db[User(u)] # None \/ \E x : Wants(r, User(u), x))'
    OBVIOUS
  <2>1. db[User(u)] # None \/ \E x : Wants(r, User(u), x)
    BY DEF AllLogged
  <2> QED BY <2>1
<1> QED BY <1>2, <1>3, <1>4, <1>5, <1>6, <1>7

LEMMA KeptConsistent ==
  ASSUME TypeOK, Grows, NEW r \in Requests, Consistent(r), Kept(r)
  PROVE  Consistent(r)'
<1>1. \A row, v : Wants(r, row, v)' <=> Wants(r, row, v)
  BY DEF Wants, Kept
<1>2. Ordered(r)'
  BY DEF Consistent, Ordered, Kept, Changes
<1>3. AllFit(r)'
  <2> SUFFICES ASSUME NEW row \in Rows, NEW v, Wants(r, row, v)' PROVE Fits(r, row, v)'
    BY DEF AllFit
  <2>1. Fits(r, row, v)
    BY <1>1 DEF Consistent, AllFit
  <2> QED BY <2>1, AreRows DEF Fits, Grows
<1>4. AllCarried(r)'
  <2>1. \A e : Carried(r, e) => Carried(r, e)'
    BY <1>1 DEF Carried
  <2> QED BY <1>1, <2>1 DEF Consistent, AllCarried
<1>5. AllLogged(r)'
  <2>1. \A u \in Users : db[User(u)] # None => db'[User(u)] # None
    BY AreRows DEF Grows
  <2>2. AllLogged(r)
    BY DEF Consistent
  <2> QED BY <1>1, <2>1, <2>2, LoggedStays
<1> QED BY <1>2, <1>3, <1>4, <1>5 DEF Consistent

LEMMA GoneConsistent ==
  ASSUME NEW r \in Requests, Gone(r)
  PROVE  Consistent(r)'
<1>1. \A row, v : ~Wants(r, row, v)'
  BY DEF Wants, Gone, Empty
<1>2. Ordered(r)'
  BY DEF Ordered, Gone, Empty
<1>3. AllFit(r)' /\ AllCarried(r)' /\ AllLogged(r)'
  BY <1>1 DEF AllFit, AllCarried, AllLogged
<1> QED BY <1>2, <1>3 DEF Consistent

LEMMA StepWrites ==
  ASSUME TypeOK, Writes, Grows, \A q \in Requests : Kept(q) \/ Gone(q)
  PROVE  Writes'
<1>1. \A q \in Requests : Consistent(q)'
  BY KeptConsistent, GoneConsistent DEF Writes
<1>2. Exclusive'
  BY DEF Writes, Exclusive, Kept, Gone, Empty
<1> QED BY <1>1, <1>2 DEF Writes

LEMMA SameTrails == ASSUME Trails, db' = db PROVE Trails'
<1>1. AllExplained'
  BY DEF Trails, AllExplained, Explained
<1>2. AllRecorded'
  BY DEF Trails, AllRecorded, Entry
<1> QED BY <1>1, <1>2 DEF Trails

\* What an actor might do he might have done.
LEMMA AllowedStays ==
  ASSUME NEW r \in Requests, held[r] \subseteq held'[r], NEW e, Allowed(r, e)
  PROVE  Allowed(r, e)'
BY DEF Allowed

LEMMA AllAllowedStays ==
  ASSUME NEW r \in Requests, AllAllowed(r), held[r] \subseteq held'[r],
         \/ \A row, v : ~Wants(r, row, v)'
         \/ \A row, v : Wants(r, row, v)' <=> Wants(r, row, v)
  PROVE  AllAllowed(r)'
<1>1. CASE \A row, v : ~Wants(r, row, v)'
  BY <1>1 DEF AllAllowed
<1>2. CASE \A row, v : Wants(r, row, v)' <=> Wants(r, row, v)
  <2>1. \A e : Wants(r, Audit(r), e)' => Allowed(r, e)'
    BY <1>2, AllowedStays DEF AllAllowed
  <2>2. ASSUME NEW o \in Orgs, NEW u \in Users, NEW v, Wants(r, Member(o, u), v)'
        PROVE  \/ WithEntry(r, o, {"user.created"}, u)'
               \/ \E actor \in Users : <<o, actor, "manage_users">> \in held'[r]
    <3>1. WithEntry(r, o, {"user.created"}, u) => WithEntry(r, o, {"user.created"}, u)'
      BY <1>2 DEF WithEntry
    <3> QED BY <1>2, <2>2, <3>1 DEF AllAllowed
  <2> QED BY <2>1, <2>2 DEF AllAllowed
<1> QED BY <1>1, <1>2

\* A step that adds neither an entry nor a member, nor a plan.
LEMMA ActorsStay ==
  ASSUME Actors, \A q \in Requests : held[q] \subseteq held'[q],
         \A q \in Requests : db'[Audit(q)] = db[Audit(q)],
         \A o \in Orgs, u \in Users : db'[Member(o, u)] # None => db[Member(o, u)] # None,
         \A q \in Requests : \/ \A row, v : ~Wants(q, row, v)'
                             \/ \A row, v : Wants(q, row, v)' <=> Wants(q, row, v)
  PROVE  Actors'
<1>1. \A q \in Requests : AllAllowed(q)'
  BY AllAllowedStays DEF Actors
<1>2. ASSUME NEW q \in Requests, db'[Audit(q)] # None PROVE Allowed(q, db[Audit(q)])'
  <2>1. \A e : Allowed(q, e) => Allowed(q, e)'
    BY AllowedStays
  <2>2. \A e : e = db'[Audit(q)] => Allowed(q, e)'
    BY <1>2, <2>1 DEF Actors, ActorsPermitted
  <2> QED BY <2>2 DEF Allowed
<1>3. Trail' = Trail
  BY DEF Trail
<1>4. ASSUME NEW o \in Orgs, NEW u \in Users,
             db'[Member(o, u)] # None, Member(o, u) \notin DOMAIN Rows0
      PROVE  \/ Logged(o, "user.created", u)'
             \/ \E r \in Requests, actor \in Users : <<o, actor, "manage_users">> \in held'[r]
  BY <1>3, <1>4 DEF Actors, ActorsPermitted, Logged
<1> QED BY <1>1, <1>2, <1>4 DEF Actors, ActorsPermitted

LEMMA KeptWants == ASSUME NEW q, Kept(q) PROVE \A row, v : Wants(q, row, v)' <=> Wants(q, row, v)
BY DEF Kept, Wants

LEMMA GoneWants == ASSUME NEW q, Gone(q) PROVE \A row, v : ~Wants(q, row, v)'
BY DEF Gone, Wants, Empty

\* A credential that is void stays void.
LEMMA VoidStays ==
  ASSUME TypeOK, Grows, expired \subseteq expired', NEW c, Void(c)
  PROVE  Void(c)'
<1>1. CASE c \in expired
  BY <1>1 DEF Void
<1>2. CASE c \in Sessions /\ db[Session(c)] # "active"
  BY <1>2 DEF Void, Grows
<1>3. CASE c \in Keys /\ db[Key(c)] # None /\ db[Key(c)].status # "active"
  <2>1. db[Key(c)].status = "revoked"
    BY <1>3 DEF TypeOK, KeyRows
  <2>2. db'[Key(c)] # None /\ db'[Key(c)].status = "revoked"
    BY <1>3, <2>1, AreRows DEF Grows
  <2> QED BY <1>3, <2>2 DEF Void
<1> QED BY <1>1, <1>2, <1>3 DEF Void

-----------------------------------------------------------------------------
(* The steps of a request outside its transaction *)

LEMMA Observed ==
  ASSUME TypeOK, Observe, NEW q \in Requests
  PROVE  /\ Granting(q)' \subseteq held'[q] /\ DOMAIN held' = Requests
         /\ held[q] \subseteq held'[q]
<1>1. held' = [r \in Requests |-> held[r] \cup Granting(r)']
  BY DEF Observe
<1> HIDE DEF Granting
<1> QED BY <1>1

LEMMA EndStep ==
  ASSUME Inv, NEW r \in Requests, End(r), Grows, UNCHANGED <<expired, ops>>,
         \A q \in Requests \ {r} : Kept(q)
  PROVE  TypeOK' /\ Writes' /\ Refused' /\ Principals'
<1> USE DEF Inv
<1>1. /\ pc' = [pc EXCEPT ![r] = "over"] /\ call' = [call EXCEPT ![r] = None]
      /\ who' = [who EXCEPT ![r] = Nobody] /\ tx' = [tx EXCEPT ![r] = Empty]
      /\ plan' = [plan EXCEPT ![r] = <<>>] /\ dead' = [dead EXCEPT ![r] = FALSE]
  BY DEF End, Goto
<1>2. Observe
  BY DEF End
<1>3. TypeOK'
  <2>1. pc' \in [Requests -> Places] /\ call' \in [Requests -> Calls \cup {None}]
          /\ dead' \in [Requests -> BOOLEAN]
    BY <1>1 DEF TypeOK, Places
  <2>2. DOMAIN who' = Requests /\ DOMAIN plan' = Requests /\ DOMAIN tx' = Requests
    BY <1>1 DEF TypeOK
  <2>3. ASSUME NEW q \in Requests
        PROVE  /\ who'[q].user \in Users \cup {None}
               /\ DOMAIN tx'[q] \subseteq Rows
               /\ pc'[q] # "flush" => plan'[q] = <<>> /\ tx'[q] = Empty
               /\ pc'[q] \notin {"idle", "over"} => call'[q] # None
    BY <1>1 DEF TypeOK, Nobody, Empty
  <2>4. DOMAIN held' = Requests
    BY <1>2 DEF Observe
  <2> QED BY <2>1, <2>2, <2>3, <2>4 DEF TypeOK, Grows
<1>4. Writes'
  <2>1. Gone(r)
    BY <1>1 DEF Gone, TypeOK
  <2> QED BY <2>1, StepWrites
<1>5. Refused'
  <2> SUFFICES ASSUME NEW q \in Requests, dead'[q] PROVE pc'[q] = "auth" /\ Void(call[q].cred)'
    BY DEF Refused
  <2>1. q # r /\ dead[q] /\ pc'[q] = pc[q] /\ call'[q] = call[q]
    BY <1>1 DEF TypeOK
  <2>2. pc[q] = "auth" /\ Void(call[q].cred)
    BY <2>1 DEF Refused
  <2>3. \A c : Void(c) => Void(c)'
    BY VoidStays
  <2>4. \A c : c = call[q].cred => Void(c)'
    BY <2>2, <2>3
  <2> QED BY <2>1, <2>2, <2>4 DEF Void
<1>6. Principals'
  <2> SUFFICES ASSUME NEW q \in Requests
               PROVE  /\ pc'[q] = "member" => call'[q].cred \in Sessions
                      /\ pc'[q] \in {"check", "look", "flush"} /\ call'[q].route \notin Public =>
                           /\ Entitled(call'[q], who'[q])
                           /\ who'[q].user # None =>
                                /\ call'[q].cred \in Sessions
                                /\ who'[q].user = Token[call'[q].cred].user
                                /\ who'[q].permissions =
                                     resolve_permissions(Token[call'[q].cred].role)
                      /\ pc'[q] \in {"auth", "member", "check"} => call'[q].route \notin Public
                      /\ Granting(q)' \subseteq held'[q]
                      /\ pc'[q] \in {"look", "flush"} /\ call'[q].route \in Rechecked =>
                           /\ who'[q].user # None
                           /\ <<call'[q].org, who'[q].user, Needs[call'[q].route]>> \in held'[q]
    BY DEF Principals, Entitled
  <2>1. Granting(q)' \subseteq held'[q] /\ held[q] \subseteq held'[q]
    BY <1>2, Observed
  <2>2. CASE q = r
    BY <1>1, <2>1, <2>2 DEF TypeOK
  <2>3. CASE q # r
    <3>1. pc'[q] = pc[q] /\ call'[q] = call[q] /\ who'[q] = who[q]
      BY <1>1, <2>3 DEF TypeOK
    <3> QED BY <2>1, <3>1 DEF Principals
  <2> QED BY <2>2, <2>3
<1> QED BY <1>3, <1>4, <1>5, <1>6

\* Every refusal, exception and rollback.
LEMMA EndInv ==
  ASSUME Inv, NEW r \in Requests, End(r), UNCHANGED <<db, expired, ops>>
  PROVE  Inv'
<1>1. Grows
  BY SameDb DEF Inv
<1>2. \A q \in Requests \ {r} : Kept(q)
  BY DEF End, Kept, Inv, TypeOK
<1>3. Gone(r)
  BY DEF End, Gone, Inv, TypeOK
<1>4. \A q \in Requests : held[q] \subseteq held'[q]
  BY Observed DEF End, Inv
<1>5. Actors'
  BY <1>2, <1>3, <1>4, KeptWants, GoneWants, ActorsStay DEF Inv
<1> QED BY <1>1, <1>2, <1>5, EndStep, SameTrails DEF Inv

\* A step that moves request r on without a database statement.
LEMMA MoveStep ==
  ASSUME Inv, UNCHANGED <<db, tx, plan, expired, ops, call, dead, held>>, NEW r \in Requests, NEW place \in Places,
         pc' = [pc EXCEPT ![r] = place], DOMAIN who' = Requests,
         \A q \in Requests \ {r} : who'[q] = who[q], who'[r].user \in Users \cup {None},
         pc[r] \notin {"idle", "over", "flush"}, place \in {"member", "check", "look"},
         ~dead[r],
         place = "member" => call[r].cred \in Sessions /\ call[r].route \notin Public,
         place \in {"check", "look"} =>
            /\ call[r].route \notin Public /\ Entitled(call[r], who'[r])
            /\ who'[r].user # None =>
                 /\ call[r].cred \in Sessions /\ who'[r].user = Token[call[r].cred].user
                 /\ who'[r].permissions = resolve_permissions(Token[call[r].cred].role),
         place = "look" /\ call[r].route \in Rechecked =>
            who'[r].user # None /\ <<call[r].org, who'[r].user, Needs[call[r].route]>> \in held[r]
  PROVE  Inv'
<1> USE DEF Inv
<1>1. TypeOK'
  BY DEF TypeOK
<1>2. Writes'
  BY SameDb, StepWrites DEF Kept
<1>3. Trails'
  BY SameTrails
<1>4. Refused'
  BY DEF Refused, Void, TypeOK
<1>5. \A q \in Requests : Granting(q)' = Granting(q)
  BY DEF Granting, Permitted
<1>6. Principals'
  <2> SUFFICES ASSUME NEW q \in Requests
               PROVE  (/\ pc[q] = "member" => call[q].cred \in Sessions
                       /\ pc[q] \in {"check", "look", "flush"} /\ call[q].route \notin Public =>
                            /\ Entitled(call[q], who[q])
                            /\ who[q].user # None =>
                                 /\ call[q].cred \in Sessions
                                 /\ who[q].user = Token[call[q].cred].user
                                 /\ who[q].permissions = resolve_permissions(Token[call[q].cred].role)
                       /\ pc[q] \in {"auth", "member", "check"} => call[q].route \notin Public
                       /\ Granting(q) \subseteq held[q]
                       /\ pc[q] \in {"look", "flush"} /\ call[q].route \in Rechecked =>
                            who[q].user # None
                              /\ <<call[q].org, who[q].user, Needs[call[q].route]>> \in held[q])'
    BY DEF Principals
  <2>1. Granting(q)' \subseteq held'[q]
    BY <1>5 DEF Principals
  <2>2. CASE q # r
    <3>1. pc'[q] = pc[q] /\ who'[q] = who[q]
      BY <2>2 DEF TypeOK
    <3>2. Entitled(call[q], who[q])' <=> Entitled(call[q], who[q])
      BY <3>1 DEF Entitled
    <3> QED BY <2>1, <3>1, <3>2 DEF Principals
  <2>3. CASE q = r
    <3>1. pc'[r] = place
      BY DEF TypeOK
    <3>2. Entitled(call[r], who[r])' <=> Entitled(call[r], who'[r])
      BY DEF Entitled
    <3>3. place = "member" \/ place = "check" => call[r].route \notin Public
      OBVIOUS
    <3> QED BY <2>1, <2>3, <3>1, <3>2, <3>3
  <2> QED BY <2>2, <2>3
<1>7. Actors'
  BY ActorsStay DEF Wants
<1> QED BY <1>1, <1>2, <1>3, <1>4, <1>6, <1>7

LEMMA BeginInv ==
  ASSUME Inv, NEW r \in Requests, NEW c \in Calls, Begin(r, c)
  PROVE  Inv'
<1> USE DEF Inv
<1> DEFINE place == IF c.route \in Public THEN "look" ELSE "auth"
<1>1. /\ pc[r] = "idle" /\ pc' = [pc EXCEPT ![r] = place] /\ call' = [call EXCEPT ![r] = c]
      /\ UNCHANGED <<db, who, plan, tx, expired, ops>>
  BY DEF Begin, Goto
<1>2. Observe
  BY DEF Begin
<1>3. dead' \in [Requests -> BOOLEAN] /\ \A q \in Requests \ {r} : dead'[q] = dead[q]
  BY DEF Begin, TypeOK
<1>4. dead'[r] => Void(c.cred)
  BY DEF Begin, TypeOK, Void
<1>5. c # None /\ (c.route \in Public => c.cred = None)
  BY IamAssumption, CallArgs DEF IamAssumption
<1>6. dead'[r] => place = "auth"
  <2>1. ~Void(None)
    BY IamAssumption DEF IamAssumption, Void, TypeOK
  <2> QED BY <1>4, <1>5, <2>1
<1>7. TypeOK'
  BY <1>1, <1>2, <1>3, <1>5 DEF TypeOK, Places, Observe
<1>8. Writes'
  BY <1>1, SameDb, StepWrites DEF Kept
<1>9. Trails'
  BY <1>1, SameTrails
<1>10. Refused'
  BY <1>1, <1>3, <1>4, <1>6 DEF Refused, Void, TypeOK
<1>11. Principals'
  <2>1. \A q \in Requests : Granting(q)' \subseteq held'[q] /\ held[q] \subseteq held'[q]
    BY <1>2, Observed
  <2>2. ASSUME NEW q \in Requests \ {r}, pc'[q] \in {"look", "flush"}, call'[q].route \in Rechecked
        PROVE  /\ who'[q].user # None
               /\ <<call'[q].org, who'[q].user, Needs[call'[q].route]>> \in held'[q]
    <3>1. pc'[q] = pc[q] /\ call'[q] = call[q] /\ who'[q] = who[q]
      BY <1>1, <2>2 DEF TypeOK
    <3> QED BY <2>1, <2>2, <3>1 DEF Principals
  <2>3. c.route \in Public => c.route \notin Rechecked
    BY RouteFacts
  <2> QED BY <1>1, <2>1, <2>2, <2>3 DEF Principals, Entitled, TypeOK
<1>12. Actors'
  BY <1>1, <1>2, Observed, ActorsStay DEF Wants
<1> QED BY <1>7, <1>8, <1>9, <1>10, <1>11, <1>12

LEMMA AdmitInv ==
  ASSUME Inv, NEW r \in Requests, NEW p, NEW matched \in BOOLEAN, Admit(r, p, matched),
         UNCHANGED <<db, expired, ops>>,
         pc[r] \in {"auth", "member"}, ~dead[r], p.user \in Users \cup {None},
         p.user # None => /\ call[r].cred \in Sessions /\ p.user = Token[call[r].cred].user
                          /\ p.permissions = resolve_permissions(Token[call[r].cred].role)
  PROVE  Inv'
<1>1. CASE ~(authorize_request(call[r], p, matched) /\ Entitled(call[r], p))
  BY <1>1, EndInv DEF Admit
<1>2. CASE authorize_request(call[r], p, matched) /\ Entitled(call[r], p)
  <2>1. PICK place \in {"check", "look"} :
          /\ pc' = [pc EXCEPT ![r] = place]
          /\ place = "look" => call[r].route \notin Rechecked
    BY <1>2 DEF Admit, Goto
  <2>2. /\ who' = [who EXCEPT ![r] = p]
        /\ UNCHANGED <<call, plan, tx, dead, held>>
    BY <1>2 DEF Admit
  <2>3. DOMAIN who' = Requests /\ who'[r] = p /\ \A q \in Requests \ {r} : who'[q] = who[q]
    BY <2>2 DEF Inv, TypeOK
  <2>4. call[r].route \notin Public
    BY DEF Inv, Principals
  <2>5. place \in Places
    BY DEF Places
  <2> QED BY <1>2, <2>1, <2>2, <2>3, <2>4, <2>5, MoveStep
<1> QED BY <1>1, <1>2

LEMMA AuthenticationInv ==
  ASSUME Inv, NEW r \in Requests, NEW matched \in BOOLEAN,
         \/ AuthenticateBearer(r) \/ LoadMembership(r, matched) \/ AuthenticateApiKey(r, matched)
         \/ AuthenticateNobody(r) \/ RequirePermission(r)
  PROVE  Inv'
<1>1. ASSUME AuthenticateBearer(r) PROVE Inv'
  <2>1. UNCHANGED <<db, expired, ops>> /\ pc[r] = "auth" /\ call[r].cred \in Sessions
    BY <1>1 DEF AuthenticateBearer
  <2>2. CASE ~(Token[call[r].cred].org # None /\ assert_session_active(call[r].cred))
    BY <1>1, <2>1, <2>2, EndInv DEF AuthenticateBearer
  <2>3. CASE Token[call[r].cred].org # None /\ assert_session_active(call[r].cred)
    <3>1. pc' = [pc EXCEPT ![r] = "member"] /\ UNCHANGED <<call, who, plan, tx, dead, held>>
      BY <1>1, <2>3 DEF AuthenticateBearer, Goto, reqVars
    <3>2. ~Void(call[r].cred)
      BY <2>1, <2>3, IamAssumption DEF assert_session_active, Void, IamAssumption
    <3>3. ~dead[r]
      BY <3>2 DEF Inv, Refused
    <3>4. call[r].route \notin Public
      BY <2>1 DEF Inv, Principals
    <3>5. DOMAIN who' = Requests /\ who'[r].user \in Users \cup {None}
            /\ \A q \in Requests \ {r} : who'[q] = who[q]
      BY <3>1 DEF Inv, TypeOK
    <3>6. "member" \in Places
      BY DEF Places
    <3> QED BY <2>1, <3>1, <3>3, <3>4, <3>5, <3>6, MoveStep
  <2> QED BY <2>2, <2>3
<1>2. ASSUME LoadMembership(r, matched) PROVE Inv'
  <2> DEFINE t == Token[call[r].cred]
             p == [user |-> t.user, org |-> t.org, permissions |-> resolve_permissions(t.role)]
  <2>1. UNCHANGED <<db, expired, ops>> /\ pc[r] = "member"
    BY <1>2 DEF LoadMembership
  <2>2. End(r) \/ Admit(r, p, matched)
    BY <1>2 DEF LoadMembership
  <2>3. call[r].cred \in Sessions /\ ~dead[r]
    BY <2>1 DEF Inv, Principals, Refused
  <2>4. p.user = t.user /\ p.permissions = resolve_permissions(t.role) /\ t.user \in Users
    BY <2>3, IamAssumption DEF IamAssumption
  <2> HIDE DEF p
  <2> QED BY <2>1, <2>2, <2>3, <2>4, EndInv, AdmitInv
<1>3. ASSUME AuthenticateApiKey(r, matched) PROVE Inv'
  <2> DEFINE k == call[r].cred
             own == db[Key(k)].permissions
             p == [user |-> None, org |-> db[Key(k)].org,
                   permissions |-> IF own # {} THEN own ELSE resolve_permissions("developer")]
  <2>1. UNCHANGED <<db, expired, ops>> /\ pc[r] = "auth" /\ k \in Keys
    BY <1>3 DEF AuthenticateApiKey
  <2>2. End(r) \/ (key_active(k) /\ Admit(r, p, matched))
    BY <1>3 DEF AuthenticateApiKey
  <2>3. p.user = None
    OBVIOUS
  <2> HIDE DEF p
  <2>4. CASE End(r)
    BY <2>1, <2>4, EndInv
  <2>5. CASE key_active(k) /\ Admit(r, p, matched)
    <3>1. ~Void(k)
      BY <2>1, <2>5, IamAssumption DEF key_active, Void, IamAssumption
    <3>2. ~dead[r]
      BY <3>1 DEF Inv, Refused
    <3> QED BY <2>1, <2>3, <2>5, <3>2, AdmitInv
  <2> QED BY <2>2, <2>4, <2>5
<1>4. ASSUME AuthenticateNobody(r) PROVE Inv'
  BY <1>4, EndInv DEF AuthenticateNobody
<1>5. ASSUME RequirePermission(r) PROVE Inv'
  <2> DEFINE c == call[r]
  <2>1. UNCHANGED <<db, expired, ops>> /\ pc[r] = "check"
    BY <1>5 DEF RequirePermission
  <2>2. \/ End(r)
        \/ /\ check_permission(c.org, who[r], Needs[c.route])
           /\ pc' = [pc EXCEPT ![r] = "look"] /\ UNCHANGED <<call, who, plan, tx, dead, held>>
    BY <1>5 DEF RequirePermission, Goto, reqVars
  <2>3. CASE End(r)
    BY <2>1, <2>3, EndInv
  <2>4. ASSUME check_permission(c.org, who[r], Needs[c.route]),
               pc' = [pc EXCEPT ![r] = "look"], UNCHANGED <<call, who, plan, tx, dead, held>>
        PROVE  Inv'
    <3>1. /\ c.route \notin Public /\ Entitled(c, who[r])
          /\ who[r].user # None =>
               /\ c.cred \in Sessions /\ who[r].user = Token[c.cred].user
               /\ who[r].permissions = resolve_permissions(Token[c.cred].role)
      BY <2>1 DEF Inv, Principals
    <3>2. ~dead[r] /\ c # None
      BY <2>1 DEF Inv, Refused, TypeOK
    <3>3. ASSUME c.route \in Rechecked
          PROVE  who[r].user # None /\ <<c.org, who[r].user, Needs[c.route]>> \in held[r]
      <4>1. who[r].user # None /\ Needs[c.route] \in Permitted(c.org, who[r].user)
        BY <2>4 DEF check_permission, Permitted
      <4>2. c.route \in InOrg /\ c.cred \in Sessions /\ who[r].user = Token[c.cred].user
        BY <3>1, <3>3, <4>1, RouteFacts
      <4>3. <<c.org, who[r].user, Needs[c.route]>> \in Granting(r)
        BY <3>2, <4>1, <4>2 DEF Granting
      <4> QED BY <4>1, <4>3 DEF Inv, Principals
    <3>4. DOMAIN who' = Requests /\ who'[r] = who[r] /\ who'[r].user \in Users \cup {None}
            /\ \A q \in Requests \ {r} : who'[q] = who[q]
      BY <2>4 DEF Inv, TypeOK
    <3>5. "look" \in Places
      BY DEF Places
    <3> QED BY <2>1, <2>4, <3>1, <3>2, <3>3, <3>4, <3>5, MoveStep
  <2> QED BY <2>2, <2>3, <2>4
<1> QED BY <1>1, <1>2, <1>3, <1>4, <1>5

-----------------------------------------------------------------------------
(* The handlers: their plans carry a change and its entry together *)

LEMMA PlanInv ==
  ASSUME Inv, NEW r \in Requests, NEW st \in Seq(Statements), Plan(r, st),
         \A i, j \in DOMAIN st : st[i].row = st[j].row => i = j,
         \A i \in DOMAIN st : ~st[i].new => Changes(st[i].row, st[i].value),
         \A i \in DOMAIN st : Fits(r, st[i].row, st[i].value),
         AllCarried(r)', AllLogged(r)', AllAllowed(r)'
  PROVE  Inv'
<1> USE DEF Inv
<1>1. /\ pc[r] = "look" /\ pc' = [pc EXCEPT ![r] = "flush"] /\ plan' = [plan EXCEPT ![r] = st]
      /\ UNCHANGED <<db, call, who, tx, expired, dead, held, ops>>
  BY DEF Plan, Goto
<1>2. tx[r] = Empty /\ tx'[r] = Empty /\ plan'[r] = st
  BY <1>1 DEF TypeOK
<1>3. TypeOK'
  BY <1>1 DEF TypeOK, Places
<1>4. Writes'
  <2>1. \A q \in Requests \ {r} : Kept(q)
    BY <1>1 DEF Kept, TypeOK
  <2>2. \A q \in Requests \ {r} : Consistent(q)'
    BY <1>1, <2>1, SameDb, KeptConsistent DEF Writes
  <2>3. Exclusive'
    BY <1>1 DEF Writes, Exclusive
  <2>4. Ordered(r)'
    BY <1>2 DEF Ordered, Empty, Changes
  <2>5. AllFit(r)'
    <3>1. \A row, v : Wants(r, row, v)' => Fits(r, row, v)
      BY <1>2 DEF Wants, Empty
    <3>2. \A row, v : Fits(r, row, v) => Fits(r, row, v)'
      BY <1>1 DEF Fits
    <3> QED BY <3>1, <3>2 DEF AllFit
  <2> QED BY <2>2, <2>3, <2>4, <2>5 DEF Writes, Consistent
<1>5. Trails'
  BY <1>1, SameTrails
<1>6. Refused'
  BY <1>1 DEF Refused, Void, TypeOK
<1>7. Principals'
  <2>1. \A q \in Requests : Granting(q)' = Granting(q)
    BY <1>1 DEF Granting, Permitted
  <2>2. \A q \in Requests : Granting(q)' \subseteq held'[q]
    BY <1>1, <2>1 DEF Principals
  <2> QED BY <1>1, <2>2 DEF Principals, Entitled, TypeOK
<1>8. Actors'
  <2>1. ASSUME NEW q \in Requests \ {r} PROVE AllAllowed(q)'
    <3>1. Kept(q)
      BY <1>1 DEF Kept, TypeOK
    <3> QED BY <1>1, <3>1, KeptWants, AllAllowedStays DEF Actors
  <2>2. ActorsPermitted'
    BY <1>1 DEF Actors, ActorsPermitted, Allowed, Logged, Trail
  <2> QED BY <2>1, <2>2 DEF Actors
<1> QED BY <1>3, <1>4, <1>5, <1>6, <1>7, <1>8

LEMMA NoPlan ==
  ASSUME Inv, NEW r \in Requests, Plan(r, <<>>)
  PROVE  Inv'
<1>1. plan'[r] = <<>> /\ tx'[r] = Empty
  BY DEF Plan, Inv, TypeOK
<1>2. AllCarried(r)' /\ AllLogged(r)' /\ AllAllowed(r)'
  <2>1. \A row, v : ~Wants(r, row, v)'
    BY <1>1 DEF Wants, Empty
  <2> QED BY <2>1 DEF AllCarried, AllLogged, AllAllowed
<1>3. <<>> \in Seq(Statements) /\ DOMAIN <<>> = {}
  OBVIOUS
<1> QED BY <1>2, <1>3, PlanInv

\* A plan of one, two and three statements.
LEMMA OneWanted ==
  ASSUME Inv, NEW r \in Requests, NEW a, Plan(r, <<a>>)
  PROVE  \A row, v : Wants(r, row, v)' <=> row = a.row /\ v = a.value
<1>1. plan'[r] = <<a>> /\ tx'[r] = Empty
  BY DEF Plan, Inv, TypeOK
<1>2. DOMAIN <<a>> = {1} /\ <<a>>[1] = a
  OBVIOUS
<1> QED BY <1>1, <1>2 DEF Wants, Empty

LEMMA TwoWanted ==
  ASSUME Inv, NEW r \in Requests, NEW a, NEW b, Plan(r, <<a, b>>)
  PROVE  \A row, v : Wants(r, row, v)' <=> \/ row = a.row /\ v = a.value
                                           \/ row = b.row /\ v = b.value
<1>1. plan'[r] = <<a, b>> /\ tx'[r] = Empty
  BY DEF Plan, Inv, TypeOK
<1>2. DOMAIN <<a, b>> = {1, 2} /\ <<a, b>>[1] = a /\ <<a, b>>[2] = b
  OBVIOUS
<1> QED BY <1>1, <1>2 DEF Wants, Empty

LEMMA ThreeWanted ==
  ASSUME Inv, NEW r \in Requests, NEW a, NEW b, NEW c, Plan(r, <<a, b, c>>)
  PROVE  \A row, v : Wants(r, row, v)' <=> \/ row = a.row /\ v = a.value
                                           \/ row = b.row /\ v = b.value
                                           \/ row = c.row /\ v = c.value
<1>1. plan'[r] = <<a, b, c>> /\ tx'[r] = Empty
  BY DEF Plan, Inv, TypeOK
<1>2. DOMAIN <<a, b, c>> = {1, 2, 3} /\ <<a, b, c>>[1] = a /\ <<a, b, c>>[2] = b
        /\ <<a, b, c>>[3] = c
  OBVIOUS
<1> QED BY <1>1, <1>2 DEF Wants, Empty

\* A statement that may be in a plan of r.
May(r, w) == /\ w \in Statements
             /\ ~w.new => Changes(w.row, w.value)
             /\ Fits(r, w.row, w.value)

LEMMA OneInv ==
  ASSUME Inv, NEW r \in Requests, NEW a, Plan(r, <<a>>), May(r, a),
         AllCarried(r)', AllLogged(r)', AllAllowed(r)'
  PROVE  Inv'
<1>1. <<a>> \in Seq(Statements)
  BY DEF May
<1>2. DOMAIN <<a>> = {1} /\ <<a>>[1] = a
  OBVIOUS
<1> QED BY <1>1, <1>2, PlanInv DEF May

LEMMA TwoInv ==
  ASSUME Inv, NEW r \in Requests, NEW a, NEW b, Plan(r, <<a, b>>), May(r, a), May(r, b),
         a.row # b.row, AllCarried(r)', AllLogged(r)', AllAllowed(r)'
  PROVE  Inv'
<1>1. <<a, b>> \in Seq(Statements)
  BY DEF May
<1>2. DOMAIN <<a, b>> = {1, 2} /\ <<a, b>>[1] = a /\ <<a, b>>[2] = b
  OBVIOUS
<1> QED BY <1>1, <1>2, PlanInv DEF May

LEMMA ThreeInv ==
  ASSUME Inv, NEW r \in Requests, NEW a, NEW b, NEW c, Plan(r, <<a, b, c>>),
         May(r, a), May(r, b), May(r, c),
         a.row # b.row, a.row # c.row, b.row # c.row,
         AllCarried(r)', AllLogged(r)', AllAllowed(r)'
  PROVE  Inv'
<1>1. <<a, b, c>> \in Seq(Statements)
  BY DEF May
<1>2. DOMAIN <<a, b, c>> = {1, 2, 3} /\ <<a, b, c>>[1] = a /\ <<a, b, c>>[2] = b
        /\ <<a, b, c>>[3] = c
  OBVIOUS
<1> QED BY <1>1, <1>2, PlanInv DEF May

\* The statements of the handlers.
LEMMA LogMay ==
  ASSUME Inv, NEW r \in Requests, NEW o \in Orgs,
         NEW action \in {"user.invited", "user.created", "api_key.created", "api_key.revoked",
                         "role.created", "security_policy.updated", "session.revoked"},
         NEW target \in Users \cup Keys \cup Slugs \cup Sessions \cup {None}
  PROVE  LET w == Log(r, o, action, target)
         IN /\ May(r, w) /\ w.row = Audit(r)
            /\ w.value.org = o /\ w.value.action = action /\ w.value.target = target
            /\ w.value.actor = who[r].user
<1> DEFINE e == [org |-> o, action |-> action, target |-> target, actor |-> who[r].user]
           w == Log(r, o, action, target)
<1>1. e \in Entries
  BY DEF Entries, Inv, TypeOK
<1>2. e.org = o /\ e.action = action /\ e.target = target /\ e.actor = who[r].user
  OBVIOUS
<1>3. w = [row |-> Audit(r), value |-> e, new |-> TRUE]
  BY DEF Log, Insert
<1> HIDE DEF e
<1>4. w.row = Audit(r) /\ w.value = e /\ w.new = TRUE
  BY <1>3
<1>5. w \in Statements
  BY <1>1, <1>3, AreRows DEF Statements, Values
<1>6. e # None
  BY <1>1, IamAssumption DEF IamAssumption
<1>7. Fits(r, Audit(r), e)
  BY <1>1, <1>6, Tables, OneKey DEF Fits
<1> HIDE DEF w
<1>8. May(r, w)
  BY <1>4, <1>5, <1>7 DEF May
<1> USE DEF w
<1> QED BY <1>2, <1>4, <1>8

LEMMA InsertMay ==
  ASSUME NEW r \in Requests, NEW row \in Rows,
         \/ \E u : row = User(u)
         \/ \E o, u : row = Member(o, u)
         \/ \E o, s : row = Role(o, s),
         NEW v \in Granted \cup {"active", "custom"}
  PROVE  May(r, Insert(row, v)) /\ Insert(row, v).row = row /\ Insert(row, v).value = v
<1>1. Insert(row, v) = [row |-> row, value |-> v, new |-> TRUE]
  BY DEF Insert
<1>2. Insert(row, v) \in Statements
  BY <1>1 DEF Statements, Values
<1>3. v # None
  BY IamAssumption DEF IamAssumption
<1>4. Fits(r, row, v)
  BY <1>3, Tables DEF Fits
<1> QED BY <1>1, <1>2, <1>4 DEF May

LEMMA CreateKeyMay ==
  ASSUME Inv, NEW r \in Requests, NEW k \in Keys, NEW o \in Orgs, NEW perms \in SUBSET All,
         NEW by \in Users \cup {None}
  PROVE  LET w == CreateKey(k, o, perms, by)
         IN /\ May(r, w) /\ w.row = Key(k)
            /\ w.value.org = o /\ w.value.by = by /\ w.value.status = "active"
<1> DEFINE v == [org |-> o, status |-> "active", permissions |-> perms, by |-> by]
           w == CreateKey(k, o, perms, by)
<1>1. v \in KeyRows /\ v.org = o /\ v.by = by /\ v.status = "active"
  BY DEF KeyRows
<1>2. w = [row |-> Key(k), value |-> v, new |-> TRUE]
  BY DEF CreateKey, Insert
<1> HIDE DEF v
<1>3. w.row = Key(k) /\ w.value = v /\ w.new = TRUE
  BY <1>2
<1>4. w \in Statements
  BY <1>1, <1>2, AreRows DEF Statements, Values
<1>5. v # None
  BY <1>1, IamAssumption DEF IamAssumption
<1>6. Fits(r, Key(k), v)
  BY <1>1, <1>5, Tables, OneKey DEF Fits
<1> HIDE DEF w
<1>7. May(r, w)
  BY <1>3, <1>4, <1>6 DEF May
<1> USE DEF w
<1> QED BY <1>1, <1>3, <1>7

LEMMA RevokeKeyMay ==
  ASSUME Inv, NEW r \in Requests, NEW k \in Keys, db[Key(k)] # None
  PROVE  LET w == RevokeKey(k)
         IN /\ May(r, w) /\ w.row = Key(k)
            /\ w.value.org = db[Key(k)].org /\ w.value.status = "revoked"
<1> DEFINE v == [db[Key(k)] EXCEPT !.status = "revoked"]
           w == RevokeKey(k)
<1>1. db[Key(k)] \in KeyRows
  BY DEF Inv, TypeOK
<1>2. v \in KeyRows /\ v.org = db[Key(k)].org /\ v.by = db[Key(k)].by /\ v.status = "revoked"
  BY <1>1 DEF KeyRows
<1>3. w = [row |-> Key(k), value |-> v, new |-> FALSE]
  BY DEF RevokeKey, Update
<1> HIDE DEF v
<1>4. w.row = Key(k) /\ w.value = v /\ w.new = FALSE
  BY <1>3
<1>5. w \in Statements
  BY <1>2, <1>3, AreRows DEF Statements, Values
<1>6. v # None
  BY <1>2, IamAssumption DEF IamAssumption
<1>7. Fits(r, Key(k), v)
  BY <1>2, <1>6, Tables, OneKey DEF Fits
<1>8. Changes(Key(k), v)
  BY <1>2 DEF Changes
<1> HIDE DEF w
<1>9. May(r, w)
  BY <1>4, <1>5, <1>7, <1>8 DEF May
<1> USE DEF w
<1> QED BY <1>2, <1>4, <1>9

LEMMA UpdateMay ==
  ASSUME NEW r \in Requests, NEW row, NEW v,
         \/ v = "revoked" /\ \E s \in Sessions : row = Session(s)
         \/ v = "updated" /\ \E o \in Orgs : row = Policy(o)
  PROVE  May(r, Update(row, v)) /\ Update(row, v).row = row /\ Update(row, v).value = v
<1>1. Update(row, v) = [row |-> row, value |-> v, new |-> FALSE]
  BY DEF Update
<1>2. Update(row, v) \in Statements
  BY <1>1, AreRows DEF Statements, Values
<1>3. v # None
  BY IamAssumption DEF IamAssumption
<1>4. Fits(r, row, v)
  BY <1>3, Tables DEF Fits
<1>5. Changes(row, v)
  BY DEF Changes
<1> QED BY <1>1, <1>2, <1>4, <1>5 DEF May

\* Past _require_permission, the user might do what the route is for.
LEMMA RecheckedAllowed ==
  ASSUME Inv, NEW r \in Requests, pc[r] = "look", call[r].route \in Rechecked, NEW e,
         e.org = call[r].org, e.actor = who[r].user, Needed(e.action) = Needs[call[r].route],
         e.action \notin {"session.revoked", "user.created"}
  PROVE  Allowed(r, e) /\ who[r].user \in Users
<1>1. /\ who[r].user # None /\ who[r].user \in Users \cup {None}
      /\ <<call[r].org, who[r].user, Needs[call[r].route]>> \in held[r]
  BY DEF Inv, TypeOK, Principals
<1> QED BY <1>1 DEF Allowed

\* A handler that creates a user: the user, the membership and the entry.
LEMMA NewUserInv ==
  ASSUME Inv, NEW r \in Requests, NEW o \in Orgs, NEW u \in Users, NEW role \in Granted,
         NEW action \in {"user.invited", "user.created"},
         \A e : e.org = o /\ e.action = action /\ e.actor = who[r].user => Allowed(r, e),
         action = "user.invited" => \E actor \in Users : <<o, actor, "manage_users">> \in held[r],
         Plan(r, <<CreateUser(u), AddMember(o, u, role), Log(r, o, action, u)>>)
  PROVE  Inv'
<1>1. May(r, CreateUser(u)) /\ CreateUser(u).row = User(u)
  BY AreRows, InsertMay DEF CreateUser
<1>2. May(r, AddMember(o, u, role)) /\ AddMember(o, u, role).row = Member(o, u)
  BY AreRows, InsertMay DEF AddMember
<1>3. LET w == Log(r, o, action, u)
      IN /\ May(r, w) /\ w.row = Audit(r) /\ w.value.actor = who[r].user
         /\ w.value.org = o /\ w.value.action = action /\ w.value.target = u
  BY LogMay
<1> SUFFICES ASSUME NEW a, NEW b, NEW c, Plan(r, <<a, b, c>>),
                    May(r, a), a.row = User(u), May(r, b), b.row = Member(o, u),
                    May(r, c), c.row = Audit(r), c.value.actor = who[r].user,
                    c.value.org = o, c.value.action = action, c.value.target = u
             PROVE  Inv'
  BY <1>1, <1>2, <1>3
<1>4. \A row, v : Wants(r, row, v)' <=> \/ row = a.row /\ v = a.value
                                        \/ row = b.row /\ v = b.value
                                        \/ row = c.row /\ v = c.value
  BY ThreeWanted
<1>5. AllCarried(r)'
  <2>1. \A e : Wants(r, Audit(r), e)' => e = c.value
    BY <1>4, Tables
  <2>2. Carried(r, c.value)'
    BY <1>4 DEF Carried
  <2> QED BY <2>1, <2>2 DEF AllCarried, Carried
<1>6. AllLogged(r)'
  <2>1. WithEntry(r, o, {"user.invited", "user.created"}, u)'
    BY <1>4 DEF WithEntry
  <2>2. \A x \in Users : \A v : Wants(r, User(x), v)' => x = u
    BY <1>4, Tables, OneKey
  <2>3. \A v : /\ \A k \in Keys : ~Wants(r, Key(k), v)'
               /\ \A m \in Orgs, s \in Slugs : ~Wants(r, Role(m, s), v)'
               /\ \A s \in Sessions : ~Wants(r, Session(s), v)'
               /\ \A m \in Orgs : ~Wants(r, Policy(m), v)'
    BY <1>4, Tables
  <2>4. \A m \in Orgs, x \in Users : \A v : Wants(r, Member(m, x), v)' => x = u
    BY <1>4, Tables, OneKey
  <2>5. Wants(r, User(u), a.value)'
    BY <1>4
  <2> QED BY <2>1, <2>2, <2>3, <2>4, <2>5 DEF AllLogged
<1>7. AllAllowed(r)'
  <2>1. \A e : Wants(r, Audit(r), e)' => e = c.value
    BY <1>4, Tables
  <2>2. held' = held
    BY DEF Plan
  <2>3. Allowed(r, c.value)'
    BY <2>2 DEF Allowed
  <2>4. ASSUME NEW m \in Orgs, NEW x \in Users, NEW v, Wants(r, Member(m, x), v)'
        PROVE  \/ WithEntry(r, m, {"user.created"}, x)'
               \/ \E actor \in Users : <<m, actor, "manage_users">> \in held'[r]
    <3>1. m = o /\ x = u
      BY <1>4, <2>4, Tables, OneKey
    <3>2. action = "user.created" => WithEntry(r, o, {"user.created"}, u)'
      BY <1>4 DEF WithEntry
    <3> QED BY <2>2, <3>1, <3>2
  <2> QED BY <2>1, <2>3, <2>4 DEF AllAllowed, Allowed
<1>8. a.row # b.row /\ a.row # c.row /\ b.row # c.row
  BY Tables
<1> QED BY <1>5, <1>6, <1>7, <1>8, ThreeInv

LEMMA InviteHandler ==
  ASSUME Inv, NEW r \in Requests, NEW role \in Granted, invite_user(r, role)
  PROVE  Inv'
<1> DEFINE o == call[r].org
           u == call[r].arg
           add == AddMember(o, u, role)
<1>1. pc[r] = "look" /\ call[r].route = "invite_user" /\ call[r] \in Calls
  <2>1. pc[r] = "look" /\ call[r].route = "invite_user"
    BY DEF invite_user, On
  <2> QED BY <2>1 DEF Inv, TypeOK
<1>2. o \in Orgs /\ u \in Users
  BY <1>1, CallArgs, RouteFacts
<1>3. who[r].user \in Users /\ <<o, who[r].user, "manage_users">> \in held[r]
  BY <1>1, RouteFacts DEF Inv, TypeOK, Principals
<1>4. \A e : e.org = o /\ e.action = "user.invited" /\ e.actor = who[r].user => Allowed(r, e)
  BY <1>3 DEF Allowed, Needed
<1>5. May(r, add) /\ add.row = Member(o, u)
  BY <1>2, AreRows, InsertMay DEF AddMember
<1>6. \/ db[User(u)] # None /\ Plan(r, <<add>>)
      \/ Plan(r, <<CreateUser(u), AddMember(o, u, role), Log(r, o, "user.invited", u)>>)
  BY DEF invite_user
<1>7. ASSUME NEW x, NEW m \in Orgs, NEW y \in Users, Plan(r, <<x>>), May(r, x),
             x.row = Member(m, y), db[User(y)] # None,
             \E actor \in Users : <<m, actor, "manage_users">> \in held[r]
      PROVE  Inv'
  <2>1. \A row, v : Wants(r, row, v)' => row = Member(m, y)
    BY <1>7, OneWanted
  <2>2. db' = db /\ held' = held
    BY <1>7 DEF Plan
  <2>3. \A l \in Orgs, z \in Users : \A v : Wants(r, Member(l, z), v)' => l = m /\ z = y
    BY <2>1, OneKey
  <2>4. AllCarried(r)' /\ AllLogged(r)'
    BY <1>7, <2>1, <2>2, <2>3, Tables DEF AllCarried, AllLogged
  <2>5. AllAllowed(r)'
    BY <1>7, <2>1, <2>2, <2>3, Tables DEF AllAllowed
  <2> QED BY <1>7, <2>4, <2>5, OneInv
<1> HIDE DEF o, u, add
<1>8. CASE db[User(u)] # None /\ Plan(r, <<add>>)
  BY <1>2, <1>3, <1>5, <1>7, <1>8
<1>9. CASE Plan(r, <<CreateUser(u), AddMember(o, u, role), Log(r, o, "user.invited", u)>>)
  BY <1>2, <1>3, <1>4, <1>9, NewUserInv
<1> QED BY <1>6, <1>8, <1>9

LEMMA RegisterHandler ==
  ASSUME Inv, NEW r \in Requests, NEW role \in Granted, NEW valid \in BOOLEAN,
         register_user(r, role, valid)
  PROVE  Inv'
<1> DEFINE o == call[r].org
           u == call[r].arg
<1>1. pc[r] = "look" /\ call[r].route = "register_user" /\ call[r] \in Calls
  <2>1. pc[r] = "look" /\ call[r].route = "register_user"
    BY DEF register_user, On
  <2> QED BY <2>1 DEF Inv, TypeOK
<1>2. o \in Orgs /\ u \in Users
  BY <1>1, CallArgs, RouteFacts
<1>3. ASSUME who[r].user # None
      PROVE  \E s \in Sessions : /\ Token[s].user = who[r].user
                                 /\ "manage_users" \in resolve_permissions(Token[s].role)
  <2>1. /\ call[r].cred \in Sessions /\ who[r].user = Token[call[r].cred].user
        /\ who[r].permissions = resolve_permissions(Token[call[r].cred].role)
        /\ Entitled(call[r], who[r])
    BY <1>1, <1>3, RouteFacts DEF Inv, Principals
  <2>2. "manage_users" \in who[r].permissions
    BY <1>1, <2>1, RouteFacts DEF Entitled
  <2> QED BY <2>1, <2>2
<1>4. \A e : e.org = o /\ e.action = "user.created" /\ e.actor = who[r].user => Allowed(r, e)
  BY <1>3 DEF Allowed
<1>5. \/ Plan(r, <<CreateUser(u), AddMember(o, u, role), Log(r, o, "user.created", u)>>)
      \/ End(r) /\ UNCHANGED <<db, expired, ops>>
  BY DEF register_user, Raise
<1> HIDE DEF o, u
<1>6. CASE Plan(r, <<CreateUser(u), AddMember(o, u, role), Log(r, o, "user.created", u)>>)
  BY <1>2, <1>4, <1>6, NewUserInv
<1>7. CASE End(r) /\ UNCHANGED <<db, expired, ops>>
  BY <1>7, EndInv
<1> QED BY <1>5, <1>6, <1>7

\* A plan that adds no member, with its entry.
LEMMA EntryOnly ==
  ASSUME NEW r \in Requests, NEW e, Allowed(r, e), held' = held,
         \A x : Wants(r, Audit(r), x)' => x = e,
         \A o \in Orgs, u \in Users : \A v : ~Wants(r, Member(o, u), v)'
  PROVE  AllAllowed(r)'
<1>1. Allowed(r, e)'
  BY AllowedStays
<1> QED BY <1>1 DEF AllAllowed

LEMMA KeyHandlers ==
  ASSUME Inv, NEW r \in Requests, NEW x \in Keys, NEW perms \in {{}, {"manage_users"}},
         create_api_key(r, x, perms) \/ revoke_api_key(r)
  PROVE  Inv'
<1>1. pc[r] = "look" /\ call[r].route \in {"create_api_key", "revoke_api_key"}
  BY DEF create_api_key, revoke_api_key, On
<1>2. call[r] \in Calls
  BY <1>1 DEF Inv, TypeOK
<1>3. call[r].org \in Orgs /\ (call[r].route = "revoke_api_key" => call[r].arg \in Keys)
  BY <1>1, <1>2, CallArgs, RouteFacts
<1>4. ASSUME NEW o \in Orgs, NEW k \in Keys, NEW a, NEW b, Plan(r, <<a, b>>),
             May(r, a), a.row = Key(k), a.value.org = o,
             May(r, b), b.row = Audit(r), b.value.org = o, b.value.target = k,
             Allowed(r, b.value),
             \/ /\ a.value.status = "active" /\ a.value.by = b.value.actor
                /\ b.value.action = "api_key.created"
             \/ a.value.status = "revoked" /\ b.value.action = "api_key.revoked"
      PROVE  Inv'
  <2>1. \A row, v : Wants(r, row, v)' <=> \/ row = a.row /\ v = a.value
                                          \/ row = b.row /\ v = b.value
    BY <1>4, TwoWanted
  <2>2. AllCarried(r)'
    <3>1. \A e : Wants(r, Audit(r), e)' => e = b.value
      BY <1>4, <2>1, Tables
    <3>2. Carried(r, b.value)'
      BY <1>4, <2>1 DEF Carried
    <3> QED BY <3>1, <3>2 DEF AllCarried, Carried
  <2>3. AllLogged(r)'
    <3>1. WithEntry(r, o, {IF a.value.status = "revoked" THEN "api_key.revoked"
                           ELSE "api_key.created"}, k)'
      BY <1>4, <2>1 DEF WithEntry
    <3>2. \A l \in Keys : \A v : Wants(r, Key(l), v)' => l = k /\ v = a.value
      BY <1>4, <2>1, Tables, OneKey
    <3>3. \A v : /\ \A u \in Users : ~Wants(r, User(u), v)'
                 /\ \A m \in Orgs, s \in Slugs : ~Wants(r, Role(m, s), v)'
                 /\ \A s \in Sessions : ~Wants(r, Session(s), v)'
                 /\ \A m \in Orgs : ~Wants(r, Policy(m), v)'
                 /\ \A m \in Orgs, u \in Users : ~Wants(r, Member(m, u), v)'
      BY <1>4, <2>1, Tables
    <3> QED BY <1>4, <3>1, <3>2, <3>3 DEF AllLogged
  <2>4. AllAllowed(r)'
    <3>1. /\ \A e : Wants(r, Audit(r), e)' => e = b.value
          /\ \A m \in Orgs, u \in Users : \A v : ~Wants(r, Member(m, u), v)'
      BY <1>4, <2>1, Tables
    <3>2. held' = held
      BY <1>4 DEF Plan
    <3> QED BY <1>4, <3>1, <3>2, EntryOnly
  <2>5. a.row # b.row
    BY <1>4, Tables
  <2> QED BY <1>4, <2>2, <2>3, <2>4, <2>5, TwoInv
<1>5. ASSUME create_api_key(r, x, perms) PROVE Inv'
  <2> DEFINE o == call[r].org
             a == CreateKey(x, o, perms, who[r].user)
             b == Log(r, o, "api_key.created", x)
  <2>1. perms \in SUBSET All /\ who[r].user \in Users \cup {None}
    BY DEF All, Inv, TypeOK
  <2>2. /\ May(r, a) /\ a.row = Key(x)
        /\ a.value.org = o /\ a.value.by = who[r].user /\ a.value.status = "active"
    BY <1>3, <2>1, CreateKeyMay
  <2>3. /\ May(r, b) /\ b.row = Audit(r) /\ b.value.org = o /\ b.value.target = x
        /\ b.value.action = "api_key.created" /\ b.value.actor = who[r].user
    BY <1>3, LogMay
  <2>4. Plan(r, <<a, b>>) /\ call[r].route = "create_api_key"
    BY <1>5 DEF create_api_key, On
  <2> HIDE DEF a, b
  <2>5. Allowed(r, b.value)
    BY <1>1, <2>3, <2>4, RouteFacts, RecheckedAllowed DEF Needed
  <2> QED BY <1>3, <1>4, <2>2, <2>3, <2>4, <2>5
<1>6. ASSUME revoke_api_key(r) PROVE Inv'
  <2> DEFINE o == call[r].org
             k == call[r].arg
             a == RevokeKey(k)
             b == Log(r, o, "api_key.revoked", k)
  <2>1. k \in Keys /\ call[r].route = "revoke_api_key"
    BY <1>3, <1>6 DEF revoke_api_key, On
  <2>2. \/ End(r) /\ UNCHANGED <<db, expired, ops>>
        \/ db[Key(k)] # None /\ db[Key(k)].org = o /\ Plan(r, <<a, b>>)
    BY <1>6 DEF revoke_api_key, Raise
  <2>3. CASE End(r) /\ UNCHANGED <<db, expired, ops>>
    BY <2>3, EndInv
  <2>4. CASE db[Key(k)] # None /\ db[Key(k)].org = o /\ Plan(r, <<a, b>>)
    <3>1. May(r, a) /\ a.row = Key(k) /\ a.value.org = o /\ a.value.status = "revoked"
      BY <2>1, <2>4, RevokeKeyMay
    <3>2. /\ May(r, b) /\ b.row = Audit(r) /\ b.value.org = o /\ b.value.target = k
          /\ b.value.action = "api_key.revoked" /\ b.value.actor = who[r].user
      BY <1>3, <2>1, LogMay
    <3>3. Plan(r, <<a, b>>)
      BY <2>4
    <3> HIDE DEF a, b
    <3>4. Allowed(r, b.value)
      BY <1>1, <2>1, <3>2, RouteFacts, RecheckedAllowed DEF Needed
    <3> QED BY <1>3, <1>4, <2>1, <3>1, <3>2, <3>3, <3>4
  <2> QED BY <2>2, <2>3, <2>4
<1> QED BY <1>5, <1>6

LEMMA RoleHandler ==
  ASSUME Inv, NEW r \in Requests, create_role(r)
  PROVE  Inv'
<1> DEFINE o == call[r].org
           x == call[r].arg
           a == CreateRole(o, x)
           b == Log(r, o, "role.created", x)
<1>1. o \in Orgs /\ x \in Slugs /\ pc[r] = "look" /\ call[r].route = "create_role"
  <2>1. pc[r] = "look" /\ call[r].route = "create_role"
    BY DEF create_role, On
  <2>2. call[r] \in Calls
    BY <2>1 DEF Inv, TypeOK
  <2> QED BY <2>1, <2>2, CallArgs, RouteFacts
<1>2. May(r, a) /\ a.row = Role(o, x)
  BY <1>1, AreRows, InsertMay DEF CreateRole
<1>3. /\ May(r, b) /\ b.row = Audit(r) /\ b.value.org = o /\ b.value.target = x
      /\ b.value.action = "role.created" /\ b.value.actor = who[r].user
  BY <1>1, LogMay
<1>4. Plan(r, <<a, b>>)
  BY DEF create_role
<1> SUFFICES ASSUME NEW m \in Orgs, NEW t \in Slugs, NEW y, NEW z, Plan(r, <<y, z>>),
                    May(r, y), y.row = Role(m, t),
                    May(r, z), z.row = Audit(r), z.value.org = m, z.value.target = t,
                    z.value.action = "role.created", Allowed(r, z.value)
             PROVE  Inv'
  <2> HIDE DEF a, b
  <2>1. Allowed(r, b.value)
    BY <1>1, <1>3, RouteFacts, RecheckedAllowed DEF Needed
  <2> QED BY <1>1, <1>2, <1>3, <1>4, <2>1
<1>5. \A row, v : Wants(r, row, v)' <=> \/ row = y.row /\ v = y.value
                                        \/ row = z.row /\ v = z.value
  BY TwoWanted
<1>6. AllCarried(r)'
  <2>1. \A e : Wants(r, Audit(r), e)' => e = z.value
    BY <1>5, Tables
  <2>2. Carried(r, z.value)'
    BY <1>5 DEF Carried
  <2> QED BY <2>1, <2>2 DEF AllCarried, Carried
<1>7. AllLogged(r)'
  <2>1. WithEntry(r, m, {"role.created"}, t)'
    BY <1>5 DEF WithEntry
  <2>2. \A l \in Orgs, s \in Slugs : \A v : Wants(r, Role(l, s), v)' => l = m /\ s = t
    BY <1>5, Tables, OneKey
  <2>3. \A v : /\ \A u \in Users : ~Wants(r, User(u), v)'
               /\ \A k \in Keys : ~Wants(r, Key(k), v)'
               /\ \A s \in Sessions : ~Wants(r, Session(s), v)'
               /\ \A l \in Orgs : ~Wants(r, Policy(l), v)'
               /\ \A l \in Orgs, u \in Users : ~Wants(r, Member(l, u), v)'
    BY <1>5, Tables
  <2> QED BY <2>1, <2>2, <2>3 DEF AllLogged
<1>8. AllAllowed(r)'
  <2>1. /\ \A e : Wants(r, Audit(r), e)' => e = z.value
        /\ \A l \in Orgs, u \in Users : \A v : ~Wants(r, Member(l, u), v)'
    BY <1>5, Tables
  <2>2. held' = held
    BY DEF Plan
  <2> QED BY <2>1, <2>2, EntryOnly
<1>9. y.row # z.row
  BY Tables
<1> QED BY <1>6, <1>7, <1>8, <1>9, TwoInv

LEMMA PolicyHandler ==
  ASSUME Inv, NEW r \in Requests, update_security_policy(r)
  PROVE  Inv'
<1> DEFINE o == call[r].org
<1>1. o \in Orgs /\ pc[r] = "look" /\ call[r].route = "update_security_policy"
  <2>1. pc[r] = "look" /\ call[r].route = "update_security_policy"
    BY DEF update_security_policy, On
  <2>2. call[r] \in Calls
    BY <2>1 DEF Inv, TypeOK
  <2> QED BY <2>1, <2>2, CallArgs, RouteFacts
<1>2. May(r, UpdatePolicy(o)) /\ UpdatePolicy(o).row = Policy(o)
  BY <1>1, UpdateMay DEF UpdatePolicy
<1>3. LET w == Log(r, o, "security_policy.updated", None)
      IN /\ May(r, w) /\ w.row = Audit(r) /\ w.value.org = o /\ w.value.target = None
         /\ w.value.action = "security_policy.updated" /\ w.value.actor = who[r].user
  BY <1>1, LogMay
<1>4. \A e : /\ e.org = o /\ e.action = "security_policy.updated"
            /\ e.actor = who[r].user => Allowed(r, e)
  BY <1>1, RouteFacts, RecheckedAllowed DEF Needed
<1>5. \/ End(r) /\ UNCHANGED <<db, expired, ops>>
      \/ Plan(r, <<UpdatePolicy(o), Log(r, o, "security_policy.updated", None)>>)
  BY DEF update_security_policy, Raise
<1>6. CASE End(r) /\ UNCHANGED <<db, expired, ops>>
  BY <1>6, EndInv
<1> HIDE DEF o
<1> SUFFICES ASSUME NEW m \in Orgs, NEW y, NEW z, Plan(r, <<y, z>>), May(r, y), y.row = Policy(m),
                    May(r, z), z.row = Audit(r), z.value.org = m, z.value.target = None,
                    z.value.action = "security_policy.updated", Allowed(r, z.value)
             PROVE  Inv'
  BY <1>1, <1>2, <1>3, <1>4, <1>5, <1>6
<1>7. \A row, v : Wants(r, row, v)' <=> \/ row = y.row /\ v = y.value
                                        \/ row = z.row /\ v = z.value
  BY TwoWanted
<1>8. AllCarried(r)'
  <2>1. \A e : Wants(r, Audit(r), e)' => e = z.value
    BY <1>7, Tables
  <2>2. Carried(r, z.value)'
    BY <1>7 DEF Carried
  <2> QED BY <2>1, <2>2 DEF AllCarried, Carried
<1>9. AllLogged(r)'
  <2>1. \A v : /\ \A u \in Users : ~Wants(r, User(u), v)'
               /\ \A k \in Keys : ~Wants(r, Key(k), v)'
               /\ \A l \in Orgs, s \in Slugs : ~Wants(r, Role(l, s), v)'
               /\ \A s \in Sessions : ~Wants(r, Session(s), v)'
               /\ \A l \in Orgs, u \in Users : ~Wants(r, Member(l, u), v)'
    BY <1>7, Tables
  <2>2. WithEntry(r, m, {"security_policy.updated"}, None)'
    BY <1>7 DEF WithEntry
  <2>3. \A l \in Orgs : \A v : Wants(r, Policy(l), v)' => l = m
    BY <1>7, Tables, OneKey
  <2> QED BY <2>1, <2>2, <2>3 DEF AllLogged
<1>10. AllAllowed(r)'
  <2>1. /\ \A e : Wants(r, Audit(r), e)' => e = z.value
        /\ \A l \in Orgs, u \in Users : \A v : ~Wants(r, Member(l, u), v)'
    BY <1>7, Tables
  <2>2. held' = held
    BY DEF Plan
  <2> QED BY <2>1, <2>2, EntryOnly
<1>11. y.row # z.row
  BY Tables
<1> QED BY <1>8, <1>9, <1>10, <1>11, TwoInv

LEMMA SessionHandlers ==
  ASSUME Inv, NEW r \in Requests, revoke_session(r)
  PROVE  Inv'
<1> DEFINE s == IF call[r].route = "logout" THEN call[r].cred ELSE call[r].arg
<1>1. pc[r] = "look" /\ call[r].route \in {"logout", "revoke_session"} /\ call[r] \in Calls
  <2>1. pc[r] = "look" /\ call[r].route \in {"logout", "revoke_session"}
    BY DEF revoke_session, On
  <2> QED BY <2>1 DEF Inv, TypeOK
<1>2. who[r].user # None /\ call[r].cred \in Sessions
  <2>1. Entitled(call[r], who[r]) /\ (who[r].user # None => call[r].cred \in Sessions)
    BY <1>1, RouteFacts DEF Inv, Principals
  <2> QED BY <1>1, <2>1, RouteFacts DEF Entitled
<1>3. s \in Sessions \cup {None}
  BY <1>1, <1>2, CallArgs
<1>4. \/ End(r) /\ UNCHANGED <<db, expired, ops>>
      \/ s # None /\ Token[s].org = None /\ Plan(r, <<RevokeSession(s)>>)
      \/ /\ s # None /\ Token[s].org # None
         /\ Plan(r, <<RevokeSession(s), Log(r, Token[s].org, "session.revoked", s)>>)
  BY DEF revoke_session, Raise
<1> HIDE DEF s
<1>5. CASE End(r) /\ UNCHANGED <<db, expired, ops>>
  BY <1>5, EndInv
<1>6. ASSUME s # None PROVE May(r, RevokeSession(s)) /\ RevokeSession(s).row = Session(s)
  BY <1>3, <1>6, UpdateMay DEF RevokeSession
<1>7. ASSUME NEW t \in Sessions, Token[t].org = None, NEW y, Plan(r, <<y>>), May(r, y),
             y.row = Session(t)
      PROVE  Inv'
  <2>1. \A row, v : Wants(r, row, v)' => row = Session(t)
    BY <1>7, OneWanted
  <2>2. \A x \in Sessions : \A v : Wants(r, Session(x), v)' => x = t
    BY <2>1, OneKey
  <2>3. AllCarried(r)' /\ AllAllowed(r)'
    BY <2>1, Tables DEF AllCarried, AllAllowed
  <2>4. AllLogged(r)'
    BY <1>7, <2>1, <2>2, Tables DEF AllLogged
  <2> QED BY <1>7, <2>3, <2>4, OneInv
<1>8. CASE s # None /\ Token[s].org = None /\ Plan(r, <<RevokeSession(s)>>)
  BY <1>3, <1>6, <1>7, <1>8
<1> SUFFICES ASSUME s # None, Token[s].org # None,
                    Plan(r, <<RevokeSession(s), Log(r, Token[s].org, "session.revoked", s)>>)
             PROVE  Inv'
  BY <1>4, <1>5, <1>8
<1>9. s \in Sessions /\ Token[s].org \in Orgs
  BY <1>3, IamAssumption DEF IamAssumption
<1>10. LET w == Log(r, Token[s].org, "session.revoked", s)
      IN /\ May(r, w) /\ w.row = Audit(r) /\ w.value.org = Token[s].org
         /\ w.value.target = s /\ w.value.action = "session.revoked"
         /\ w.value.actor = who[r].user
  BY <1>9, LogMay
<1> SUFFICES ASSUME NEW t \in Sessions, NEW y, NEW z, Plan(r, <<y, z>>), May(r, y),
                    y.row = Session(t), May(r, z), z.row = Audit(r),
                    z.value.org = Token[t].org, z.value.target = t,
                    z.value.action = "session.revoked", z.value.actor # None
             PROVE  Inv'
  BY <1>2, <1>6, <1>9, <1>10
<1>11. \A row, v : Wants(r, row, v)' <=> \/ row = y.row /\ v = y.value
                                         \/ row = z.row /\ v = z.value
  BY TwoWanted
<1>12. AllCarried(r)'
  <2>1. \A e : Wants(r, Audit(r), e)' => e = z.value
    BY <1>11, Tables
  <2>2. Carried(r, z.value)'
    BY <1>11 DEF Carried
  <2> QED BY <2>1, <2>2 DEF AllCarried, Carried
<1>13. AllLogged(r)'
  <2>1. WithEntry(r, Token[t].org, {"session.revoked"}, t)'
    BY <1>11 DEF WithEntry
  <2>2. \A x \in Sessions : \A v : Wants(r, Session(x), v)' => x = t
    BY <1>11, Tables, OneKey
  <2>3. \A v : /\ \A u \in Users : ~Wants(r, User(u), v)'
               /\ \A k \in Keys : ~Wants(r, Key(k), v)'
               /\ \A l \in Orgs, x \in Slugs : ~Wants(r, Role(l, x), v)'
               /\ \A l \in Orgs : ~Wants(r, Policy(l), v)'
               /\ \A l \in Orgs, u \in Users : ~Wants(r, Member(l, u), v)'
    BY <1>11, Tables
  <2> QED BY <2>1, <2>2, <2>3 DEF AllLogged
<1>14. AllAllowed(r)'
  <2>1. /\ \A e : Wants(r, Audit(r), e)' => e = z.value
        /\ \A l \in Orgs, u \in Users : \A v : ~Wants(r, Member(l, u), v)'
    BY <1>11, Tables
  <2>2. held' = held
    BY DEF Plan
  <2>3. Allowed(r, z.value)
    BY DEF Allowed
  <2> QED BY <2>1, <2>2, <2>3, EntryOnly
<1>15. y.row # z.row
  BY Tables
<1> QED BY <1>12, <1>13, <1>14, <1>15, TwoInv

LEMMA HandleInv ==
  ASSUME Inv, NEW r \in Requests, Handle(r)
  PROVE  Inv'
<1>1. ASSUME NEW role \in Granted, invite_user(r, role) PROVE Inv'
  BY <1>1, InviteHandler
<1>2. ASSUME NEW role \in Granted, NEW valid \in BOOLEAN, register_user(r, role, valid) PROVE Inv'
  BY <1>2, RegisterHandler
<1>3. ASSUME NEW k \in Keys, NEW perms \in {{}, {"manage_users"}}, create_api_key(r, k, perms)
      PROVE  Inv'
  BY <1>3, KeyHandlers
<1>4. ASSUME revoke_api_key(r) PROVE Inv'
  <2>1. call[r].arg \in Keys
    <3>1. pc[r] = "look" /\ call[r].route = "revoke_api_key"
      BY <1>4 DEF revoke_api_key, On
    <3>2. call[r] \in Calls
      BY <3>1 DEF Inv, TypeOK
    <3> QED BY <3>1, <3>2, CallArgs
  <2> QED BY <1>4, <2>1, KeyHandlers
<1>5. ASSUME Read(r) PROVE Inv'
  BY <1>5, NoPlan DEF Read
<1>6. ASSUME get_security_policy(r) PROVE Inv'
  BY <1>6, NoPlan, EndInv DEF get_security_policy, Raise
<1>7. ASSUME NeverCompletes(r) PROVE Inv'
  BY <1>7, EndInv DEF NeverCompletes, Raise
<1> QED BY <1>1, <1>2, <1>3, <1>4, <1>5, <1>6, <1>7, RoleHandler, PolicyHandler, SessionHandlers
        DEF Handle

-----------------------------------------------------------------------------
(* The transaction *)

\* A statement that is executed was wanted before and still is.
LEMMA FlushInv ==
  ASSUME Inv, NEW r \in Requests, Flush(r)
  PROVE  Inv'
<1> DEFINE w == Head(plan[r])
<1>1. /\ pc[r] = "flush" /\ plan[r] # <<>> /\ UNCHANGED <<db, expired, ops>>
      /\ \A q \in Requests \ {r} : w.row \notin DOMAIN tx[q]
  BY DEF Flush
<1>2. CASE End(r)
  BY <1>1, <1>2, EndInv
<1> SUFFICES ASSUME ~(w.new /\ db[w.row] # None),
                    tx' = [tx EXCEPT ![r] = Overlay([row \in {w.row} |-> w.value], tx[r])],
                    plan' = [plan EXCEPT ![r] = Tail(plan[r])],
                    UNCHANGED <<pc, call, who, dead, held>>
             PROVE  Inv'
  BY <1>2 DEF Flush
<1> USE DEF Inv
<1>3. plan[r] \in Seq(Statements)
  BY DEF Writes, Consistent, Ordered
<1>4. /\ w \in Statements /\ w = plan[r][1] /\ 1 \in DOMAIN plan[r]
      /\ plan'[r] = Tail(plan[r]) /\ plan'[r] \in Seq(Statements)
      /\ \A i \in DOMAIN plan'[r] : /\ i + 1 \in DOMAIN plan[r] /\ i + 1 # 1
                                    /\ plan'[r][i] = plan[r][i + 1]
      /\ \A i, j \in DOMAIN plan'[r] : i + 1 = j + 1 => i = j
      /\ \A i \in DOMAIN plan[r] :
           i = 1 \/ (i - 1 \in DOMAIN plan'[r] /\ plan'[r][i - 1] = plan[r][i])
  <2>1. plan'[r] = Tail(plan[r])
    BY DEF TypeOK
  <2>2. ASSUME NEW p, NEW s, p \in Seq(Statements), p # <<>>, s = Tail(p)
        PROVE  /\ Head(p) \in Statements /\ Head(p) = p[1] /\ 1 \in DOMAIN p
               /\ s \in Seq(Statements)
               /\ \A i \in DOMAIN s : i + 1 \in DOMAIN p /\ i + 1 # 1 /\ s[i] = p[i + 1]
               /\ \A i, j \in DOMAIN s : i + 1 = j + 1 => i = j
               /\ \A i \in DOMAIN p : i = 1 \/ (i - 1 \in DOMAIN s /\ s[i - 1] = p[i])
    BY <2>2, TailFacts
  <2> QED BY ONLY <1>1, <1>3, <2>1, <2>2
<1> HIDE DEF w
<1>5. w.row \in Rows /\ w.row \notin DOMAIN tx[r]
  BY <1>4 DEF Statements, Writes, Consistent, Ordered
<1>6. /\ DOMAIN tx'[r] = DOMAIN tx[r] \cup {w.row} /\ tx'[r][w.row] = w.value
      /\ \A row \in DOMAIN tx[r] : tx'[r][row] = tx[r][row]
  <2>1. tx'[r] = Overlay([row \in {w.row} |-> w.value], tx[r])
    BY DEF TypeOK
  <2> QED BY <1>5, <2>1 DEF Overlay
<1>7. \A q \in Requests \ {r} : Kept(q)
  BY <1>1 DEF Kept, TypeOK
<1>8. TypeOK'
  BY <1>1, <1>5, <1>6 DEF TypeOK
<1>9. \A row, v : Wants(r, row, v)' <=> Wants(r, row, v)
  <2> SUFFICES ASSUME NEW row, NEW v PROVE Wants(r, row, v)' <=> Wants(r, row, v)
    OBVIOUS
  <2>1. (\E i \in DOMAIN plan[r] : plan[r][i].row = row /\ plan[r][i].value = v)
          <=> \/ w.row = row /\ w.value = v
              \/ \E i \in DOMAIN plan'[r] : plan'[r][i].row = row /\ plan'[r][i].value = v
    <3>1. ASSUME NEW i \in DOMAIN plan[r], plan[r][i].row = row, plan[r][i].value = v
          PROVE  \/ w.row = row /\ w.value = v
                 \/ \E j \in DOMAIN plan'[r] : plan'[r][j].row = row /\ plan'[r][j].value = v
      <4>1. i = 1 \/ (i - 1 \in DOMAIN plan'[r] /\ plan'[r][i - 1] = plan[r][i])
        BY <1>4
      <4> QED BY <1>4, <3>1, <4>1
    <3>2. ASSUME NEW i \in DOMAIN plan'[r], plan'[r][i].row = row, plan'[r][i].value = v
          PROVE  \E j \in DOMAIN plan[r] : plan[r][j].row = row /\ plan[r][j].value = v
      <4>1. i + 1 \in DOMAIN plan[r] /\ plan'[r][i] = plan[r][i + 1]
        BY <1>4
      <4> QED BY <3>2, <4>1
    <3>3. w.row = row /\ w.value = v =>
            \E j \in DOMAIN plan[r] : plan[r][j].row = row /\ plan[r][j].value = v
      BY <1>4
    <3> QED BY <3>1, <3>2, <3>3
  <2>2. (row \in DOMAIN tx'[r] /\ tx'[r][row] = v)
          <=> (row \in DOMAIN tx[r] /\ tx[r][row] = v) \/ (w.row = row /\ w.value = v)
    BY <1>5, <1>6
  <2> QED BY <2>1, <2>2 DEF Wants
<1>10. Writes'
  <2>1. \A q \in Requests \ {r} : Consistent(q)'
    BY <1>1, <1>7, SameDb, KeptConsistent DEF Writes
  <2>2. Exclusive'
    BY <1>1, <1>6, <1>7 DEF Writes, Exclusive, Kept
  <2>3. Ordered(r)'
    <3>1. ASSUME NEW i \in DOMAIN plan'[r]
          PROVE  /\ plan'[r][i].row \notin DOMAIN tx'[r]
                 /\ \A j \in DOMAIN plan'[r] : plan'[r][i].row = plan'[r][j].row => i = j
                 /\ ~plan'[r][i].new => Changes(plan'[r][i].row, plan'[r][i].value)
      BY <1>4, <1>6 DEF Writes, Consistent, Ordered
    <3>2. ASSUME NEW row \in DOMAIN tx'[r] PROVE db'[row] = None \/ Changes(row, tx'[r][row])
      <4>1. CASE row = w.row
        <5>1. ~w.new => Changes(w.row, w.value)
          BY <1>4 DEF Writes, Consistent, Ordered
        <5>2. w.new \in BOOLEAN
          BY <1>4 DEF Statements
        <5> QED BY <1>1, <1>6, <4>1, <5>1, <5>2
      <4>2. CASE row # w.row
        BY <1>1, <1>6, <4>2 DEF Writes, Consistent, Ordered
      <4> QED BY <4>1, <4>2
    <3> QED BY <1>4, <3>1, <3>2 DEF Ordered, Changes
  <2>4. AllFit(r)'
    <3>1. \A row, v : Fits(r, row, v) => Fits(r, row, v)'
      BY <1>1 DEF Fits
    <3> QED BY <1>9, <3>1 DEF AllFit, Writes, Consistent
  <2>5. AllCarried(r)'
    <3>1. \A e : Carried(r, e) => Carried(r, e)'
      BY <1>9 DEF Carried
    <3> QED BY <1>9, <3>1 DEF AllCarried, Writes, Consistent
  <2>6. AllLogged(r)'
    <3>1. db' = db /\ AllLogged(r)
      BY <1>1 DEF Writes, Consistent
    <3> QED BY <1>9, <3>1, LoggedStays
  <2> QED BY <2>1, <2>2, <2>3, <2>4, <2>5, <2>6 DEF Writes, Consistent
<1>11. Trails'
  BY <1>1, SameTrails
<1>12. Refused'
  BY <1>1 DEF Refused, Void
<1>13. Principals'
  <2>1. \A q \in Requests : Granting(q)' = Granting(q)
    BY <1>1 DEF Granting, Permitted
  <2> QED BY <2>1 DEF Principals, Entitled
<1>14. Actors'
  BY <1>1, <1>7, <1>9, KeptWants, ActorsStay
<1> QED BY <1>8, <1>10, <1>11, <1>12, <1>13, <1>14

\* What a commit leaves of the database.
LEMMA Committed ==
  ASSUME Inv, NEW r \in Requests, Commit(r)
  PROVE  /\ DOMAIN db' = Rows /\ plan[r] = <<>>
         /\ \A row \in Rows : db'[row] = IF row \in DOMAIN tx[r] THEN tx[r][row] ELSE db[row]
         /\ \A row \in DOMAIN tx[r] : row \in Rows /\ Fits(r, row, tx[r][row])
         /\ \A row \in DOMAIN tx[r] : db[row] # None => Changes(row, tx[r][row])
<1> USE DEF Inv
<1>1. plan[r] = <<>> /\ db' = Overlay(tx[r], db)
  BY DEF Commit
<1>2. DOMAIN tx[r] \subseteq Rows /\ DOMAIN db = Rows
  BY DEF TypeOK
<1>3. \A row \in DOMAIN tx[r] : Fits(r, row, tx[r][row])
  <2>1. \A row \in DOMAIN tx[r] : Wants(r, row, tx[r][row])
    BY DEF Wants
  <2> QED BY <1>2, <2>1 DEF Writes, Consistent, AllFit
<1>4. \A row \in DOMAIN tx[r] : db[row] # None => Changes(row, tx[r][row])
  BY DEF Writes, Consistent, Ordered
<1>5. DOMAIN db' = Rows
        /\ \A row \in Rows : db'[row] = IF row \in DOMAIN tx[r] THEN tx[r][row] ELSE db[row]
  BY <1>1, <1>2 DEF Overlay
<1> QED BY <1>1, <1>2, <1>3, <1>4, <1>5

LEMMA CommitGrows ==
  ASSUME Inv, NEW r \in Requests, Commit(r)
  PROVE  Grows
<1> USE DEF Inv
<1>1. DOMAIN db' = Rows
  BY Committed
<1>2. \A row \in Rows : db[row] # None => db'[row] # None
  BY Committed DEF Fits
<1>3. ASSUME NEW k \in Keys
      PROVE  /\ db'[Key(k)] \in KeyRows \cup {None}
             /\ db[Key(k)] # None =>
                  /\ db'[Key(k)].org = db[Key(k)].org /\ db'[Key(k)].by = db[Key(k)].by
                  /\ db[Key(k)].status = "revoked" => db'[Key(k)].status = "revoked"
  <2>1. Key(k) \in Rows
    BY AreRows
  <2>2. CASE Key(k) \notin DOMAIN tx[r]
    <3>1. db'[Key(k)] = db[Key(k)]
      BY <2>1, <2>2, Committed
    <3> QED BY <3>1 DEF TypeOK
  <2>3. CASE Key(k) \in DOMAIN tx[r]
    <3> DEFINE v == tx[r][Key(k)]
    <3>1. db'[Key(k)] = v /\ Fits(r, Key(k), v) /\ (db[Key(k)] # None => Changes(Key(k), v))
      BY <2>1, <2>3, Committed
    <3> HIDE DEF v
    <3>2. db[Key(k)] # None => v.status = "revoked"
      BY <3>1, Tables DEF Changes
    <3>3. v \in KeyRows
      BY <3>1 DEF Fits
    <3>4. v.status = "revoked" => db[Key(k)].org = v.org /\ db[Key(k)].by = v.by
      BY <3>1 DEF Fits
    <3> QED BY <3>1, <3>2, <3>3, <3>4
  <2> QED BY <2>2, <2>3
<1>4. \A s \in Sessions : /\ db[Session(s)] # "active" => db'[Session(s)] # "active"
                          /\ db[Session(s)] = "revoked" => db'[Session(s)] = "revoked"
  BY Committed, AreRows DEF Fits
<1>5. \A o \in Orgs : db[Policy(o)] = "updated" => db'[Policy(o)] = "updated"
  BY Committed, AreRows DEF Fits
<1> QED BY <1>1, <1>2, <1>3, <1>4, <1>5 DEF Grows

\* The trail after a commit: the entries of others, and the request's own.
LEMMA CommitEntries ==
  ASSUME Inv, NEW r \in Requests, Commit(r)
  PROVE  /\ \A q \in Requests \ {r} : db'[Audit(q)] = db[Audit(q)]
         /\ Audit(r) \in DOMAIN tx[r] =>
              db[Audit(r)] = None /\ db'[Audit(r)] = tx[r][Audit(r)] /\ db'[Audit(r)] # None
         /\ Audit(r) \notin DOMAIN tx[r] => db'[Audit(r)] = db[Audit(r)]
<1>1. \A q \in Requests : Audit(q) \in DOMAIN tx[r] => q = r
  BY Committed DEF Fits
<1>2. \A q \in Requests : \A v : ~Changes(Audit(q), v)
  BY Tables DEF Changes
<1>3. Audit(r) \in DOMAIN tx[r] =>
        db[Audit(r)] = None /\ db'[Audit(r)] = tx[r][Audit(r)] /\ db'[Audit(r)] # None
  BY <1>2, Committed, AreRows DEF Fits
<1> QED BY <1>1, <1>3, Committed, AreRows

\* An entry that is there stays, and what it is about.
LEMMA EntriesStay ==
  ASSUME Inv, NEW r \in Requests, Commit(r)
  PROVE  \A q \in Requests : db[Audit(q)] # None => db'[Audit(q)] = db[Audit(q)]
BY CommitEntries

LEMMA ExplainedStays ==
  ASSUME Inv, Grows, NEW e \in Entries, Explained(e)
  PROVE  Explained(e)'
<1>1. e.org \in Orgs
  BY DEF Entries
<1>2. e.action \in {"user.invited", "user.created"} =>
        e.target \in Users /\ db'[User(e.target)] # None /\ db'[Member(e.org, e.target)] # None
  BY <1>1, AreRows DEF Grows, Explained
<1>3. e.action = "api_key.created" =>
        /\ e.target \in Keys /\ Key(e.target) \notin DOMAIN Rows0 /\ db'[Key(e.target)] # None
        /\ db'[Key(e.target)].org = e.org /\ db'[Key(e.target)].by = e.actor
  BY AreRows DEF Grows, Explained
<1>4. e.action = "api_key.revoked" =>
        /\ e.target \in Keys /\ db'[Key(e.target)] # None
        /\ db'[Key(e.target)].org = e.org /\ db'[Key(e.target)].status = "revoked"
  BY AreRows DEF Grows, Explained
<1>5. e.action = "role.created" => e.target \in Slugs /\ db'[Role(e.org, e.target)] # None
  BY <1>1, AreRows DEF Grows, Explained
<1>6. e.action = "security_policy.updated" => db'[Policy(e.org)] = "updated"
  BY <1>1 DEF Grows, Explained
<1>7. e.action = "session.revoked" =>
        e.target \in Sessions /\ e.org = Token[e.target].org /\ db'[Session(e.target)] = "revoked"
  BY DEF Grows, Explained
<1> QED BY <1>2, <1>3, <1>4, <1>5, <1>6, <1>7 DEF Explained

\* The entry that a commit adds is about what it commits.
LEMMA NewExplained ==
  ASSUME Inv, NEW r \in Requests, Commit(r), Audit(r) \in DOMAIN tx[r]
  PROVE  db'[Audit(r)] \in Entries /\ Explained(db[Audit(r)])'
<1> DEFINE e == tx[r][Audit(r)]
<1> USE DEF Inv
<1>1. db'[Audit(r)] = e /\ e \in Entries
  BY CommitEntries, Committed, AreRows DEF Fits
<1>2. Carried(r, e)
  BY DEF Writes, Consistent, AllCarried, Wants
<1> HIDE DEF e
<1>3. e.org \in Orgs
  BY <1>1 DEF Entries
<1>4. \A row, v : Wants(r, row, v) <=> row \in DOMAIN tx[r] /\ tx[r][row] = v
  BY Committed DEF Wants
<1>5. \A row \in Rows : \A v : Wants(r, row, v) => db'[row] = v /\ Fits(r, row, v)
  BY <1>4, Committed
<1>6. \A row, v : Wants(r, row, v) /\ db[row] # None => Changes(row, v)
  BY <1>4, Committed
<1>7. e.action \in {"user.invited", "user.created"} =>
        e.target \in Users /\ db'[User(e.target)] # None /\ db'[Member(e.org, e.target)] # None
  BY <1>2, <1>3, <1>5, AreRows DEF Carried, Fits
<1>8. ASSUME e.action = "api_key.created"
      PROVE  /\ e.target \in Keys /\ Key(e.target) \notin DOMAIN Rows0 /\ db'[Key(e.target)] # None
             /\ db'[Key(e.target)].org = e.org /\ db'[Key(e.target)].by = e.actor
  <2>1. e.target \in Keys
    BY <1>2, <1>8 DEF Carried
  <2>2. PICK v : /\ Wants(r, Key(e.target), v) /\ v.status = "active"
                 /\ v.org = e.org /\ v.by = e.actor
    BY <1>2, <1>8 DEF Carried
  <2>3. db'[Key(e.target)] = v /\ v # None
    BY <1>5, <2>1, <2>2, AreRows DEF Fits
  <2>4. ~Changes(Key(e.target), v)
    BY <2>1, <2>2, Tables DEF Changes
  <2>5. db[Key(e.target)] = None
    BY <1>6, <2>2, <2>4
  <2>6. Key(e.target) \notin DOMAIN Rows0
    BY <2>1, <2>5, AreRows DEF Trails, AllRecorded
  <2> QED BY <2>1, <2>2, <2>3, <2>6
<1>9. ASSUME e.action = "api_key.revoked"
      PROVE  /\ e.target \in Keys /\ db'[Key(e.target)] # None
             /\ db'[Key(e.target)].org = e.org /\ db'[Key(e.target)].status = "revoked"
  <2>1. e.target \in Keys
    BY <1>2, <1>9 DEF Carried
  <2>2. PICK v : Wants(r, Key(e.target), v) /\ v.status = "revoked" /\ v.org = e.org
    BY <1>2, <1>9 DEF Carried
  <2>3. db'[Key(e.target)] = v /\ v # None
    BY <1>5, <2>1, <2>2, AreRows DEF Fits
  <2> QED BY <2>1, <2>2, <2>3
<1>10. e.action = "role.created" => e.target \in Slugs /\ db'[Role(e.org, e.target)] # None
  BY <1>2, <1>3, <1>5, AreRows DEF Carried, Fits
<1>11. e.action = "security_policy.updated" => db'[Policy(e.org)] = "updated"
  BY <1>2, <1>3, <1>5, AreRows DEF Carried, Fits
<1>12. e.action = "session.revoked" =>
        e.target \in Sessions /\ e.org = Token[e.target].org /\ db'[Session(e.target)] = "revoked"
  BY <1>2, <1>5, AreRows DEF Carried, Fits
<1> QED BY <1>1, <1>7, <1>8, <1>9, <1>10, <1>11, <1>12 DEF Explained

LEMMA EntryFacts ==
  ASSUME Inv, NEW r \in Requests, Commit(r), NEW o, NEW actions, NEW target
  PROVE  /\ \A q \in Requests : Entry(q, o, actions, target) => Entry(q, o, actions, target)'
         /\ \A q \in Requests \ {r} : Entry(q, o, actions, target)' => Entry(q, o, actions, target)
         /\ WithEntry(r, o, actions, target) => Entry(r, o, actions, target)'
<1>1. \A q \in Requests : Entry(q, o, actions, target) => Entry(q, o, actions, target)'
  BY EntriesStay DEF Entry
<1>2. \A q \in Requests \ {r} : Entry(q, o, actions, target)' => Entry(q, o, actions, target)
  BY CommitEntries DEF Entry
<1>3. WithEntry(r, o, actions, target) => Entry(r, o, actions, target)'
  <2> SUFFICES ASSUME NEW e, Wants(r, Audit(r), e), e.org = o, e.action \in actions, e.target = target
               PROVE  Entry(r, o, actions, target)'
    BY DEF WithEntry
  <2>1. Audit(r) \in DOMAIN tx[r] /\ tx[r][Audit(r)] = e
    BY Committed DEF Wants
  <2> QED BY <2>1, CommitEntries DEF Entry
<1> QED BY <1>1, <1>2, <1>3

LEMMA CommitRecorded ==
  ASSUME Inv, NEW r \in Requests, Commit(r)
  PROVE  AllRecorded'
<1> USE DEF Inv, Trails
<1> DEFINE About == {"user.invited", "user.created"}
<1>1. Grows
  BY CommitGrows
<1>2. \A row \in Rows \cap DOMAIN Rows0 : db'[row] # None
  BY <1>1 DEF AllRecorded, Grows
<1>3. \A row \in DOMAIN tx[r] : Wants(r, row, tx[r][row]) /\ row \in Rows /\ db'[row] = tx[r][row]
  BY Committed DEF Wants
<1>4. \A row \in Rows \ DOMAIN tx[r] : db'[row] = db[row]
  BY Committed
<1>5. ASSUME NEW u \in Users, db'[User(u)] # None, User(u) \notin DOMAIN Rows0
      PROVE  \E q \in Requests, o \in Orgs : Entry(q, o, About, u)'
  <2>1. CASE User(u) \in DOMAIN tx[r]
    <3>1. \E o \in Orgs : WithEntry(r, o, About, u)
      BY <1>3, <2>1 DEF Writes, Consistent, AllLogged
    <3> QED BY <3>1, EntryFacts
  <2>2. CASE User(u) \notin DOMAIN tx[r]
    <3>1. db[User(u)] # None
      BY <1>4, <1>5, <2>2, AreRows
    <3>2. \E q \in Requests, o \in Orgs : Entry(q, o, About, u)
      BY <1>5, <3>1 DEF AllRecorded
    <3> QED BY <3>2, EntryFacts
  <2> QED BY <2>1, <2>2
<1>6. ASSUME NEW u \in Users, NEW p \in Requests, NEW q \in Requests, NEW o \in Orgs, NEW m \in Orgs,
             Entry(p, o, About, u)', Entry(q, m, About, u)'
      PROVE  p = q
  <2>1. ASSUME NEW x \in Requests \ {r}, NEW l \in Orgs, Entry(x, l, About, u)'
        PROVE  Entry(x, l, About, u) /\ db[User(u)] # None
    <3>1. Entry(x, l, About, u)
      BY <2>1, EntryFacts
    <3> QED BY <3>1 DEF Entry, AllExplained, Explained
  <2>2. ASSUME NEW l \in Orgs, Entry(r, l, About, u)', db[User(u)] # None
        PROVE  Entry(r, l, About, u)
    <3>1. CASE Audit(r) \notin DOMAIN tx[r]
      BY <2>2, <3>1, CommitEntries DEF Entry
    <3>2. CASE Audit(r) \in DOMAIN tx[r]
      <4> DEFINE e == tx[r][Audit(r)]
      <4>1. Wants(r, Audit(r), e) /\ db'[Audit(r)] = e
        BY <1>3, <3>2
      <4>2. e.action \in About /\ e.target = u
        BY <2>2, <4>1 DEF Entry
      <4>3. Carried(r, e)
        BY <4>1 DEF Writes, Consistent, AllCarried
      <4>4. PICK v : Wants(r, User(u), v)
        BY <4>2, <4>3 DEF Carried
      <4>5. User(u) \in DOMAIN tx[r]
        BY <4>4, Committed DEF Wants
      <4>6. Changes(User(u), tx[r][User(u)])
        BY <2>2, <4>5, Committed
      <4> QED BY <4>6, Tables DEF Changes
    <3> QED BY <3>1, <3>2
  <2>3. \A l, n \in Orgs : \A x, y \in Requests : Entry(x, l, About, u) /\ Entry(y, n, About, u) => x = y
    BY DEF AllRecorded
  <2>4. CASE p = r /\ q # r
    BY <1>6, <2>1, <2>2, <2>3, <2>4
  <2>5. CASE p # r /\ q = r
    BY <1>6, <2>1, <2>2, <2>3, <2>5
  <2>6. CASE p # r /\ q # r
    BY <1>6, <2>1, <2>3, <2>6
  <2> QED BY <2>4, <2>5, <2>6
<1>7. ASSUME NEW k \in Keys, db'[Key(k)] # None
      PROVE  /\ Key(k) \notin DOMAIN Rows0 =>
                  \E q \in Requests : Entry(q, db[Key(k)].org, {"api_key.created"}, k)'
             /\ db'[Key(k)].status = "revoked" =>
                  \E q \in Requests : Entry(q, db[Key(k)].org, {"api_key.revoked"}, k)'
  <2> SUFFICES ASSUME NEW o, o = db'[Key(k)].org
               PROVE  /\ Key(k) \notin DOMAIN Rows0 =>
                           \E q \in Requests : Entry(q, o, {"api_key.created"}, k)'
                      /\ db'[Key(k)].status = "revoked" =>
                           \E q \in Requests : Entry(q, o, {"api_key.revoked"}, k)'
    BY DEF Entry
  <2>1. db[Key(k)] # None => o = db[Key(k)].org
    BY <1>1 DEF Grows
  <2>2. CASE Key(k) \notin DOMAIN tx[r]
    <3>1. db'[Key(k)] = db[Key(k)]
      BY <1>4, <2>2, AreRows
    <3>2. /\ Key(k) \notin DOMAIN Rows0 => \E q \in Requests : Entry(q, o, {"api_key.created"}, k)
          /\ db[Key(k)].status = "revoked" =>
               \E q \in Requests : Entry(q, o, {"api_key.revoked"}, k)
      BY <1>7, <2>1, <3>1 DEF AllRecorded
    <3> QED BY <3>1, <3>2, EntryFacts
  <2>3. CASE Key(k) \in DOMAIN tx[r]
    <3> DEFINE v == tx[r][Key(k)]
    <3>1. Wants(r, Key(k), v) /\ db'[Key(k)] = v
      BY <1>3, <2>3
    <3>2. WithEntry(r, v.org, {IF v.status = "revoked" THEN "api_key.revoked"
                               ELSE "api_key.created"}, k)
      BY <3>1 DEF Writes, Consistent, AllLogged
    <3>3. CASE v.status = "revoked"
      <4>1. Entry(r, o, {"api_key.revoked"}, k)'
        BY <3>1, <3>2, <3>3, EntryFacts
      <4>2. db[Key(k)] # None
        BY <2>3, <3>3, Committed DEF Fits
      <4>3. Key(k) \notin DOMAIN Rows0 => \E q \in Requests : Entry(q, o, {"api_key.created"}, k)
        BY <2>1, <4>2 DEF AllRecorded
      <4> QED BY <4>1, <4>3, EntryFacts
    <3>4. CASE v.status # "revoked"
      <4>1. Entry(r, o, {"api_key.created"}, k)'
        BY <3>1, <3>2, <3>4, EntryFacts
      <4> QED BY <3>1, <3>4, <4>1
    <3> QED BY <3>3, <3>4
  <2> QED BY <2>2, <2>3
<1>8. ASSUME NEW s \in Sessions, db'[Session(s)] = "revoked", Token[s].org # None
      PROVE  \E q \in Requests : Entry(q, Token[s].org, {"session.revoked"}, s)'
  <2>1. CASE Session(s) \in DOMAIN tx[r]
    <3>1. WithEntry(r, Token[s].org, {"session.revoked"}, s)
      BY <1>3, <1>8, <2>1 DEF Writes, Consistent, AllLogged
    <3> QED BY <3>1, EntryFacts
  <2>2. CASE Session(s) \notin DOMAIN tx[r]
    <3>1. \E q \in Requests : Entry(q, Token[s].org, {"session.revoked"}, s)
      BY <1>4, <1>8, <2>2, AreRows DEF AllRecorded
    <3> QED BY <3>1, EntryFacts
  <2> QED BY <2>1, <2>2
<1>9. ASSUME NEW o \in Orgs, NEW s \in Slugs, db'[Role(o, s)] # None
      PROVE  \E q \in Requests : Entry(q, o, {"role.created"}, s)'
  <2>1. CASE Role(o, s) \in DOMAIN tx[r]
    <3>1. WithEntry(r, o, {"role.created"}, s)
      BY <1>3, <2>1 DEF Writes, Consistent, AllLogged
    <3> QED BY <3>1, EntryFacts
  <2>2. CASE Role(o, s) \notin DOMAIN tx[r]
    <3>1. \E q \in Requests : Entry(q, o, {"role.created"}, s)
      BY <1>4, <1>9, <2>2, AreRows DEF AllRecorded
    <3> QED BY <3>1, EntryFacts
  <2> QED BY <2>1, <2>2
<1>10. ASSUME NEW o \in Orgs, db'[Policy(o)] = "updated"
      PROVE  \E q \in Requests : Entry(q, o, {"security_policy.updated"}, None)'
  <2>1. CASE Policy(o) \in DOMAIN tx[r]
    <3>1. WithEntry(r, o, {"security_policy.updated"}, None)
      BY <1>3, <2>1 DEF Writes, Consistent, AllLogged
    <3> QED BY <3>1, EntryFacts
  <2>2. CASE Policy(o) \notin DOMAIN tx[r]
    <3>1. \E q \in Requests : Entry(q, o, {"security_policy.updated"}, None)
      BY <1>4, <1>10, <2>2, AreRows DEF AllRecorded
    <3> QED BY <3>1, EntryFacts
  <2> QED BY <2>1, <2>2
<1>11. ASSUME NEW o \in Orgs, NEW u \in Users, db'[Member(o, u)] # None
      PROVE  db'[User(u)] # None
  <2>1. User(u) \in Rows /\ Member(o, u) \in Rows
    BY AreRows
  <2>2. CASE Member(o, u) \in DOMAIN tx[r]
    <3>1. db[User(u)] # None \/ \E x : Wants(r, User(u), x)
      BY <1>3, <2>2 DEF Writes, Consistent, AllLogged
    <3>2. CASE db[User(u)] # None
      BY <1>1, <2>1, <3>2 DEF Grows
    <3>3. CASE \E x : Wants(r, User(u), x)
      <4>1. User(u) \in DOMAIN tx[r]
        BY <3>3, Committed DEF Wants
      <4> QED BY <1>3, <4>1, Committed DEF Fits
    <3> QED BY <3>1, <3>2, <3>3
  <2>3. CASE Member(o, u) \notin DOMAIN tx[r]
    <3>1. db[User(u)] # None
      BY <1>4, <1>11, <2>1, <2>3 DEF AllRecorded
    <3> QED BY <1>1, <2>1, <3>1 DEF Grows
  <2> QED BY <2>2, <2>3
<1> QED BY <1>2, <1>5, <1>6, <1>7, <1>8, <1>9, <1>10, <1>11 DEF AllRecorded

\* What a commit adds to the trail and to the members its actor might do.
LEMMA CommitActors ==
  ASSUME Inv, NEW r \in Requests, Commit(r), \A q \in Requests \ {r} : Kept(q)
  PROVE  Actors'
<1> USE DEF Inv
<1>1. \A q \in Requests : held[q] \subseteq held'[q]
  BY Observed DEF Commit, End
<1>2. Gone(r)
  BY DEF Commit, End, Gone, TypeOK
<1>3. \A q \in Requests : AllAllowed(q)'
  BY <1>1, <1>2, KeptWants, GoneWants, AllAllowedStays DEF Actors
<1>4. \A row \in DOMAIN tx[r] : Wants(r, row, tx[r][row])
  BY DEF Wants
<1>5. ASSUME NEW q \in Requests, db'[Audit(q)] # None PROVE Allowed(q, db[Audit(q)])'
  <2>1. \A e : e = db'[Audit(q)] => Allowed(q, e)
    <3>1. CASE q = r /\ Audit(r) \in DOMAIN tx[r]
      BY <1>4, <3>1, CommitEntries DEF Actors, AllAllowed
    <3>2. CASE ~(q = r /\ Audit(r) \in DOMAIN tx[r])
      BY <1>5, <3>2, CommitEntries DEF Actors, ActorsPermitted
    <3> QED BY <3>1, <3>2
  <2>2. \A e : Allowed(q, e) => Allowed(q, e)'
    BY <1>1, AllowedStays
  <2>3. \A e : e = db'[Audit(q)] => Allowed(q, e)'
    BY <2>1, <2>2
  <2> QED BY <2>3 DEF Allowed
<1>6. \A o, target : \A q \in Requests :
        Entry(q, o, {"user.created"}, target)' => Logged(o, "user.created", target)'
  BY DEF Entry, Logged, Trail
<1>7. ASSUME NEW o \in Orgs, NEW u \in Users,
             db'[Member(o, u)] # None, Member(o, u) \notin DOMAIN Rows0
      PROVE  \/ Logged(o, "user.created", u)'
             \/ \E q \in Requests, actor \in Users : <<o, actor, "manage_users">> \in held'[q]
  <2>1. CASE Member(o, u) \in DOMAIN tx[r]
    <3>1. \/ WithEntry(r, o, {"user.created"}, u)
          \/ \E actor \in Users : <<o, actor, "manage_users">> \in held[r]
      BY <1>4, <2>1 DEF Actors, AllAllowed
    <3>2. WithEntry(r, o, {"user.created"}, u) => Logged(o, "user.created", u)'
      BY <1>6, EntryFacts
    <3> QED BY <1>1, <3>1, <3>2
  <2>2. CASE Member(o, u) \notin DOMAIN tx[r]
    <3>1. db[Member(o, u)] # None
      BY <1>7, <2>2, Committed, AreRows
    <3>2. Logged(o, "user.created", u) => Logged(o, "user.created", u)'
      <4> SUFFICES ASSUME NEW q \in Requests, db[Audit(q)] # None, db[Audit(q)].org = o,
                          db[Audit(q)].action = "user.created", db[Audit(q)].target = u
                   PROVE  Logged(o, "user.created", u)'
        BY DEF Logged, Trail
      <4>1. db'[Audit(q)] = db[Audit(q)]
        BY EntriesStay
      <4> QED BY <4>1 DEF Logged, Trail
    <3> QED BY <1>1, <1>7, <3>1, <3>2 DEF Actors, ActorsPermitted
  <2> QED BY <2>1, <2>2
<1> QED BY <1>3, <1>5, <1>7 DEF Actors, ActorsPermitted

LEMMA CommitInv ==
  ASSUME Inv, NEW r \in Requests, Commit(r)
  PROVE  Inv'
<1>1. End(r) /\ UNCHANGED <<expired, ops>>
  BY DEF Commit
<1>2. Grows
  BY CommitGrows
<1>3. \A q \in Requests \ {r} : Kept(q)
  <2> SUFFICES ASSUME NEW q \in Requests \ {r} PROVE Kept(q)
    OBVIOUS
  <2>1. tx'[q] = tx[q] /\ plan'[q] = plan[q]
    BY <1>1 DEF End, Inv, TypeOK
  <2>2. \A row \in DOMAIN tx[q] : row \in Rows /\ row \notin DOMAIN tx[r]
    BY DEF Inv, TypeOK, Writes, Exclusive
  <2>3. \A row \in DOMAIN tx[q] : db'[row] = db[row]
    BY <2>2, Committed
  <2> QED BY <2>1, <2>3 DEF Kept
<1>4. TypeOK' /\ Writes' /\ Refused' /\ Principals'
  BY <1>1, <1>2, <1>3, EndStep
<1>5. AllExplained'
  <2> SUFFICES ASSUME NEW q \in Requests, db'[Audit(q)] # None
               PROVE  db'[Audit(q)] \in Entries /\ Explained(db[Audit(q)])'
    BY DEF AllExplained
  <2>1. CASE q = r /\ Audit(r) \in DOMAIN tx[r]
    BY <2>1, NewExplained
  <2>2. CASE ~(q = r /\ Audit(r) \in DOMAIN tx[r])
    <3>1. db'[Audit(q)] = db[Audit(q)]
      BY <2>2, CommitEntries
    <3>2. db[Audit(q)] \in Entries /\ Explained(db[Audit(q)])
      BY <3>1 DEF Inv, Trails, AllExplained
    <3>3. \A e \in Entries : Explained(e) => Explained(e)'
      BY <1>2, ExplainedStays
    <3>4. \A e : e = db[Audit(q)] => Explained(e)'
      BY <3>2, <3>3
    <3> QED BY <3>1, <3>2, <3>4 DEF Explained
  <2> QED BY <2>1, <2>2
<1> QED BY <1>3, <1>4, <1>5, CommitRecorded, CommitActors DEF Inv, Trails

-----------------------------------------------------------------------------
(* The operator and the clock *)

LEMMA UpdateRoleInv ==
  ASSUME Inv, NEW o \in Orgs, NEW u \in Users, NEW role \in Assigned, update_role(o, u, role)
  PROVE  Inv'
<1> USE DEF Inv
<1> DEFINE m == Member(o, u)
<1>1. /\ db[m] # None /\ db' = [db EXCEPT ![m] = role] /\ m \in Rows
      /\ UNCHANGED <<call, pc, who, plan, tx, expired, dead>>
  BY AreRows DEF update_role
<1>2. Observe
  BY DEF update_role
<1>3. /\ DOMAIN db' = Rows /\ db'[m] # None
      /\ \A row \in Rows : row[1] # "organization_memberships" => db'[row] = db[row]
      /\ \A row \in Rows : row # m => db'[row] = db[row]
  BY <1>1, Tables, IamAssumption DEF TypeOK, IamAssumption
<1> HIDE DEF m
<1>4. /\ \A x \in Users : db'[User(x)] = db[User(x)]
      /\ \A l \in Orgs, s \in Slugs : db'[Role(l, s)] = db[Role(l, s)]
      /\ \A k \in Keys : db'[Key(k)] = db[Key(k)]
      /\ \A s \in Sessions : db'[Session(s)] = db[Session(s)]
      /\ \A l \in Orgs : db'[Policy(l)] = db[Policy(l)]
      /\ \A q \in Requests : db'[Audit(q)] = db[Audit(q)]
  BY <1>3, AreRows, Tables
<1>5. Grows
  BY <1>3, <1>4 DEF Grows, TypeOK
<1>6. TypeOK'
  <2>1. ops' \in 0..MaxOperator
    <3>1. ops \in 0..MaxOperator /\ ops < MaxOperator /\ ops' = ops + 1
      BY DEF update_role, TypeOK
    <3>2. MaxOperator \in Nat
      BY IamAssumption DEF IamAssumption
    <3> QED BY <3>1, <3>2
  <2> QED BY <1>1, <1>2, <1>3, <1>4, <2>1 DEF TypeOK, Observe
<1>7. Writes'
  <2>1. \A r \in Requests : m \notin DOMAIN tx[r]
    BY <1>1, Tables DEF m, Changes, Writes, Consistent, Ordered
  <2>2. \A r \in Requests : Kept(r)
    BY <1>1, <1>3, <2>1 DEF Kept, TypeOK
  <2> QED BY <1>5, <2>2, StepWrites
<1>8. AllExplained'
  <2> SUFFICES ASSUME NEW q \in Requests, db'[Audit(q)] # None
               PROVE  db'[Audit(q)] \in Entries /\ Explained(db[Audit(q)])'
    BY DEF AllExplained
  <2>1. db[Audit(q)] \in Entries /\ Explained(db[Audit(q)]) /\ db'[Audit(q)] = db[Audit(q)]
    BY <1>4 DEF Trails, AllExplained
  <2>2. \A e \in Entries : Explained(e) => Explained(e)'
    BY <1>5, ExplainedStays
  <2>3. \A e : e = db[Audit(q)] => Explained(e)'
    BY <2>1, <2>2
  <2> QED BY <2>1, <2>3 DEF Explained
<1>9. \A l \in Orgs, x \in Users : db'[Member(l, x)] # None => db[Member(l, x)] # None
  BY <1>1, <1>3, AreRows
<1>10. AllRecorded'
  <2>1. \A q \in Requests : \A l, actions, target :
          Entry(q, l, actions, target)' <=> Entry(q, l, actions, target)
    BY <1>4 DEF Entry
  <2>2. \A row \in Rows \cap DOMAIN Rows0 : db'[row] # None
    BY <1>5 DEF Grows, Trails, AllRecorded
  <2>3. ASSUME NEW k \in Keys, db'[Key(k)] # None
        PROVE  /\ Key(k) \notin DOMAIN Rows0 =>
                    \E q \in Requests : Entry(q, db[Key(k)].org, {"api_key.created"}, k)'
               /\ db'[Key(k)].status = "revoked" =>
                    \E q \in Requests : Entry(q, db[Key(k)].org, {"api_key.revoked"}, k)'
    <3>1. db'[Key(k)] = db[Key(k)]
      BY <1>4
    <3> QED BY <1>4, <2>3, <3>1 DEF Trails, AllRecorded, Entry
  <2>4. \A s \in Sessions : db'[Session(s)] = "revoked" /\ Token[s].org # None =>
          \E q \in Requests : Entry(q, Token[s].org, {"session.revoked"}, s)'
    BY <1>4, <2>1 DEF Trails, AllRecorded
  <2>5. \A l \in Orgs, s \in Slugs : db'[Role(l, s)] # None =>
          \E q \in Requests : Entry(q, l, {"role.created"}, s)'
    BY <1>4, <2>1 DEF Trails, AllRecorded
  <2>6. \A x \in Users : db'[User(x)] # None /\ User(x) \notin DOMAIN Rows0 =>
          \E q \in Requests, l \in Orgs : Entry(q, l, {"user.invited", "user.created"}, x)'
    BY <1>4, <2>1 DEF Trails, AllRecorded
  <2>7. \A x \in Users : \A p, q \in Requests : \A l, n \in Orgs :
          Entry(p, l, {"user.invited", "user.created"}, x)'
            /\ Entry(q, n, {"user.invited", "user.created"}, x)' => p = q
    BY <2>1 DEF Trails, AllRecorded
  <2>8. \A l \in Orgs : db'[Policy(l)] = "updated" =>
          \E q \in Requests : Entry(q, l, {"security_policy.updated"}, None)'
    BY <1>4, <2>1 DEF Trails, AllRecorded
  <2>9. \A l \in Orgs, x \in Users : db'[Member(l, x)] # None => db'[User(x)] # None
    BY <1>4, <1>9 DEF Trails, AllRecorded
  <2> QED BY <2>2, <2>3, <2>4, <2>5, <2>6, <2>7, <2>8, <2>9 DEF AllRecorded
<1>11. Refused'
  <2> SUFFICES ASSUME NEW q \in Requests, dead'[q] PROVE pc'[q] = "auth" /\ Void(call[q].cred)'
    BY DEF Refused
  <2>1. pc[q] = "auth" /\ Void(call[q].cred) /\ pc'[q] = pc[q] /\ call'[q] = call[q]
    BY <1>1 DEF Refused
  <2>2. \A c : Void(c) => Void(c)'
    BY <1>1, <1>5, VoidStays
  <2>3. \A c : c = call[q].cred => Void(c)'
    BY <2>1, <2>2
  <2> QED BY <2>1, <2>3 DEF Void
<1>12. Principals'
  <2>1. \A q \in Requests : Granting(q)' \subseteq held'[q] /\ held[q] \subseteq held'[q]
    BY <1>1, <1>2, Observed
  <2>2. ASSUME NEW q \in Requests, pc'[q] \in {"look", "flush"}, call'[q].route \in Rechecked
        PROVE  /\ who'[q].user # None
               /\ <<call'[q].org, who'[q].user, Needs[call'[q].route]>> \in held'[q]
    <3>1. pc[q] \in {"look", "flush"} /\ call'[q] = call[q] /\ who'[q] = who[q]
      BY <1>1, <2>2 DEF TypeOK
    <3> QED BY <2>1, <2>2, <3>1 DEF Principals
  <2> QED BY <1>1, <2>1, <2>2 DEF Principals, Entitled
<1>13. Actors'
  BY <1>1, <1>2, <1>4, <1>9, Observed, ActorsStay DEF Wants
<1> QED BY <1>6, <1>7, <1>8, <1>10, <1>11, <1>12, <1>13 DEF Trails

LEMMA ExpireInv ==
  ASSUME Inv, NEW c \in Sessions \cup Keys, Expire(c)
  PROVE  Inv'
<1> USE DEF Inv
<1>1. expired' = expired \cup {c} /\ UNCHANGED <<db, pc, call, who, plan, tx, dead, held>>
  BY DEF Expire, reqVars
<1>2. TypeOK'
  <2>1. ops' \in 0..MaxOperator
    <3>1. ops \in 0..MaxOperator /\ ops < MaxOperator /\ ops' = ops + 1
      BY DEF Expire, TypeOK
    <3>2. MaxOperator \in Nat
      BY IamAssumption DEF IamAssumption
    <3> QED BY <3>1, <3>2
  <2> QED BY <1>1, <2>1 DEF TypeOK
<1>3. Writes'
  BY <1>1, SameDb, StepWrites DEF Kept
<1>4. Trails'
  BY <1>1, SameTrails
<1>5. Refused'
  BY <1>1 DEF Refused, Void
<1>6. Principals'
  <2>1. \A q \in Requests : Granting(q)' = Granting(q)
    BY <1>1 DEF Granting, Permitted
  <2> QED BY <1>1, <2>1 DEF Principals, Entitled
<1>7. Actors'
  BY <1>1, ActorsStay DEF Wants
<1> QED BY <1>2, <1>3, <1>4, <1>5, <1>6, <1>7

LEMMA DoneInv == ASSUME Inv, UNCHANGED vars PROVE Inv'
<1> USE DEF Inv, vars
<1>1. TypeOK'
  BY DEF TypeOK
<1>2. Writes'
  BY SameDb, StepWrites DEF Kept
<1>3. Trails'
  BY SameTrails
<1>4. Refused'
  BY DEF Refused, Void
<1>5. Principals'
  <2>1. \A q \in Requests : Granting(q)' = Granting(q)
    BY DEF Granting, Permitted
  <2> QED BY <2>1 DEF Principals, Entitled
<1>6. Actors'
  BY ActorsStay DEF Wants
<1> QED BY <1>1, <1>2, <1>3, <1>4, <1>5, <1>6

-----------------------------------------------------------------------------
LEMMA InitInv == Init => Inv
<1> SUFFICES ASSUME Init PROVE Inv
  OBVIOUS
<1>1. /\ \A row \in Rows : db[row] = IF row \in DOMAIN Rows0 THEN Rows0[row] ELSE None
      /\ DOMAIN db = Rows
  BY DEF Init
<1>2. /\ call = [r \in Requests |-> None] /\ pc = [r \in Requests |-> "idle"]
      /\ who = [r \in Requests |-> Nobody]
      /\ plan = [r \in Requests |-> <<>>] /\ tx = [r \in Requests |-> Empty]
      /\ expired = {} /\ ops = 0
      /\ dead = [r \in Requests |-> FALSE] /\ held = [r \in Requests |-> {}]
  BY DEF Init
<1>3. \A k \in Keys : /\ db[Key(k)] \in KeyRows \cup {None}
                      /\ db[Key(k)] # None => /\ Key(k) \in DOMAIN Rows0
                                              /\ db[Key(k)].status = "active"
  BY <1>1, AreRows, IamAssumption DEF IamAssumption
<1>4. TypeOK
  <2>1. 0 \in 0..MaxOperator
    BY IamAssumption DEF IamAssumption
  <2>2. Nobody.user = None
    BY DEF Nobody
  <2>3. DOMAIN Empty = {}
    BY DEF Empty
  <2> QED BY <1>1, <1>2, <1>3, <2>1, <2>2, <2>3 DEF TypeOK, Places
<1>5. Writes
  <2>1. \A r \in Requests : plan[r] = <<>> /\ tx[r] = Empty /\ DOMAIN tx[r] = {}
    BY <1>2 DEF Empty
  <2>2. \A r \in Requests : \A row, v : ~Wants(r, row, v)
    BY <2>1 DEF Wants
  <2>3. \A r \in Requests : Ordered(r)
    <3>1. <<>> \in Seq(Statements) /\ DOMAIN <<>> = {}
      OBVIOUS
    <3> QED BY <2>1, <3>1 DEF Ordered
  <2>4. \A r \in Requests : AllFit(r) /\ AllCarried(r) /\ AllLogged(r)
    BY <2>2 DEF AllFit, AllCarried, AllLogged
  <2>5. Exclusive
    BY <2>1 DEF Exclusive
  <2> QED BY <2>3, <2>4, <2>5 DEF Writes, Consistent
<1>6. Trails
  <2>1. \A q \in Requests : db[Audit(q)] = None
    BY <1>1, AreRows, IamAssumption DEF IamAssumption
  <2>2. AllExplained
    BY <2>1 DEF AllExplained
  <2>3. \A row \in Rows \cap DOMAIN Rows0 : db[row] # None
    BY <1>1, IamAssumption DEF IamAssumption
  <2>4. \A u \in Users : db[User(u)] # None => User(u) \in DOMAIN Rows0
    BY <1>1, AreRows
  <2>5. \A s \in Sessions : db[Session(s)] = "active"
    BY <1>1, AreRows, IamAssumption DEF IamAssumption
  <2>6. \A o \in Orgs, s \in Slugs : db[Role(o, s)] = None
    BY <1>1, AreRows, IamAssumption DEF IamAssumption
  <2>7. \A o \in Orgs : db[Policy(o)] # "updated"
    BY <1>1, AreRows, IamAssumption DEF IamAssumption
  <2>8. \A o \in Orgs, u \in Users : db[Member(o, u)] # None => db[User(u)] # None
    BY <1>1, <2>3, AreRows, IamAssumption DEF IamAssumption
  <2>9. AllRecorded
    BY <1>3, <2>1, <2>3, <2>4, <2>5, <2>6, <2>7, <2>8 DEF AllRecorded, Entry
  <2> QED BY <2>2, <2>9 DEF Trails
<1>7. Refused /\ Principals
  <2>1. \A r \in Requests : Granting(r) = {}
    BY <1>2 DEF Granting
  <2> QED BY <1>2, <2>1 DEF Refused, Principals
<1>8. Actors
  <2>1. \A r \in Requests : \A row, v : ~Wants(r, row, v)
    BY <1>2 DEF Wants, Empty
  <2>2. \A q \in Requests : db[Audit(q)] = None
    BY <1>1, AreRows, IamAssumption DEF IamAssumption
  <2>3. \A o \in Orgs, u \in Users : db[Member(o, u)] # None => Member(o, u) \in DOMAIN Rows0
    BY <1>1, AreRows
  <2> QED BY <2>1, <2>2, <2>3 DEF Actors, ActorsPermitted, AllAllowed
<1> QED BY <1>4, <1>5, <1>6, <1>7, <1>8 DEF Inv

LEMMA NextInv == Inv /\ [Next]_vars => Inv'
<1> SUFFICES ASSUME Inv, [Next]_vars PROVE Inv'
  OBVIOUS
<1>1. ASSUME NEW r \in Requests, NEW c \in Calls, Begin(r, c) PROVE Inv'
  BY <1>1, BeginInv
<1>2. ASSUME NEW r \in Requests, Step(r) PROVE Inv'
  BY <1>2, AuthenticationInv, HandleInv, FlushInv, CommitInv DEF Step
<1>3. ASSUME NEW r \in Requests, Rollback(r) PROVE Inv'
  BY <1>3, EndInv DEF Rollback
<1>4. ASSUME NEW o \in Orgs, NEW u \in Users, NEW role \in Assigned, update_role(o, u, role)
      PROVE  Inv'
  BY <1>4, UpdateRoleInv
<1>5. ASSUME NEW c \in Sessions \cup Keys, Expire(c) PROVE Inv'
  BY <1>5, ExpireInv
<1>6. CASE Done \/ UNCHANGED vars
  BY <1>6, DoneInv DEF Done
<1> QED BY <1>1, <1>2, <1>3, <1>4, <1>5, <1>6 DEF Next

\* The inductive invariant holds in every reachable state of the IAM API.
THEOREM Invariance == Spec => []Inv
<1> QED BY InitInv, NextInv, PTL DEF Spec

-----------------------------------------------------------------------------
(* The properties that the run checks *)

\* A request that begins with a revoked or expired session or key never gets
\* past authentication (RevokedStaysOut).
THEOREM VoidCredentials == Spec => []RevokedStaysOut
<1>1. Inv => RevokedStaysOut
  BY DEF Inv, Refused, RevokedStaysOut
<1> QED BY <1>1, Invariance, PTL

\* What is committed was allowed to its actor, by his role in the organization
\* it concerns and at some moment of the request, register_user and
\* revoke_session excepted as the property says (ActorsPermitted).
THEOREM RolesCount == Spec => []ActorsPermitted
<1>1. Inv => ActorsPermitted
  BY DEF Inv, Actors
<1> QED BY <1>1, Invariance, PTL

\* The audit trail has an entry exactly when the user, key, role or policy it
\* names is new, or the key or the session of an organization is revoked
\* (AuditExact).
THEOREM AuditTrail == Spec => []AuditExact
<1>1. ASSUME Inv PROVE AuditExact
  <2> USE <1>1
  <2>1. \A e \in Trail : \E q \in Requests : db[Audit(q)] # None /\ e = db[Audit(q)]
    BY DEF Trail
  <2>2. \A e \in Trail : e \in Entries /\ Explained(e)
    BY <2>1 DEF Inv, Trails, AllExplained
  <2>3. ASSUME NEW o, NEW action, NEW target
        PROVE  Logged(o, action, target) <=> \E q \in Requests : Entry(q, o, {action}, target)
    BY DEF Logged, Entry, Trail
  <2>4. \A o, action, target : Logged(o, action, target) \in BOOLEAN
    BY DEF Logged
  <2>5. ASSUME NEW e \in Trail
        PROVE  CASE e.action \in {"user.invited", "user.created"} ->
                      db[User(e.target)] # None /\ db[Member(e.org, e.target)] # None
                 [] e.action = "api_key.created" ->
                      db[Key(e.target)] # None /\ db[Key(e.target)].org = e.org
                        /\ db[Key(e.target)].by = e.actor
                 [] e.action = "api_key.revoked" -> db[Key(e.target)].status = "revoked"
                 [] e.action = "role.created" -> db[Role(e.org, e.target)] # None
                 [] e.action = "security_policy.updated" -> db[Policy(e.org)] = "updated"
                 [] e.action = "session.revoked" ->
                      db[Session(e.target)] = "revoked" /\ Token[e.target].org = e.org
    <3>1. Explained(e)
      BY <2>2
    <3>2. e.action \in {"user.invited", "user.created", "api_key.created", "api_key.revoked",
                        "role.created", "security_policy.updated", "session.revoked"}
      BY <2>2 DEF Entries
    <3>3. CASE e.action \in {"user.invited", "user.created"}
      BY <3>1, <3>3 DEF Explained
    <3>4. CASE e.action = "api_key.created"
      BY <3>1, <3>4 DEF Explained
    <3>5. CASE e.action = "api_key.revoked"
      BY <3>1, <3>5 DEF Explained
    <3>6. CASE e.action = "role.created"
      BY <3>1, <3>6 DEF Explained
    <3>7. CASE e.action = "security_policy.updated"
      BY <3>1, <3>7 DEF Explained
    <3>8. CASE e.action = "session.revoked"
      BY <3>1, <3>8 DEF Explained
    <3> QED BY <3>2, <3>3, <3>4, <3>5, <3>6, <3>7, <3>8
  <2>6. ASSUME NEW u \in Users, db[User(u)] # None, User(u) \notin DOMAIN Rows0
        PROVE  \E o \in Orgs : Logged(o, "user.invited", u) # Logged(o, "user.created", u)
    <3>1. PICK q \in Requests, o \in Orgs : Entry(q, o, {"user.invited", "user.created"}, u)
      BY <2>6 DEF Inv, Trails, AllRecorded
    <3>2. Logged(o, "user.invited", u) \/ Logged(o, "user.created", u)
      <4>1. Entry(q, o, {"user.invited"}, u) \/ Entry(q, o, {"user.created"}, u)
        BY <3>1 DEF Entry
      <4> QED BY <2>3, <4>1
    <3>3. ~(Logged(o, "user.invited", u) /\ Logged(o, "user.created", u))
      <4> SUFFICES ASSUME NEW p \in Requests, NEW r \in Requests,
                          Entry(p, o, {"user.invited"}, u), Entry(r, o, {"user.created"}, u)
                   PROVE  FALSE
        BY <2>3
      <4>1. Entry(p, o, {"user.invited", "user.created"}, u)
              /\ Entry(r, o, {"user.invited", "user.created"}, u)
        BY DEF Entry
      <4>2. p = r
        BY <4>1 DEF Inv, Trails, AllRecorded
      <4> QED BY <4>2 DEF Entry
    <3> QED BY <3>2, <3>3
  <2>7. ASSUME NEW k \in Keys, db[Key(k)] # None
        PROVE  /\ (Key(k) \in DOMAIN Rows0) # Logged(db[Key(k)].org, "api_key.created", k)
               /\ (db[Key(k)].status = "revoked") = Logged(db[Key(k)].org, "api_key.revoked", k)
    <3> DEFINE o == db[Key(k)].org
    <3>1. Key(k) \notin DOMAIN Rows0 => Logged(o, "api_key.created", k)
      BY <2>3, <2>7 DEF Inv, Trails, AllRecorded
    <3>2. Logged(o, "api_key.created", k) => Key(k) \notin DOMAIN Rows0
      BY <2>2 DEF Logged, Explained
    <3>3. db[Key(k)].status = "revoked" => Logged(o, "api_key.revoked", k)
      BY <2>3, <2>7 DEF Inv, Trails, AllRecorded
    <3>4. Logged(o, "api_key.revoked", k) => db[Key(k)].status = "revoked"
      BY <2>2 DEF Logged, Explained
    <3> QED BY <2>4, <3>1, <3>2, <3>3, <3>4
  <2>8. ASSUME NEW s \in Sessions
        PROVE  (db[Session(s)] = "revoked" /\ Token[s].org # None)
                 = \E o \in Orgs : Logged(o, "session.revoked", s)
    <3>1. ASSUME db[Session(s)] = "revoked", Token[s].org # None
          PROVE  \E o \in Orgs : Logged(o, "session.revoked", s)
      <4>1. Logged(Token[s].org, "session.revoked", s)
        BY <2>3, <3>1 DEF Inv, Trails, AllRecorded
      <4>2. Token[s].org \in Orgs
        BY <3>1, IamAssumption DEF IamAssumption
      <4> QED BY <4>1, <4>2
    <3>2. ASSUME NEW o \in Orgs, Logged(o, "session.revoked", s)
          PROVE  db[Session(s)] = "revoked" /\ Token[s].org # None
      <4>1. db[Session(s)] = "revoked" /\ o = Token[s].org
        BY <2>2, <3>2 DEF Logged, Explained
      <4> QED BY <4>1, IamAssumption DEF IamAssumption
    <3> QED BY <3>1, <3>2
  <2>9. ASSUME NEW o \in Orgs, NEW s \in Slugs
        PROVE  (db[Role(o, s)] # None) = Logged(o, "role.created", s)
    <3>1. db[Role(o, s)] # None => Logged(o, "role.created", s)
      BY <2>3 DEF Inv, Trails, AllRecorded
    <3>2. Logged(o, "role.created", s) => db[Role(o, s)] # None
      BY <2>2 DEF Logged, Explained
    <3> QED BY <2>4, <3>1, <3>2
  <2>10. ASSUME NEW o \in Orgs
         PROVE  (db[Policy(o)] = "updated") = Logged(o, "security_policy.updated", None)
    <3>1. db[Policy(o)] = "updated" => Logged(o, "security_policy.updated", None)
      BY <2>3 DEF Inv, Trails, AllRecorded
    <3>2. Logged(o, "security_policy.updated", None) => db[Policy(o)] = "updated"
      BY <2>2 DEF Logged, Explained
    <3> QED BY <2>4, <3>1, <3>2
  <2>11. ASSUME NEW u \in Users, NEW o \in Orgs, db[Member(o, u)] # None
         PROVE  \/ \E m \in Orgs : Logged(m, "user.invited", u) # Logged(m, "user.created", u)
                \/ User(u) \in DOMAIN Rows0
    <3>1. db[User(u)] # None
      BY <2>11 DEF Inv, Trails, AllRecorded
    <3> QED BY <2>6, <3>1
  <2> QED BY <2>5, <2>6, <2>7, <2>8, <2>9, <2>10, <2>11 DEF AuditExact
<1> QED BY <1>1, Invariance, PTL
=============================================================================
