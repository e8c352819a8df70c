---------------------------- MODULE IamService ----------------------------
(***************************************************************************)
(* The IAM API: authentication of a request by session token or API key    *)
(* (iam/auth/authentication_service.py, iam/middleware, iam/api/deps.py),  *)
(* the routes (iam/api/routes.py), the service behind them                 *)
(* (infrastructure/iam/iam_service_impl.py) and its repositories.          *)
(*                                                                         *)
(* The middleware authenticates in a database session of its own; the      *)
(* principal it leaves on the request is what the route trusts later, in a *)
(* second session.  A step of the model runs from one database statement   *)
(* to the next.  The database is PostgreSQL at its default isolation level *)
(* (external): a statement sees what is committed, a row written by an     *)
(* open transaction blocks other writers of the row until it ends, and a   *)
(* duplicate of a unique key raises.                                       *)
(*                                                                         *)
(* Organizations, users, sessions and keys that exist at the start are the *)
(* operator's: the routes that would make the first ones (login, register, *)
(* create_organization) never complete, see NeverCompletes.                *)
(***************************************************************************)
EXTENDS Naturals, Sequences, FiniteSets

CONSTANTS None,        \* no row, no value
          Requests,    \* requests the API receives
          Orgs,        \* organizations
          Users,       \* e-mail addresses; a user is known by it
          Sessions,    \* iam_sessions rows
          Keys,        \* ids of API keys, in use or not
          Slugs,       \* slugs of custom roles
          Granted,     \* roles an invitation names
          Assigned,    \* roles the operator gives
          Token,       \* the claims of a session's access token
          Rows0,       \* what the operator has put into the database
          MaxOperator  \* bound on what the operator and the clock do

-----------------------------------------------------------------------------
(* The catalogue, down to the permissions that the IAM routes ask for.      *)
All == {"manage_users", "manage_roles", "manage_api_keys", "manage_security",
        "manage_organization", "view_audit_logs", "view_analytics"}

SYSTEM_ROLE_PERMISSIONS ==
  [owner            |-> All,
   administrator    |-> All \ {"manage_organization"},
   supervisor       |-> {"view_audit_logs", "view_analytics"},
   manager          |-> {"view_analytics"},
   agent            |-> {},
   developer        |-> {"manage_api_keys", "view_audit_logs"},
   billing          |-> {"view_analytics"},
   security_auditor |-> {"view_audit_logs", "manage_security"},
   viewer           |-> {"view_analytics"}]

SYSTEM_ROLE_INHERITANCE ==
  [owner |-> {}, administrator |-> {"owner"}, supervisor |-> {"manager"},
   manager |-> {"agent"}, agent |-> {"viewer"}, developer |-> {"viewer"},
   billing |-> {"viewer"}, security_auditor |-> {"viewer"}, viewer |-> {}]

(* RbacEngine.resolve_permissions: the parents' own permissions, one level  *)
(* up; a custom slug has none.                                              *)
resolve_permissions(role) ==
  IF role \notin DOMAIN SYSTEM_ROLE_PERMISSIONS THEN {}
  ELSE SYSTEM_ROLE_PERMISSIONS[role]
         \cup UNION {SYSTEM_ROLE_PERMISSIONS[p] : p \in SYSTEM_ROLE_INHERITANCE[role]}

-----------------------------------------------------------------------------
(* What a route's dependencies ask for: nothing, any principal, a user's    *)
(* session, or a permission.                                                *)
Needs ==
  [login |-> "nothing", register |-> "nothing", refresh |-> "nothing",
   logout |-> "user", me |-> "user", permissions |-> "principal",
   magic_link |-> "principal", create_organization |-> "manage_organization",
   get_organization |-> "user", register_user |-> "manage_users",
   invite_user |-> "manage_users", list_users |-> "manage_users",
   list_roles |-> "user", create_role |-> "manage_roles",
   create_api_key |-> "manage_api_keys", list_api_keys |-> "manage_api_keys",
   revoke_api_key |-> "manage_api_keys", get_security_policy |-> "manage_security",
   update_security_policy |-> "manage_security", list_audit_logs |-> "view_audit_logs",
   metrics |-> "view_analytics", list_sessions |-> "user", revoke_session |-> "user"]

Routes == DOMAIN Needs
Public == {f \in Routes : Needs[f] = "nothing"}
InOrg  == {"get_organization", "register_user", "invite_user", "list_users", "list_roles",
           "create_role", "create_api_key", "list_api_keys", "revoke_api_key",
           "get_security_policy", "update_security_policy", "list_audit_logs", "metrics"}

(* The service methods that ask _require_permission again.                  *)
Rechecked == {"invite_user", "list_users", "create_role", "create_api_key",
              "revoke_api_key", "update_security_policy", "list_audit_logs"}

Args(f) == CASE f \in {"register_user", "invite_user", "list_sessions"} -> Users
             [] f = "create_role" -> Slugs
             [] f = "revoke_api_key" -> Keys
             [] f = "revoke_session" -> Sessions \cup {None}
             [] OTHER -> {None}
Calls == UNION {[route : {f}, org : IF f \in InOrg THEN Orgs ELSE {None}, arg : Args(f),
                 cred : IF f \in Public THEN {None} ELSE Sessions \cup Keys \cup {None}]
                : f \in Routes}

(* Rows, by table and unique key.                                           *)
User(u)      == <<"iam_users", u>>
Member(o, u) == <<"organization_memberships", o, u>>
Role(o, s)   == <<"iam_roles", o, s>>
Key(k)       == <<"iam_api_keys", k>>
Session(s)   == <<"iam_sessions", s>>
Policy(o)    == <<"iam_security_policies", o>>
Audit(r)     == <<"iam_audit_logs", r>>
Rows == {User(u) : u \in Users} \cup {Member(o, u) : o \in Orgs, u \in Users}
          \cup {Role(o, s) : o \in Orgs, s \in Slugs} \cup {Key(k) : k \in Keys}
          \cup {Session(s) : s \in Sessions} \cup {Policy(o) : o \in Orgs}
          \cup {Audit(r) : r \in Requests}

(* What is in a row of iam_api_keys and of iam_audit_logs.                  *)
KeyRows == [org : Orgs, status : {"active", "revoked"}, permissions : SUBSET All,
            by : Users \cup {None}]
Entries == [org : Orgs, target : Users \cup Keys \cup Slugs \cup Sessions \cup {None},
            action : {"user.invited", "user.created", "api_key.created", "api_key.revoked",
                      "role.created", "security_policy.updated", "session.revoked"},
            actor : Users \cup {None}]

(* The operator's rows: every session is active and is its token's, for an  *)
(* organization or for none; a member is a user; no key is revoked, no      *)
(* policy updated, and neither a custom role nor the trail has a row.       *)
ASSUME IamAssumption ==
  /\ None \notin Users \cup Orgs \cup Sessions \cup Keys \cup Granted \cup Assigned
  /\ None \notin KeyRows \cup Entries \cup Calls \cup {"active", "revoked", "custom", "updated"}
  /\ Sessions \cap Keys = {}
  /\ \A s \in Sessions : /\ Token[s].user \in Users /\ Token[s].org \in Orgs \cup {None}
                         /\ Session(s) \in DOMAIN Rows0 /\ Rows0[Session(s)] = "active"
  /\ \A k \in Keys : Key(k) \in DOMAIN Rows0 =>
                       Rows0[Key(k)] \in KeyRows /\ Rows0[Key(k)].status = "active"
  /\ \A row \in Rows \cap DOMAIN Rows0 : Rows0[row] # None
  /\ \A o \in Orgs, u \in Users : Member(o, u) \in DOMAIN Rows0 => User(u) \in DOMAIN Rows0
  /\ \A o \in Orgs : Policy(o) \in DOMAIN Rows0 => Rows0[Policy(o)] # "updated"
  /\ \A o \in Orgs, s \in Slugs : Role(o, s) \notin DOMAIN Rows0
  /\ \A r \in Requests : Audit(r) \notin DOMAIN Rows0
  /\ MaxOperator \in Nat

VARIABLES db,      \* the committed rows
          call,    \* what a request asks for
          pc,      \* how far it has come
          who,     \* request.state.principal
          plan,    \* the statements its handler has still to execute
          tx,      \* the rows its open transaction has written
          expired, \* tokens, sessions and keys past their expiry
          dead,    \* history: its credential was void when the request began
          held,    \* history: what its user's roles have allowed it since then
          ops      \* what the operator and the clock have done

vars == <<db, call, pc, who, plan, tx, expired, dead, held, ops>>

Nobody == [user |-> None, org |-> None, permissions |-> {}]
Empty  == [row \in {} |-> None]
Places == {"idle", "auth", "member", "check", "look", "flush", "over"}

(* Types.                                                                   *)
TypeOK ==
  /\ DOMAIN db = Rows /\ \A k \in Keys : db[Key(k)] \in KeyRows \cup {None}
  /\ call \in [Requests -> Calls \cup {None}] /\ pc \in [Requests -> Places]
  /\ DOMAIN who = Requests /\ DOMAIN plan = Requests /\ DOMAIN tx = Requests
  /\ \A r \in Requests : /\ who[r].user \in Users \cup {None}
                         /\ DOMAIN tx[r] \subseteq Rows
                         /\ pc[r] # "flush" => plan[r] = <<>> /\ tx[r] = Empty
                         /\ pc[r] \notin {"idle", "over"} => call[r] # None
  /\ expired \subseteq Sessions \cup Keys
  /\ dead \in [Requests -> BOOLEAN] /\ DOMAIN held = Requests
  /\ ops \in 0..MaxOperator

Init ==
  /\ db = [row \in Rows |-> IF row \in DOMAIN Rows0 THEN Rows0[row] ELSE None]
  /\ call = [r \in Requests |-> None] /\ pc = [r \in Requests |-> "idle"]
  /\ who = [r \in Requests |-> Nobody]
  /\ plan = [r \in Requests |-> <<>>] /\ tx = [r \in Requests |-> Empty]
  /\ expired = {} /\ ops = 0
  /\ dead = [r \in Requests |-> FALSE] /\ held = [r \in Requests |-> {}]

-----------------------------------------------------------------------------
(* Authentication.                                                          *)
assert_session_active_Unrevoked(s) == s \notin expired
assert_session_active(s) == db[Session(s)] = "active" /\ s \notin expired
key_active(k) == db[Key(k)] # None /\ db[Key(k)].status = "active" /\ k \notin expired

(* get_membership and the role's permissions; a key's principal has no user.*)
Permitted(o, u) == IF u = None \/ db[Member(o, u)] = None THEN {}
                   ELSE resolve_permissions(db[Member(o, u)])

Goto(r, place) == pc' = [pc EXCEPT ![r] = place]
reqVars == <<call, who, plan, tx, dead, held>>

(* History: that the role which the user of a session has at the moment, in *)
(* the organization the request is about, allows what the route needs; and  *)
(* the record of it, kept by the steps that begin or end a request or       *)
(* change the database.                                                     *)
Granting(r) ==
  LET c == call[r]
      u == Token[c.cred].user
  IN IF c # None /\ c.cred \in Sessions /\ c.route \in InOrg
        /\ Needs[c.route] \in Permitted(c.org, u)
     THEN {<<c.org, u, Needs[c.route]>>} ELSE {}
Observe == held' = [r \in Requests |-> held[r] \cup Granting(r)']

(* The request is answered and its session closed.                          *)
End(r) == /\ Goto(r, "over")
          /\ call' = [call EXCEPT ![r] = None] /\ who' = [who EXCEPT ![r] = Nobody]
          /\ tx' = [tx EXCEPT ![r] = Empty] /\ plan' = [plan EXCEPT ![r] = <<>>]
          /\ dead' = [dead EXCEPT ![r] = FALSE] /\ Observe

Begin(r, c) ==
  /\ pc[r] = "idle" /\ (c.cred \in Keys => db[Key(c.cred)] # None)
  /\ Goto(r, IF c.route \in Public THEN "look" ELSE "auth")
  /\ call' = [call EXCEPT ![r] = c]
  /\ dead' = [dead EXCEPT ![r] =
                 \/ c.cred \in expired
                 \/ c.cred \in Sessions /\ db[Session(c.cred)] # "active"
                 \/ c.cred \in Keys /\ db[Key(c.cred)].status # "active"]
  /\ UNCHANGED <<db, who, plan, tx, expired, ops>> /\ Observe

(* The middleware's _authorize_request.  A route takes an organization's id *)
(* in every spelling of a UUID; matched says that it is in the one that     *)
(* _ORG_PATH knows, lower case with hyphens.                                *)
authorize_request(c, p, matched) == c.route \in InOrg /\ matched => c.org = p.org

(* The dependencies of the route, and the comparison that two routes make.  *)
Entitled(c, p) ==
  /\ c.route \in {"get_organization", "list_roles"} => c.org = p.org
  /\ CASE Needs[c.route] = "principal" -> TRUE
       [] Needs[c.route] = "user" -> p.user # None
       [] OTHER -> Needs[c.route] \in p.permissions
  /\ c.route = "list_sessions" => c.arg = p.user \/ "manage_users" \in p.permissions

Admit(r, p, matched) ==
  IF ~(authorize_request(call[r], p, matched) /\ Entitled(call[r], p)) THEN End(r)
  ELSE /\ who' = [who EXCEPT ![r] = p]
       /\ Goto(r, IF call[r].route \in Rechecked THEN "check" ELSE "look")
       /\ UNCHANGED <<call, plan, tx, dead, held>>

(* authenticate_bearer refuses a token without an organization, reads the   *)
(* session, then the user, the membership and the organization; the         *)
(* permissions are the token's.                                             *)
AuthenticateBearer(r) ==
  /\ pc[r] = "auth" /\ call[r].cred \in Sessions
  /\ UNCHANGED <<db, expired, ops>>
  /\ IF Token[call[r].cred].org # None /\ assert_session_active(call[r].cred)
     THEN Goto(r, "member") /\ UNCHANGED reqVars ELSE End(r)

LoadMembership(r, matched) ==
  LET t == Token[call[r].cred]
  IN /\ pc[r] = "member"
     /\ UNCHANGED <<db, expired, ops>>
     /\ IF db[Member(t.org, t.user)] = None THEN End(r)
        ELSE Admit(r, [user |-> t.user, org |-> t.org,
                       permissions |-> resolve_permissions(t.role)], matched)

(* authenticate_api_key.  The last_used_at it sets is never committed: the  *)
(* middleware leaves its session's generator before the commit.             *)
AuthenticateApiKey(r, matched) ==
  LET k == call[r].cred
      own == db[Key(k)].permissions
  IN /\ pc[r] = "auth" /\ k \in Keys
     /\ UNCHANGED <<db, expired, ops>>
     /\ IF ~key_active(k) THEN End(r)
        ELSE Admit(r, [user |-> None, org |-> db[Key(k)].org,
                       permissions |-> IF own # {} THEN own ELSE resolve_permissions("developer")],
                   matched)

AuthenticateNobody(r) ==
  /\ pc[r] = "auth" /\ call[r].cred = None
  /\ UNCHANGED <<db, expired, ops>>
  /\ End(r)

(* _require_permission: the role the user has now.  The PERMISSION_DENIED   *)
(* event is rolled back with the request that it is about.                  *)
check_permission_Token(o, p, perm) == perm \in p.permissions
check_permission(o, p, perm) == perm \in Permitted(o, p.user)

RequirePermission(r) ==
  /\ pc[r] = "check"
  /\ UNCHANGED <<db, expired, ops>>
  /\ IF check_permission(call[r].org, who[r], Needs[call[r].route])
     THEN Goto(r, "look") /\ UNCHANGED reqVars ELSE End(r)

-----------------------------------------------------------------------------
(* Handlers.  Each reads what it decides on and plans its statements.       *)
Insert(row, value) == [row |-> row, value |-> value, new |-> TRUE]
Update(row, value) == [row |-> row, value |-> value, new |-> FALSE]
CreateUser(u) == Insert(User(u), "active")
AddMember(o, u, role) == Insert(Member(o, u), role)
CreateRole(o, slug) == Insert(Role(o, slug), "custom")
CreateKey(k, o, perms, by) ==
  Insert(Key(k), [org |-> o, status |-> "active", permissions |-> perms, by |-> by])
RevokeKey(k) == Update(Key(k), [db[Key(k)] EXCEPT !.status = "revoked"])
RevokeSession(s) == Update(Session(s), "revoked")
UpdatePolicy(o) == Update(Policy(o), "updated")
Log(r, o, action, target) ==
  Insert(Audit(r), [org |-> o, action |-> action, target |-> target, actor |-> who[r].user])

Plan(r, statements) ==
  /\ pc[r] = "look" /\ Goto(r, "flush")
  /\ plan' = [plan EXCEPT ![r] = statements]
  /\ UNCHANGED <<db, call, who, tx, expired, dead, held, ops>>
Raise(r) == pc[r] = "look" /\ UNCHANGED <<db, expired, ops>> /\ End(r)
On(r, route) == pc[r] = "look" /\ call[r].route = route

invite_user(r, role) ==
  LET o == call[r].org
      u == call[r].arg
      add == AddMember(o, u, role)
  IN /\ On(r, "invite_user")
     /\ Plan(r, IF db[User(u)] # None THEN <<add>>
                ELSE <<CreateUser(u), add, Log(r, o, "user.invited", u)>>)

(* The policy of an organization that has none is made here, and its NULL   *)
(* columns then fail SecurityPolicyRead.                                    *)
register_user(r, role, valid) ==
  LET o == call[r].org
      u == call[r].arg
  IN /\ On(r, "register_user")
     /\ IF db[Policy(o)] = None \/ ~valid THEN Raise(r)
        ELSE Plan(r, <<CreateUser(u), AddMember(o, u, role), Log(r, o, "user.created", u)>>)

Fresh(k) == /\ db[Key(k)] = None
            /\ \A r \in Requests : /\ Key(k) \notin DOMAIN tx[r]
                                   /\ \A i \in DOMAIN plan[r] : plan[r][i].row # Key(k)
create_api_key(r, k, perms) ==
  LET o == call[r].org
  IN /\ On(r, "create_api_key") /\ Fresh(k)
     /\ Plan(r, <<CreateKey(k, o, perms, who[r].user), Log(r, o, "api_key.created", k)>>)

revoke_api_key_Silent(r) ==
  LET o == call[r].org
      key == Key(call[r].arg)
  IN /\ On(r, "revoke_api_key")
     /\ IF db[key] = None \/ (db[key] # None /\ db[key].org # o) THEN Raise(r)
        ELSE Plan(r, <<RevokeKey(call[r].arg)>>)
revoke_api_key(r) ==
  LET o == call[r].org
      key == Key(call[r].arg)
  IN /\ On(r, "revoke_api_key")
     /\ IF db[key] = None \/ (db[key] # None /\ db[key].org # o) THEN Raise(r)
        ELSE Plan(r, <<RevokeKey(call[r].arg), Log(r, o, "api_key.revoked", call[r].arg)>>)

create_role(r) ==
  LET o == call[r].org
  IN /\ On(r, "create_role")
     /\ Plan(r, <<CreateRole(o, call[r].arg), Log(r, o, "role.created", call[r].arg)>>)

update_security_policy(r) ==
  LET o == call[r].org
  IN /\ On(r, "update_security_policy")
     /\ IF db[Policy(o)] = None THEN Raise(r)
        ELSE Plan(r, <<UpdatePolicy(o), Log(r, o, "security_policy.updated", None)>>)

(* logout finds the caller's session by its token; both end in              *)
(* SessionRepository.revoke.  A session without an organization has no log. *)
revoke_session(r) ==
  LET s == IF call[r].route = "logout" THEN call[r].cred ELSE call[r].arg
  IN /\ On(r, "logout") \/ On(r, "revoke_session")
     /\ IF s = None THEN Raise(r)
        ELSE IF Token[s].org = None THEN Plan(r, <<RevokeSession(s)>>)
        ELSE Plan(r, <<RevokeSession(s), Log(r, Token[s].org, "session.revoked", s)>>)

Read(r) ==
  /\ pc[r] = "look"
  /\ call[r].route \in {"me", "permissions", "magic_link", "get_organization", "list_users",
                        "list_roles", "list_api_keys", "list_audit_logs", "metrics",
                        "list_sessions"}
  /\ Plan(r, <<>>)

get_security_policy(r) ==
  /\ On(r, "get_security_policy")
  /\ IF db[Policy(call[r].org)] = None THEN Raise(r) ELSE Plan(r, <<>>)

(* login builds a SessionRead without its country; refresh reads the        *)
(* refresh_token_hash that SessionRead does not have; a new organization's  *)
(* policy is the fresh row of register_user.  Each raises before anything   *)
(* is committed, if it has not refused its input before.                    *)
NeverCompletes(r) ==
  /\ pc[r] = "look"
  /\ call[r].route \in {"login", "register", "refresh", "create_organization"}
  /\ Raise(r)

-----------------------------------------------------------------------------
Overlay(new, old) ==
  [row \in DOMAIN new \cup DOMAIN old |-> IF row \in DOMAIN new THEN new[row] ELSE old[row]]

(* A statement waits for the transaction that has written its row.  A       *)
(* duplicate raises, and with it the request ends.                          *)
Flush(r) ==
  LET w == Head(plan[r])
  IN /\ pc[r] = "flush" /\ plan[r] # <<>>
     /\ \A q \in Requests \ {r} : w.row \notin DOMAIN tx[q]
     /\ UNCHANGED <<db, expired, ops>>
     /\ IF w.new /\ db[w.row] # None THEN End(r)
        ELSE /\ tx' = [tx EXCEPT ![r] = Overlay([row \in {w.row} |-> w.value], @)]
             /\ plan' = [plan EXCEPT ![r] = Tail(@)]
             /\ UNCHANGED <<pc, call, who, dead, held>>

(* get_db_session: the handler has returned, or an exception passes through.*)
(* It may come from any statement: the connection, the commit, a row that   *)
(* cannot be read back after its UPDATE.                                    *)
Commit(r) ==
  /\ pc[r] = "flush" /\ plan[r] = <<>>
  /\ db' = Overlay(tx[r], db)
  /\ End(r)
  /\ UNCHANGED <<expired, ops>>

Rollback(r) ==
  /\ pc[r] \notin {"idle", "over"}
  /\ UNCHANGED <<db, expired, ops>>
  /\ End(r)

-----------------------------------------------------------------------------
(* The operator changes a role (MembershipRepository.update_role has no     *)
(* route); time passes an expiry.                                           *)
update_role(o, u, role) ==
  /\ ops < MaxOperator /\ ops' = ops + 1
  /\ db[Member(o, u)] \notin {None, role}
  /\ db' = [db EXCEPT ![Member(o, u)] = role]
  /\ UNCHANGED <<call, pc, who, plan, tx, expired, dead>> /\ Observe

Expire(c) ==
  /\ ops < MaxOperator /\ ops' = ops + 1
  /\ c \notin expired /\ (c \in Keys => db[Key(c)] # None)
  /\ expired' = expired \cup {c}
  /\ UNCHANGED <<db, pc, reqVars>>

Done == (\A r \in Requests : pc[r] = "over") /\ UNCHANGED vars

Handle(r) ==
  \/ \E role \in Granted : invite_user(r, role)
  \/ \E role \in Granted, valid \in BOOLEAN : register_user(r, role, valid)
  \/ \E k \in Keys, perms \in {{}, {"manage_users"}} : create_api_key(r, k, perms)
  \/ revoke_api_key(r) \/ create_role(r) \/ update_security_policy(r) \/ revoke_session(r)
  \/ Read(r) \/ get_security_policy(r) \/ NeverCompletes(r)

Step(r) ==
  \/ AuthenticateBearer(r)
  \/ \E matched \in BOOLEAN : LoadMembership(r, matched) \/ AuthenticateApiKey(r, matched)
  \/ AuthenticateNobody(r) \/ RequirePermission(r)
  \/ Handle(r) \/ Flush(r) \/ Commit(r)

Next ==
  \/ \E r \in Requests : (\E c \in Calls : Begin(r, c)) \/ Step(r) \/ Rollback(r)
  \/ \E o \in Orgs, u \in Users, role \in Assigned : update_role(o, u, role)
  \/ \E c \in Sessions \cup Keys : Expire(c)
  \/ Done

Spec == Init /\ [][Next]_vars

-----------------------------------------------------------------------------
Trail == {db[Audit(r)] : r \in {r \in Requests : db[Audit(r)] # None}}
Logged(o, action, target) ==
  \E e \in Trail : e.org = o /\ e.action = action /\ e.target = target

\* The trail tells what happened and nothing else, whichever statement failed
\* and whoever else was writing.  An entry is there exactly when the new user,
\* key, role or policy, or the revoked key or session, that it names is.  Two
\* changes have no entry of their own: the revocation of a session that has no
\* organization, and the membership of a user who exists already.
AuditExact ==
  /\ \A e \in Trail :
       CASE e.action \in {"user.invited", "user.created"} ->
              db[User(e.target)] # None /\ db[Member(e.org, e.target)] # None
         [] e.action = "api_key.created" ->
              db[Key(e.target)] # None /\ db[Key(e.target)].org = e.org
                /\ db[Key(e.target)].by = e.actor
         [] e.action = "api_key.revoked" -> db[Key(e.target)].status = "revoked"
         [] e.action = "role.created" -> db[Role(e.org, e.target)] # None
         [] e.action = "security_policy.updated" -> db[Policy(e.org)] = "updated"
         [] e.action = "session.revoked" ->
              db[Session(e.target)] = "revoked" /\ Token[e.target].org = e.org
  /\ \A u \in Users :
       LET Announced == \E o \in Orgs : Logged(o, "user.invited", u) # Logged(o, "user.created", u)
       IN /\ db[User(u)] # None /\ User(u) \notin DOMAIN Rows0 => Announced
          /\ \A o \in Orgs : db[Member(o, u)] # None => Announced \/ User(u) \in DOMAIN Rows0
  /\ \A k \in Keys : db[Key(k)] # None =>
       /\ (Key(k) \in DOMAIN Rows0) # Logged(db[Key(k)].org, "api_key.created", k)
       /\ (db[Key(k)].status = "revoked") = Logged(db[Key(k)].org, "api_key.revoked", k)
  /\ \A s \in Sessions : (db[Session(s)] = "revoked" /\ Token[s].org # None)
                             = \E o \in Orgs : Logged(o, "session.revoked", s)
  /\ \A o \in Orgs : (db[Policy(o)] = "updated") = Logged(o, "security_policy.updated", None)
  /\ \A o \in Orgs, s \in Slugs : (db[Role(o, s)] # None) = Logged(o, "role.created", s)

\* Once a session or a key is revoked or has expired, no request that begins
\* afterwards reaches a handler with it.
RevokedStaysOut ==
  \A r \in Requests : dead[r] => pc[r] = "auth"

\* The permission that an entry's action stands for.
Needed(action) ==
  CASE action \in {"user.invited", "user.created"} -> "manage_users"
    [] action \in {"api_key.created", "api_key.revoked"} -> "manage_api_keys"
    [] action = "role.created" -> "manage_roles"
    [] action = "security_policy.updated" -> "manage_security"

\* The actor of request r might do what the entry e says.
Allowed(r, e) ==
  CASE e.action = "session.revoked" -> e.actor # None
    [] e.action = "user.created" ->
         e.actor # None => \E s \in Sessions :
            Token[s].user = e.actor /\ "manage_users" \in resolve_permissions(Token[s].role)
    [] OTHER -> <<e.org, e.actor, Needed(e.action)>> \in held[r]

\* A token keeps the permissions of the role it was issued for, and names one
\* organization.  All the same, what is committed was done by a user whose role
\* in that very organization allowed it at some moment of the request, whatever
\* the operator did to the roles meanwhile.  Two actions are not held to that:
\* any user revokes a session, and register_user never asks for the role, so
\* that a token, or a key, of whichever organization is enough for it.
ActorsPermitted ==
  /\ \A r \in Requests : db[Audit(r)] # None => Allowed(r, db[Audit(r)])
  /\ \A o \in Orgs, u \in Users :
       db[Member(o, u)] # None /\ Member(o, u) \notin DOMAIN Rows0 =>
          \/ Logged(o, "user.created", u)
          \/ \E r \in Requests, actor \in Users : <<o, actor, "manage_users">> \in held[r]
=============================================================================
