----------------------------- MODULE AccountsDB -----------------------------
(***************************************************************************)
(* The account tables of the database (schema 001, 002 and 004) and the    *)
(* statements the handlers send to them.  Each statement is its own        *)
(* transaction: the handlers never open one, so a statement is one step    *)
(* and a handler is a sequence of steps.                                   *)
(*                                                                         *)
(* A user is named by the email, which is UNIQUE and which no statement    *)
(* updates; an organisation by its slug, likewise.  Nobody deletes either. *)
(* An invite token and a TOTP secret are named by the request that made    *)
(* them, being random.                                                     *)
(***************************************************************************)
EXTENDS Integers, FiniteSets

CONSTANTS Emails,      \* the people, and the usernames they get by default
          Nicknames,   \* usernames that are nobody's email
          Slugs,       \* organisations
          Passwords,
          Requests,    \* HTTP requests, each served at most once
          None         \* NULL, no rows, an absent field

Usernames == Emails \cup Nicknames
Roles == {"Owner", "Admin", "Member", "Viewer"}

ASSUME SlugsFinite == IsFiniteSet(Slugs)

VARIABLES users,       \* rows of users
          creds,       \* local_credentials, by user
          totp,        \* user_totp: the secret, by user
          orgs,        \* organisations: creation rank by slug, 0 if none
          members,     \* org_memberships: role by slug and user
          invites,     \* org_invites by token
          attempts     \* what login_attempts has recorded

dbVars == <<users, creds, totp, orgs, members, invites, attempts>>

Credential == [name : Usernames, pw : Passwords]
Invite == [org : Slugs, email : Emails, role : Roles,
           used : BOOLEAN, expired : BOOLEAN]
Attempt == [name : Usernames, ok : BOOLEAN]

(* NULL is neither a value nor a row.                                      *)
ASSUME NoneAssumption ==
    /\ None \notin Usernames \cup Slugs \cup Passwords \cup Requests \cup Roles
    /\ None \notin Invite
    /\ None \notin Credential

DBTypeOK == /\ users \subseteq Emails
            /\ creds \in [Emails -> Credential \cup {None}]
            /\ totp \in [Emails -> Requests \cup {None}]
            /\ orgs \in [Slugs -> Nat]
            /\ members \in [Slugs -> [Emails -> Roles \cup {None}]]
            /\ invites \in [Requests -> Invite \cup {None}]
            /\ attempts \subseteq Attempt

DBInit == /\ users = {}
          /\ creds = [u \in Emails |-> None]
          /\ totp = [u \in Emails |-> None]
          /\ orgs = [o \in Slugs |-> 0]
          /\ members = [o \in Slugs |-> [u \in Emails |-> None]]
          /\ invites = [i \in Requests |-> None]
          /\ attempts = {}

-----------------------------------------------------------------------------
(* Queries.                                                                *)
OrgExists(o) == orgs[o] > 0

(* Holders of a username: at most one, it is UNIQUE.                       *)
HoldersOf(n) == {u \in Emails : creds[u] # None /\ creds[u].name = n}

UserHasTOTP(u) == totp[u] # None

GetRole(o, u) == members[o][u]

(* A token is accepted once and for seven days.                            *)
InviteOpen(i) == invites[i] # None /\ ~invites[i].used /\ ~invites[i].expired

(* PickUserOrg orders by the enum, in which Owner comes first, descending, *)
(* and then by age.                                                        *)
EnumRank == [Owner |-> 1, Admin |-> 2, Member |-> 3, Viewer |-> 4]

PickUserOrg(u) ==
    LET mine == {o \in Slugs : members[o][u] # None}
        before(o, p) == \/ EnumRank[members[o][u]] > EnumRank[members[p][u]]
                        \/ /\ members[o][u] = members[p][u]
                           /\ orgs[o] < orgs[p]
    IN {o \in mine : \A p \in mine \ {o} : before(o, p)}

-----------------------------------------------------------------------------
(* Statements that write.                                                  *)
UpsertUserByVerifiedEmail(e) ==
    /\ users' = users \cup {e}
    /\ UNCHANGED <<creds, totp, orgs, members, invites, attempts>>

(* PRIMARY KEY (user_id) and UNIQUE (username).                            *)
CredentialFree(u, n) == creds[u] = None /\ HoldersOf(n) = {}

CreateLocalCredential(u, n, pw) ==
    /\ CredentialFree(u, n)
    /\ creds' = [creds EXCEPT ![u] = [name |-> n, pw |-> pw]]
    /\ UNCHANGED <<users, totp, orgs, members, invites, attempts>>

(* Zero rows updated is not an error.                                      *)
UpdateLocalPasswordHash(u, pw) ==
    /\ creds' = [creds EXCEPT ![u] = IF @ = None THEN None
                                     ELSE [@ EXCEPT !.pw = pw]]
    /\ UNCHANGED <<users, totp, orgs, members, invites, attempts>>

SetTOTPSecret(u, secret) ==
    /\ totp' = [totp EXCEPT ![u] = secret]
    /\ UNCHANGED <<users, creds, orgs, members, invites, attempts>>

(* Mutant: an existing slug is taken over instead of refused.              *)
CreateOrgOnConflict(o) ==
    /\ orgs' = [orgs EXCEPT ![o] = 1 + Cardinality({p \in Slugs : OrgExists(p)})]
    /\ UNCHANGED <<users, creds, totp, members, invites, attempts>>

CreateOrg(o) ==
    /\ ~OrgExists(o)
    /\ orgs' = [orgs EXCEPT ![o] = 1 + Cardinality({p \in Slugs : OrgExists(p)})]
    /\ UNCHANGED <<users, creds, totp, members, invites, attempts>>

(* The upsert overwrites the role of an existing membership.               *)
EnsureMembership(o, u, role) ==
    /\ members' = [members EXCEPT ![o][u] = role]
    /\ UNCHANGED <<users, creds, totp, orgs, invites, attempts>>

CreateInvite(i, o, e, role) ==
    /\ invites' = [invites EXCEPT ![i] = [org |-> o, email |-> e, role |-> role,
                                          used |-> FALSE, expired |-> FALSE]]
    /\ UNCHANGED <<users, creds, totp, orgs, members, attempts>>

(* How many rows the UPDATE touched is ignored.                            *)
UseInvite(i) ==
    /\ invites' = [invites EXCEPT ![i].used = TRUE]
    /\ UNCHANGED <<users, creds, totp, orgs, members, attempts>>

RecordLoginAttempt(n, ok) ==
    /\ attempts' = attempts \cup {[name |-> n, ok |-> ok]}
    /\ UNCHANGED <<users, creds, totp, orgs, members, invites>>
=============================================================================
