------------------------------ MODULE Accounts ------------------------------
(***************************************************************************)
(* The account handlers of internal/auth as concurrent requests: signup,   *)
(* local login, invite creation and acceptance, setting a password, TOTP   *)
(* enrolment and logout.  A request goes through its handler one statement *)
(* (AccountsDB) or one access to the session store at a time, and any      *)
(* other request may run in between.  req[r].pc names what r does next;    *)
(* what its handler keeps in local variables is in the other fields.       *)
(*                                                                         *)
(* Statements fail and servers restart in the middle of a handler: Abort   *)
(* and Restart.  A request that is refused before its first statement      *)
(* (bad JSON, missing fields) changes nothing and is left out.             *)
(***************************************************************************)
EXTENDS AccountsDB

CONSTANTS Kinds,         \* the endpoints clients use
          Choices,       \* <<email, username>> pairs people sign up with
          MaxInFlight,   \* how many requests are served at a time
          Faults         \* whether statements may fail and servers restart

ASSUME ChoicesAssumption == Choices \subseteq Emails \X Usernames

VARIABLES req,           \* every request: where its handler is
          session        \* the session whose cookie request r was given

vars == <<users, creds, totp, orgs, members, invites, attempts, req, session>>

InvitableRoles == Roles \ {"Owner"}

Session == [user : Emails, org : Slugs, provider : {"local", "invite"}]

Ended == {"ok", "refused", "error"}

SignupPCs == {"signup_credential", "signup_find", "signup_org",
              "signup_member", "signup_session"}
LoginPCs == {"login_failed", "login_totp", "login_code", "login_org",
             "login_session", "login_record"}
InvitePCs == {"invite_role", "invite_insert"}
AcceptPCs == {"accept_user", "accept_member", "accept_use", "accept_session"}
PasswordPCs == {"password_find", "password_update", "password_create"}

Busy == SignupPCs \cup LoginPCs \cup InvitePCs \cup AcceptPCs
            \cup PasswordPCs \cup {"totp_set"}

Request == [pc : Busy \cup Ended \cup {"new"},
            user : Emails \cup {None}, name : Usernames \cup {None},
            pw : Passwords \cup {None}, org : Slugs \cup {None},
            email : Emails \cup {None}, role : Roles \cup {None},
            inv : Requests \cup {None}, code : Requests \cup {None},
            cookie : Requests \cup {None}]

New == [pc |-> "new", user |-> None, name |-> None, pw |-> None, org |-> None,
        email |-> None, role |-> None, inv |-> None, code |-> None,
        cookie |-> None]

TypeOK == /\ DBTypeOK
          /\ req \in [Requests -> Request]
          /\ session \in [Requests -> Session \cup {None}]

Init == /\ DBInit
        /\ req = [r \in Requests |-> New]
        /\ session = [r \in Requests |-> None]

-----------------------------------------------------------------------------
(* A request arrives at an endpoint.                                       *)
Arrives(r, kind) ==
    /\ kind \in Kinds
    /\ req[r].pc = "new"
    /\ Cardinality({q \in Requests : req[q].pc \in Busy}) < MaxInFlight

(* Request r goes on to pc.                                                *)
Goto(r, pc) == req' = [req EXCEPT ![r].pc = pc]

(* The handler returns: of its locals only the token it accepted is kept.  *)
Return(r, result) ==
    req' = [req EXCEPT ![r] = [New EXCEPT !.pc = result, !.inv = req[r].inv]]

(* A request that arrives and is answered at once.                         *)
ReturnAtOnce(r, result) == req' = [req EXCEPT ![r].pc = result]

(* SetSessionCookie: a fresh session, and the response that carries it.    *)
SetSessionCookie(r, u, o, provider) ==
    session' = [session EXCEPT ![r] = [user |-> u, org |-> o,
                                       provider |-> provider]]

-----------------------------------------------------------------------------
(* POST /auth/signup                                                       *)

(* Mutant: an empty username does not default to the email.                *)
SignupUpsertNoDefault(r) ==
    /\ Arrives(r, "signup")
    /\ \E c \in Choices, pw \in Passwords, o \in Slugs :
          /\ UpsertUserByVerifiedEmail(c[1])
          /\ req' = [req EXCEPT ![r] = [New EXCEPT !.pc = "signup_credential",
                                 !.user = c[1],
                                 !.name = IF c[2] = c[1] THEN None ELSE c[2],
                                 !.pw = pw, !.org = o]]
    /\ UNCHANGED session

SignupUpsert(r) ==
    /\ Arrives(r, "signup")
    /\ \E c \in Choices, pw \in Passwords, o \in Slugs :
          /\ UpsertUserByVerifiedEmail(c[1])
          /\ req' = [req EXCEPT ![r] = [New EXCEPT !.pc = "signup_credential",
                                                   !.user = c[1], !.name = c[2],
                                                   !.pw = pw, !.org = o]]
    /\ UNCHANGED session

SignupCredential(r) ==
    /\ req[r].pc = "signup_credential"
    /\ \/ /\ CreateLocalCredential(req[r].user, req[r].name, req[r].pw)
          /\ Goto(r, "signup_find")
       \/ /\ ~CredentialFree(req[r].user, req[r].name)
          /\ Return(r, "refused")
          /\ UNCHANGED dbVars
    /\ UNCHANGED session

(* Any error of the lookup counts as "no such organisation".               *)
SignupFindOrg(r) ==
    /\ req[r].pc = "signup_find"
    /\ \/ /\ ~OrgExists(req[r].org) \/ Faults
          /\ Goto(r, "signup_org")
       \/ /\ OrgExists(req[r].org)
          /\ Return(r, "refused")
    /\ UNCHANGED <<dbVars, session>>

SignupCreateOrg(r) ==
    /\ req[r].pc = "signup_org"
    /\ \/ /\ CreateOrg(req[r].org)
          /\ Goto(r, "signup_member")
       \/ /\ OrgExists(req[r].org)
          /\ Return(r, "error")
          /\ UNCHANGED dbVars
    /\ UNCHANGED session

(* Mutant: the founder is logged in but never becomes a member.            *)
SignupMemberSkipped(r) ==
    /\ req[r].pc = "signup_member"
    /\ Goto(r, "signup_session")
    /\ UNCHANGED <<dbVars, session>>

SignupMember(r) ==
    /\ req[r].pc = "signup_member"
    /\ EnsureMembership(req[r].org, req[r].user, "Owner")
    /\ Goto(r, "signup_session")
    /\ UNCHANGED session

SignupSession(r) ==
    /\ req[r].pc = "signup_session"
    /\ SetSessionCookie(r, req[r].user, req[r].org, "local")
    /\ Return(r, "ok")
    /\ UNCHANGED dbVars

-----------------------------------------------------------------------------
(* POST /auth/login.  A wrong password and a login are recorded if the     *)
(* client's address is known, and what becomes of the statement is ignored.*)
LoginPassword(r) ==
    /\ Arrives(r, "login")
    /\ \E n \in Usernames, pw \in Passwords, code \in Requests \cup {None} :
          \/ HoldersOf(n) = {} /\ ReturnAtOnce(r, "refused")
          \/ \E u \in HoldersOf(n) :
                req' = [req EXCEPT ![r] =
                           [New EXCEPT !.pc = IF creds[u].pw = pw
                                              THEN "login_totp" ELSE "login_failed",
                                       !.user = u, !.name = n, !.code = code]]
    /\ UNCHANGED <<dbVars, session>>

LoginFailed(r) ==
    /\ req[r].pc = "login_failed"
    /\ RecordLoginAttempt(req[r].name, FALSE) \/ UNCHANGED dbVars
    /\ Return(r, "refused")
    /\ UNCHANGED session

(* UserHasTOTP answers FALSE when its query fails.                         *)
LoginTOTP(r) ==
    /\ req[r].pc = "login_totp"
    /\ \/ /\ UserHasTOTP(req[r].user)
          /\ IF req[r].code = None THEN Return(r, "refused")
                                   ELSE Goto(r, "login_code")
       \/ /\ ~UserHasTOTP(req[r].user) \/ Faults
          /\ Goto(r, "login_org")
    /\ UNCHANGED <<dbVars, session>>

(* GetTOTPSecret, and a code of the secret the client's app knows.         *)
LoginCode(r) ==
    /\ req[r].pc = "login_code"
    /\ IF totp[req[r].user] = req[r].code THEN Goto(r, "login_org")
                                          ELSE Return(r, "refused")
    /\ UNCHANGED <<dbVars, session>>

LoginOrg(r) ==
    /\ req[r].pc = "login_org"
    /\ \/ \E o \in PickUserOrg(req[r].user) :
             req' = [req EXCEPT ![r] = [New EXCEPT !.pc = "login_session",
                                                   !.user = req[r].user,
                                                   !.name = req[r].name,
                                                   !.org = o]]
       \/ PickUserOrg(req[r].user) = {} /\ Return(r, "refused")
    /\ UNCHANGED <<dbVars, session>>

LoginSession(r) ==
    /\ req[r].pc = "login_session"
    /\ SetSessionCookie(r, req[r].user, req[r].org, "local")
    /\ Goto(r, "login_record")
    /\ UNCHANGED dbVars

LoginRecord(r) ==
    /\ req[r].pc = "login_record"
    /\ RecordLoginAttempt(req[r].name, TRUE) \/ UNCHANGED dbVars
    /\ Return(r, "ok")
    /\ UNCHANGED session

-----------------------------------------------------------------------------
(* POST /auth/invite, behind RequireAuth and RequireRole(Owner).  The      *)
(* middleware works on a copy of the session, the handler reads it again.  *)
InviteAuth(r) ==
    /\ Arrives(r, "invite")
    /\ \E c \in Requests, e \in Emails, role \in InvitableRoles :
          /\ session[c] # None
          /\ req' = [req EXCEPT ![r] = [New EXCEPT !.pc = "invite_role",
                                          !.user = session[c].user,
                                          !.org = session[c].org,
                                          !.email = e, !.role = role,
                                          !.cookie = c]]
    /\ UNCHANGED <<dbVars, session>>

InviteRole(r) ==
    /\ req[r].pc = "invite_role"
    /\ IF GetRole(req[r].org, req[r].user) = "Owner"
         THEN Goto(r, "invite_insert") ELSE Return(r, "refused")
    /\ UNCHANGED <<dbVars, session>>

InviteInsert(r) ==
    /\ req[r].pc = "invite_insert"
    /\ \/ /\ session[req[r].cookie] # None
          /\ CreateInvite(r, req[r].org, req[r].email, req[r].role)
          /\ Return(r, "ok")
       \/ /\ session[req[r].cookie] = None
          /\ Return(r, "refused")
          /\ UNCHANGED dbVars
    /\ UNCHANGED session

(* Seven days pass.                                                        *)
InviteExpires(i) ==
    /\ InviteOpen(i)
    /\ invites' = [invites EXCEPT ![i].expired = TRUE]
    /\ UNCHANGED <<users, creds, totp, orgs, members, attempts, req, session>>

-----------------------------------------------------------------------------
(* POST /auth/invite/accept                                                *)
AcceptLookup(r) ==
    /\ Arrives(r, "accept")
    /\ \E i \in Requests :
          \/ /\ InviteOpen(i)
             /\ req' = [req EXCEPT ![r] = [New EXCEPT !.pc = "accept_user",
                                             !.user = invites[i].email,
                                             !.org = invites[i].org,
                                             !.role = invites[i].role,
                                             !.inv = i]]
          \/ /\ invites[i] # None /\ ~InviteOpen(i)
             /\ ReturnAtOnce(r, "refused")
    /\ UNCHANGED <<dbVars, session>>

(* GetUserByEmail, and the upsert when that finds nobody: an upsert of a   *)
(* user who exists would change nothing the model keeps.                   *)
AcceptUser(r) ==
    /\ req[r].pc = "accept_user"
    /\ UpsertUserByVerifiedEmail(req[r].user)
    /\ Goto(r, "accept_member")
    /\ UNCHANGED session

(* Mutant: the role of the invite is forgotten.                            *)
AcceptDefaultRole(r) ==
    /\ req[r].pc = "accept_member"
    /\ EnsureMembership(req[r].org, req[r].user, "Member")
    /\ Goto(r, "accept_use")
    /\ UNCHANGED session

AcceptMember(r) ==
    /\ req[r].pc = "accept_member"
    /\ EnsureMembership(req[r].org, req[r].user, req[r].role)
    /\ Goto(r, "accept_use")
    /\ UNCHANGED session

(* Mutant: the invite is left as it is.                                    *)
AcceptUseForgotten(r) ==
    /\ req[r].pc = "accept_use"
    /\ Goto(r, "accept_session")
    /\ UNCHANGED <<dbVars, session>>

AcceptUse(r) ==
    /\ req[r].pc = "accept_use"
    /\ UseInvite(req[r].inv)
    /\ Goto(r, "accept_session")
    /\ UNCHANGED session

AcceptSession(r) ==
    /\ req[r].pc = "accept_session"
    /\ SetSessionCookie(r, req[r].user, req[r].org, "invite")
    /\ Return(r, "ok")
    /\ UNCHANGED dbVars

-----------------------------------------------------------------------------
(* POST /auth/set-password                                                 *)
PasswordStart(r) ==
    /\ Arrives(r, "password")
    /\ \E c \in Requests, pw \in Passwords :
          /\ session[c] # None
          /\ req' = [req EXCEPT ![r] = [New EXCEPT !.pc = "password_find",
                                                   !.user = session[c].user,
                                                   !.pw = pw]]
    /\ UNCHANGED <<dbVars, session>>

(* The credential is looked for under the email, as a username; an error   *)
(* counts as "missing".                                                    *)
PasswordFind(r) ==
    /\ req[r].pc = "password_find"
    /\ \/ HoldersOf(req[r].user) # {} /\ Goto(r, "password_update")
       \/ /\ HoldersOf(req[r].user) = {} \/ Faults
          /\ Goto(r, "password_create")
    /\ UNCHANGED <<dbVars, session>>

PasswordUpdate(r) ==
    /\ req[r].pc = "password_update"
    /\ UpdateLocalPasswordHash(req[r].user, req[r].pw)
    /\ Return(r, "ok")
    /\ UNCHANGED session

(* Mutant: the INSERT does nothing where there is a credential already.    *)
PasswordCreateOnConflict(r) ==
    /\ req[r].pc = "password_create"
    /\ \/ CreateLocalCredential(req[r].user, req[r].user, req[r].pw)
       \/ ~CredentialFree(req[r].user, req[r].user) /\ UNCHANGED dbVars
    /\ Return(r, "ok")
    /\ UNCHANGED session

PasswordCreate(r) ==
    /\ req[r].pc = "password_create"
    /\ \/ /\ CreateLocalCredential(req[r].user, req[r].user, req[r].pw)
          /\ Return(r, "ok")
       \/ /\ ~CredentialFree(req[r].user, req[r].user)
          /\ Return(r, "error")
          /\ UNCHANGED dbVars
    /\ UNCHANGED session

-----------------------------------------------------------------------------
(* GET /auth/mfa/totp/setup: the user has TOTP from here on, verified or   *)
(* not.                                                                    *)
TOTPStart(r) ==
    /\ Arrives(r, "totp")
    /\ \E c \in Requests :
          /\ session[c] # None
          /\ req' = [req EXCEPT ![r] = [New EXCEPT !.pc = "totp_set",
                                                   !.user = session[c].user]]
    /\ UNCHANGED <<dbVars, session>>

TOTPSet(r) ==
    /\ req[r].pc = "totp_set"
    /\ SetTOTPSecret(req[r].user, r)
    /\ Return(r, "ok")
    /\ UNCHANGED session

-----------------------------------------------------------------------------
(* POST /auth/logout, or eight hours.                                      *)
SessionEnds(c) ==
    /\ "logout" \in Kinds
    /\ session[c] # None
    /\ session' = [session EXCEPT ![c] = None]
    /\ UNCHANGED <<dbVars, req>>

(* A statement fails, or the client goes away and cancels the context.     *)
Abort(r) ==
    /\ Faults
    /\ req[r].pc \in Busy
    /\ Return(r, "error")
    /\ UNCHANGED <<dbVars, session>>

(* The server restarts: sessions and requests in flight are gone, the      *)
(* database stays.                                                         *)
Restart ==
    /\ Faults
    /\ session' = [c \in Requests |-> None]
    /\ req' = [r \in Requests |->
                 IF req[r].pc \in Busy
                 THEN [New EXCEPT !.pc = "error", !.inv = req[r].inv]
                 ELSE req[r]]
    /\ UNCHANGED dbVars

-----------------------------------------------------------------------------
Signup(r) == \/ SignupUpsert(r) \/ SignupCredential(r) \/ SignupFindOrg(r)
             \/ SignupCreateOrg(r) \/ SignupMember(r) \/ SignupSession(r)

Login(r) == \/ LoginPassword(r) \/ LoginFailed(r) \/ LoginTOTP(r)
            \/ LoginCode(r) \/ LoginOrg(r) \/ LoginSession(r)
            \/ LoginRecord(r)

InviteCreate(r) == InviteAuth(r) \/ InviteRole(r) \/ InviteInsert(r)

InviteAccept(r) == \/ AcceptLookup(r) \/ AcceptUser(r) \/ AcceptMember(r)
                   \/ AcceptUse(r) \/ AcceptSession(r)

SetPassword(r) == \/ PasswordStart(r) \/ PasswordFind(r)
                  \/ PasswordUpdate(r) \/ PasswordCreate(r)

TOTPSetup(r) == TOTPStart(r) \/ TOTPSet(r)

Serve(r) == \/ Signup(r) \/ Login(r) \/ InviteCreate(r) \/ InviteAccept(r)
            \/ SetPassword(r) \/ TOTPSetup(r)

Next == \/ \E r \in Requests : \/ Serve(r)
                               \/ InviteExpires(r)
                               \/ SessionEnds(r)
                               \/ Abort(r)
        \/ Restart

Spec == Init /\ [][Next]_vars

(* A goroutine serving a request keeps running: its handler does not wait  *)
(* for any other request.  Clients need not send anything.                 *)
FairSpec == Spec /\ \A r \in Requests :
                        WF_vars(req[r].pc \in Busy /\ Serve(r))

-----------------------------------------------------------------------------
(* Every session is for an organisation its user belongs to, so the        *)
(* organisation a handler takes from a session is one the user may see:    *)
(* signup, login and acceptance record or find the membership in one       *)
(* statement and issue the session in a later one.                         *)
SessionsAreMemberships ==
    \A c \in Requests : session[c] # None =>
        members[session[c].org][session[c].user] # None

(* An organisation has at most one Owner: signups that race for a slug     *)
(* between FindOrgBySlug and CreateOrg do not both found it, and no invite *)
(* makes a second one.                                                     *)
OneOwnerPerOrg ==
    \A o \in Slugs : \A u, v \in Emails :
        members[o][u] = "Owner" /\ members[o][v] = "Owner" => u = v

(* Nobody holds a role nobody gave: a member is the Owner or was invited   *)
(* to this organisation with exactly this role.                            *)
RolesAreGranted ==
    \A o \in Slugs, u \in Emails :
        members[o][u] \in InvitableRoles =>
            \E i \in Requests : /\ invites[i] # None
                                /\ invites[i].org = o
                                /\ invites[i].email = u
                                /\ invites[i].role = members[o][u]

(* A signup is cut off between CreateOrg and EnsureMembership: the slug is  *)
(* taken and nobody belongs to it or is about to.                          *)
Abandoned(o) ==
    /\ OrgExists(o)
    /\ \A u \in Emails : members[o][u] = None
    /\ \A r \in Requests : ~(req[r].pc = "signup_member" /\ req[r].org = o)

(* An abandoned organisation stays one: whoever takes a place in an        *)
(* organisation founded it or was invited by a member, so no later signup  *)
(* for the slug, invite or session lets anybody into one that has nobody.  *)
(* The price is that its founder cannot come back either.                  *)
AbandonedStays ==
    [][\A o \in Slugs : Abandoned(o) => Abandoned(o)']_vars

(* The token of an invite is one-time: two requests do not both accept it. *)
InviteAcceptedOnce ==
    \A q, r \in Requests :
        /\ req[q].pc = "ok" /\ req[r].pc = "ok"
        /\ req[q].inv # None /\ req[q].inv = req[r].inv
        => q = r

(* An invite that has been accepted begins no other acceptance, whatever   *)
(* fails or restarts in between; one under way may still overlap.          *)
InviteSpent ==
    [][\A q, r \in Requests :
          /\ req[q].pc = "ok" /\ req[r].pc = "new"
          /\ req'[r].pc = "accept_user"
          => req'[r].inv # req[q].inv]_vars

(* After set-password has answered ok the user has the new password, with  *)
(* one exception: the look-up asks for a username and the UPDATE for a     *)
(* user, so if somebody else signed up with the user's email as username   *)
(* and the user has no credential, the answer is ok and nothing was        *)
(* written.  In no other case, whatever runs or fails in between, is a     *)
(* password that was not set reported as set.                              *)
PasswordTakesEffect ==
    [][\A r \in Requests :
          req[r].pc \in PasswordPCs /\ req'[r].pc = "ok" =>
              \/ /\ creds'[req[r].user] # None
                 /\ creds'[req[r].user].pw = req[r].pw
              \/ /\ creds'[req[r].user] = None
                 /\ \E v \in Emails : /\ creds'[v] # None
                                      /\ creds'[v].name = req[r].user]_vars

(* The race of signups for a slug has a winner: once one of them has found *)
(* the slug free, the organisation gets its Owner.                         *)
SlugRaceHasWinner ==
    \A o \in Slugs :
        (\E r \in Requests : req[r].pc = "signup_org" /\ req[r].org = o)
            ~> \E u \in Emails : members[o][u] = "Owner"
=============================================================================
