----------------------- MODULE RequestPipelineProofs ------------------------
(***************************************************************************)
(* Theorems about RequestPipeline, for any number of people, requests and  *)
(* visits, whatever fails and whenever the server restarts.  A request     *)
(* between the layers relies on what only grows: users, organisations,     *)
(* memberships and enrolments stay, and a session that has ended is not    *)
(* issued again.                                                           *)
(***************************************************************************)
EXTENDS RequestPipeline, AccountsProofs

(* What no handler takes back.                                             *)
Grows == /\ users \subseteq users'
         /\ \A o \in Slugs : OrgExists(o) => OrgExists(o)'
         /\ \A u \in Emails : totp[u] # None => totp'[u] # None
         /\ MembersKept
         /\ InvitesKept

(* Where a request may be that has been given a session.                   *)
Over == Ended \cup {"login_record"}

SessionsStay ==
    \A c \in Requests : /\ session'[c] # None => req'[c].pc \in Over
                        /\ req[c].pc \in Over =>
                              /\ req'[c].pc \in Over
                              /\ session'[c] \in {session[c], None}

SessionsOver == \A c \in Requests : session[c] # None => req[c].pc \in Over

-----------------------------------------------------------------------------
(* Every statement adds, or overwrites with a value.                       *)
LEMMA GrowsUnchanged ==
  ASSUME UNCHANGED <<users, totp, orgs, members, invites>>
  PROVE  Grows
BY DEF Grows, OrgExists, MembersKept, InvitesKept

LEMMA GrowsSignup ==
  ASSUME IInv, NEW r \in Requests, Signup(r)
  PROVE  Grows
<1> USE DEF dbVars, Grows, OrgExists, MembersKept, InvitesKept
<1>1. CASE SignupUpsert(r)
  BY <1>1 DEF SignupUpsert, UpsertUserByVerifiedEmail
<1>2. CASE SignupCredential(r)
  BY <1>2 DEF SignupCredential, CreateLocalCredential
<1>3. CASE SignupFindOrg(r)
  BY <1>3 DEF SignupFindOrg
<1>4. CASE SignupCreateOrg(r)
  <2>1. CASE CreateOrg(req[r].org)
    <3>1. orgs \in [Slugs -> Nat]
      BY DEF IInv, TypeOK, DBTypeOK
    <3>2. \A o \in Slugs : o # req[r].org => orgs'[o] = orgs[o]
      BY <2>1, <3>1 DEF CreateOrg
    <3>3. ~(orgs[req[r].org] > 0)
      BY <2>1 DEF CreateOrg
    <3> QED BY <2>1, <3>2, <3>3 DEF CreateOrg
  <2> QED BY <1>4, <2>1 DEF SignupCreateOrg
<1>5. CASE SignupMember(r)
  <2>1. /\ members \in [Slugs -> [Emails -> Roles \cup {None}]]
        /\ "Owner" # None
    BY NoneAssumption DEF IInv, TypeOK, DBTypeOK, Roles
  <2> QED BY <1>5, <2>1 DEF SignupMember, EnsureMembership
<1>6. CASE SignupSession(r)
  BY <1>6 DEF SignupSession
<1> QED BY <1>1, <1>2, <1>3, <1>4, <1>5, <1>6 DEF Signup

LEMMA GrowsAccept ==
  ASSUME IInv, NEW r \in Requests, InviteAccept(r)
  PROVE  Grows
<1> USE DEF dbVars, Grows, OrgExists, MembersKept, InvitesKept
<1>1. CASE AcceptLookup(r)
  BY <1>1 DEF AcceptLookup
<1>2. CASE AcceptUser(r)
  BY <1>2 DEF AcceptUser, UpsertUserByVerifiedEmail
<1>3. CASE AcceptMember(r)
  <2>1. /\ members \in [Slugs -> [Emails -> Roles \cup {None}]]
    BY DEF IInv, TypeOK, DBTypeOK
  <2>2. req[r].role # None
    BY <1>3, NoneAssumption DEF AcceptMember, IInv, HandlersOK, LocalsOK,
       AcceptPCs, InvitableRoles
  <2> QED BY <1>3, <2>1, <2>2 DEF AcceptMember, EnsureMembership
<1>4. CASE AcceptUse(r)
  <2>1. invites \in [Requests -> Invite \cup {None}]
    BY DEF IInv, TypeOK, DBTypeOK
  <2>2. req[r].inv \in Requests /\ invites[req[r].inv] # None
    BY <1>4 DEF AcceptUse, IInv, HandlersOK, LocalsOK, FollowsInvite, AcceptPCs
  <2>3. invites[req[r].inv] \in Invite
    BY <2>1, <2>2
  <2>4. [invites[req[r].inv] EXCEPT !.used = TRUE] \in Invite
    BY <2>3 DEF Invite
  <2>5. /\ [invites[req[r].inv] EXCEPT !.used = TRUE].org = invites[req[r].inv].org
        /\ [invites[req[r].inv] EXCEPT !.used = TRUE].email = invites[req[r].inv].email
        /\ [invites[req[r].inv] EXCEPT !.used = TRUE].role = invites[req[r].inv].role
    BY <2>3 DEF Invite
  <2>6. /\ invites' = [invites EXCEPT ![req[r].inv] =
                          [invites[req[r].inv] EXCEPT !.used = TRUE]]
        /\ UNCHANGED <<users, totp, orgs, members>>
    BY <1>4 DEF AcceptUse, UseInvite
  <2>7. InvitesKept
    BY <2>1, <2>4, <2>5, <2>6, NoneAssumption
  <2> QED BY <2>6, <2>7
<1>5. CASE AcceptSession(r)
  BY <1>5 DEF AcceptSession
<1> QED BY <1>1, <1>2, <1>3, <1>4, <1>5 DEF InviteAccept

LEMMA GrowsInvite ==
  ASSUME IInv, NEW r \in Requests, InviteCreate(r)
  PROVE  Grows
<1>1. CASE CreateInvite(r, req[r].org, req[r].email, req[r].role)
           /\ req[r].pc = "invite_insert"
  <2>1. invites \in [Requests -> Invite \cup {None}]
    BY DEF IInv, TypeOK, DBTypeOK
  <2>2. invites[r] = None
    BY <1>1 DEF IInv, InvitesOK, Ended
  <2>3. \A i \in Requests : i # r => invites'[i] = invites[i]
    BY <1>1, <2>1 DEF CreateInvite
  <2> QED BY <1>1, <2>2, <2>3 DEF CreateInvite, Grows, OrgExists, MembersKept,
             InvitesKept
<1>2. CASE UNCHANGED dbVars
  BY <1>2, GrowsUnchanged DEF dbVars
<1> QED
  BY <1>1, <1>2 DEF InviteCreate, InviteAuth, InviteRole, InviteInsert

LEMMA StepGrows == IInv /\ [Next]_vars => Grows
<1> SUFFICES ASSUME IInv, [Next]_vars PROVE Grows
  OBVIOUS
<1>1. ASSUME NEW r \in Requests, Login(r) PROVE Grows
  <2>1. UNCHANGED <<users, totp, orgs, members, invites>>
    BY <1>1 DEF Login, LoginPassword, LoginFailed, LoginTOTP, LoginCode,
       LoginOrg, LoginSession, LoginRecord, RecordLoginAttempt, dbVars
  <2> QED BY <2>1, GrowsUnchanged
<1>2. ASSUME NEW r \in Requests, SetPassword(r) PROVE Grows
  <2>1. UNCHANGED <<users, totp, orgs, members, invites>>
    BY <1>2 DEF SetPassword, PasswordStart, PasswordFind, PasswordUpdate,
       PasswordCreate, UpdateLocalPasswordHash, CreateLocalCredential, dbVars
  <2> QED BY <2>1, GrowsUnchanged
<1>3. ASSUME NEW r \in Requests, TOTPSetup(r) PROVE Grows
  <2>1. totp \in [Emails -> Requests \cup {None}] /\ r # None
    BY NoneAssumption DEF IInv, TypeOK, DBTypeOK
  <2> QED BY <1>3, <2>1 DEF TOTPSetup, TOTPStart, TOTPSet, SetTOTPSecret, dbVars,
             Grows, OrgExists, MembersKept, InvitesKept
<1>4. ASSUME NEW r \in Requests, InviteExpires(r) PROVE Grows
  <2>1. invites[r] \in Invite
    BY <1>4 DEF InviteExpires, InviteOpen, IInv, TypeOK, DBTypeOK
  <2>2. /\ [invites[r] EXCEPT !.expired = TRUE] \in Invite
        /\ [invites[r] EXCEPT !.expired = TRUE].org = invites[r].org
        /\ [invites[r] EXCEPT !.expired = TRUE].email = invites[r].email
        /\ [invites[r] EXCEPT !.expired = TRUE].role = invites[r].role
    BY <2>1 DEF Invite
  <2>3. /\ invites' = [invites EXCEPT ![r] = [invites[r] EXCEPT !.expired = TRUE]]
        /\ invites \in [Requests -> Invite \cup {None}]
        /\ UNCHANGED <<users, totp, orgs, members>>
    BY <1>4 DEF InviteExpires, IInv, TypeOK, DBTypeOK
  <2>4. InvitesKept
    BY <2>2, <2>3, NoneAssumption DEF InvitesKept
  <2> QED BY <2>3, <2>4 DEF Grows, OrgExists, MembersKept
<1>5. CASE \/ \E r \in Requests : SessionEnds(r) \/ Abort(r)
           \/ Restart
           \/ UNCHANGED vars
  <2>1. UNCHANGED <<users, totp, orgs, members, invites>>
    BY <1>5 DEF SessionEnds, Abort, Restart, dbVars, vars
  <2> QED BY <2>1, GrowsUnchanged
<1> QED
  BY <1>1, <1>2, <1>3, <1>4, <1>5, GrowsSignup, GrowsAccept, GrowsInvite
  DEF Next, Serve

-----------------------------------------------------------------------------
(* A session is issued once, at the end of its request.                    *)
LEMMA NothingIssued ==
  ASSUME SessionsOver, NEW r \in Requests, UNCHANGED session,
         \A q \in Requests \ {r} : req'[q] = req[q],
         req[r].pc \notin Over \/ req'[r].pc \in Ended
  PROVE  SessionsStay
BY DEF SessionsOver, SessionsStay, Over

LEMMA Issued ==
  ASSUME IInv, SessionsOver, NEW r \in Requests, req[r].pc \notin Over,
         NEW u, NEW o, NEW provider, SetSessionCookie(r, u, o, provider),
         \A q \in Requests \ {r} : req'[q] = req[q], req'[r].pc \in Over
  PROVE  SessionsStay
<1>1. \A c \in Requests \ {r} : session'[c] = session[c]
  BY DEF SetSessionCookie, IInv, TypeOK
<1> QED BY <1>1 DEF SessionsOver, SessionsStay

LEMMA ServeIssues ==
  ASSUME IInv, SessionsOver, NEW r \in Requests, Serve(r)
  PROVE  SessionsStay
<1> USE DEF Over, Ended
<1>0. req \in [Requests -> Request]
  BY DEF IInv, TypeOK
<1>1. CASE Signup(r)
  <2>1. CASE SignupSession(r)
    BY <1>0, <2>1, Issued, ReturnMoves DEF SignupSession
  <2>2. CASE ~SignupSession(r)
    <3>1. /\ UNCHANGED session /\ req[r].pc \notin Over
          /\ \A q \in Requests \ {r} : req'[q] = req[q]
      BY <1>0, <1>1, <2>2 DEF Signup, SignupUpsert, SignupCredential,
         SignupFindOrg, SignupCreateOrg, SignupMember, Arrives, Goto, Return
    <3> QED BY <3>1, NothingIssued
  <2> QED BY <2>1, <2>2
<1>2. CASE Login(r)
  <2>1. CASE LoginSession(r)
    <3>1. /\ req'[r].pc = "login_record"
          /\ \A q \in Requests \ {r} : req'[q] = req[q]
      BY <1>0, <2>1 DEF LoginSession, Goto, Request
    <3> QED BY <2>1, <3>1, Issued DEF LoginSession
  <2>2. CASE LoginRecord(r)
    BY <1>0, <2>2, NothingIssued, ReturnMoves DEF LoginRecord
  <2>3. CASE ~LoginSession(r) /\ ~LoginRecord(r)
    <3>1. /\ UNCHANGED session /\ req[r].pc \notin Over
          /\ \A q \in Requests \ {r} : req'[q] = req[q]
      BY <1>0, <1>2, <2>3 DEF Login, LoginPassword, LoginFailed, LoginTOTP,
         LoginCode, LoginOrg, Arrives, Goto, Return, ReturnAtOnce
    <3> QED BY <3>1, NothingIssued
  <2> QED BY <2>1, <2>2, <2>3
<1>3. CASE InviteAccept(r)
  <2>1. CASE AcceptSession(r)
    BY <1>0, <2>1, Issued, ReturnMoves DEF AcceptSession
  <2>2. CASE ~AcceptSession(r)
    <3>1. /\ UNCHANGED session /\ req[r].pc \notin Over
          /\ \A q \in Requests \ {r} : req'[q] = req[q]
      BY <1>0, <1>3, <2>2 DEF InviteAccept, AcceptLookup, AcceptUser,
         AcceptMember, AcceptUse, Arrives, Goto, Return, ReturnAtOnce
    <3> QED BY <3>1, NothingIssued
  <2> QED BY <2>1, <2>2
<1>4. CASE InviteCreate(r) \/ SetPassword(r) \/ TOTPSetup(r)
  <2>1. /\ UNCHANGED session /\ req[r].pc \notin Over
        /\ \A q \in Requests \ {r} : req'[q] = req[q]
    BY <1>0, <1>4 DEF InviteCreate, InviteAuth, InviteRole, InviteInsert,
       SetPassword, PasswordStart, PasswordFind, PasswordUpdate,
       PasswordCreate, TOTPSetup, TOTPStart, TOTPSet, Arrives, Goto, Return
  <2> QED BY <2>1, NothingIssued
<1> QED BY <1>1, <1>2, <1>3, <1>4 DEF Serve

LEMMA StepIssues == IInv /\ SessionsOver /\ [Next]_vars => SessionsStay
<1> SUFFICES ASSUME IInv, SessionsOver, [Next]_vars PROVE SessionsStay
  OBVIOUS
<1> USE DEF Over, Ended
<1>0. /\ req \in [Requests -> Request]
      /\ session \in [Requests -> Session \cup {None}]
  BY DEF IInv, TypeOK
<1>1. ASSUME NEW r \in Requests, InviteExpires(r) PROVE SessionsStay
  BY <1>1 DEF InviteExpires, SessionsStay, SessionsOver
<1>2. ASSUME NEW r \in Requests, SessionEnds(r) PROVE SessionsStay
  BY <1>0, <1>2 DEF SessionEnds, SessionsStay, SessionsOver
<1>3. ASSUME NEW r \in Requests, Abort(r) PROVE SessionsStay
  BY <1>0, <1>3, ReturnMoves, NothingIssued DEF Abort
<1>4. CASE Restart
  <2>1. \A c \in Requests : session'[c] = None
    BY <1>4 DEF Restart
  <2>2. \A c \in Requests : req[c].pc \in Over => req'[c].pc \in Over
    BY <1>0, <1>4 DEF Restart, New, Request
  <2> QED BY <2>1, <2>2 DEF SessionsStay
<1>5. CASE UNCHANGED vars
  BY <1>5 DEF vars, SessionsStay, SessionsOver
<1> QED BY <1>1, <1>2, <1>3, <1>4, <1>5, ServeIssues DEF Next

-----------------------------------------------------------------------------
(* What is named exists: members are users of organisations that exist, and*)
(* a handler about to make one a member has seen or made both.             *)
KnownOK(q) == /\ q.pc \in SignupPCs => q.user \in users
              /\ q.pc \in InvitePCs => OrgExists(q.org)
              /\ q.pc = "accept_member" => q.user \in users

ExistOK == /\ \A o \in Slugs, u \in Emails :
                 members[o][u] # None => OrgExists(o) /\ u \in users
           /\ \A i \in Requests : invites[i] # None => OrgExists(invites[i].org)
           /\ \A r \in Requests : KnownOK(req[r])

LEMMA ExistKept ==
  ASSUME IInv, ExistOK, Grows, NEW r \in Requests,
         \A q \in Requests \ {r} : req'[q] = req[q], KnownOK(req[r])',
         \A o \in Slugs, u \in Emails : members'[o][u] # None =>
             members[o][u] # None \/ (OrgExists(o)' /\ u \in users'),
         \A i \in Requests : invites'[i] # None =>
             invites[i] # None \/ OrgExists(invites[i].org)'
  PROVE  ExistOK'
<1>1. \A o \in Slugs, u \in Emails :
         members'[o][u] # None => OrgExists(o)' /\ u \in users'
  BY DEF ExistOK, Grows
<1>2. \A i \in Requests : invites[i] # None => invites[i].org \in Slugs
  BY DEF IInv, TypeOK, DBTypeOK, Invite
<1>3. ASSUME NEW i \in Requests, invites'[i] # None
      PROVE  OrgExists(invites[i].org)'
  <2>1. CASE invites[i] # None
    <3>1. OrgExists(invites[i].org) /\ invites'[i].org = invites[i].org
      BY <2>1 DEF ExistOK, Grows, InvitesKept
    <3>2. invites[i].org \in Slugs
      BY <1>2, <2>1
    <3> QED BY <3>1, <3>2 DEF Grows, OrgExists
  <2> QED BY <1>3, <2>1
<1>4. ASSUME NEW q \in Requests PROVE KnownOK(req[q])'
  <2>1. CASE q # r
    <3>1. req'[q] = req[q] /\ KnownOK(req[q]) /\ LocalsOK(req[q])
      BY <2>1 DEF ExistOK, IInv, HandlersOK
    <3> QED BY <3>1 DEF KnownOK, LocalsOK, Grows
  <2> QED BY <2>1
<1> QED BY <1>1, <1>3, <1>4 DEF ExistOK

(* The handlers that promise nothing of the kind.                          *)
LEMMA ExistElsewhere ==
  ASSUME IInv, ExistOK, Grows, NEW r \in Requests,
         \A q \in Requests \ {r} : req'[q] = req[q],
         req'[r].pc \notin SignupPCs \cup InvitePCs \cup {"accept_member"},
         UNCHANGED <<members, invites>>
  PROVE  ExistOK'
<1>1. KnownOK(req[r])'
  BY DEF KnownOK
<1> QED BY <1>1, ExistKept

LEMMA ExistSignup ==
  ASSUME IInv, ExistOK, Grows, NEW r \in Requests, Signup(r)
  PROVE  ExistOK'
<1> USE DEF SignupPCs, InvitePCs
<1>0. /\ req \in [Requests -> Request]
      /\ LocalsOK(req[r]) /\ KnownOK(req[r])
  BY DEF IInv, TypeOK, HandlersOK, ExistOK
<1>1. CASE SignupUpsert(r)
  <2>1. PICK c \in Choices, pw \in Passwords, o \in Slugs :
           /\ UpsertUserByVerifiedEmail(c[1])
           /\ req' = [req EXCEPT ![r] = [New EXCEPT !.pc = "signup_credential",
                                                    !.user = c[1], !.name = c[2],
                                                    !.pw = pw, !.org = o]]
    BY <1>1 DEF SignupUpsert
  <2>2. /\ req'[r].pc = "signup_credential" /\ req'[r].user \in users'
        /\ \A q \in Requests \ {r} : req'[q] = req[q]
        /\ UNCHANGED <<members, invites>>
    BY <1>0, <2>1 DEF UpsertUserByVerifiedEmail, New
  <2> QED BY <2>2, ExistKept DEF KnownOK
<1>2. CASE SignupSession(r)
  <2>1. /\ req'[r].pc = "ok" /\ UNCHANGED <<members, invites>>
        /\ \A q \in Requests \ {r} : req'[q] = req[q]
    BY <1>0, <1>2, ReturnMoves DEF SignupSession, dbVars, Ended
  <2> QED BY <2>1, ExistElsewhere
<1>3. CASE \/ SignupCredential(r) \/ SignupFindOrg(r) \/ SignupCreateOrg(r)
           \/ SignupMember(r)
  <2>1. req[r].pc \in SignupPCs /\ req[r].user \in users
    BY <1>0, <1>3 DEF SignupCredential, SignupFindOrg, SignupCreateOrg,
       SignupMember, KnownOK
  <2>2. /\ \A q \in Requests \ {r} : req'[q] = req[q]
        /\ KnownOK(req[r])'
    <3>1. ASSUME NEW result \in Ended, Return(r, result)
          PROVE  /\ \A q \in Requests \ {r} : req'[q] = req[q]
                 /\ KnownOK(req[r])'
      BY <1>0, <3>1, ReturnMoves DEF KnownOK, Ended
    <3>2. ASSUME NEW pc \in SignupPCs, Goto(r, pc)
          PROVE  /\ \A q \in Requests \ {r} : req'[q] = req[q]
                 /\ KnownOK(req[r])'
      <4>1. /\ req'[r].pc \in SignupPCs /\ req'[r].user = req[r].user
            /\ \A q \in Requests \ {r} : req'[q] = req[q]
        BY <1>0, <3>2 DEF Goto, Request
      <4> QED BY <2>1, <4>1 DEF KnownOK, Grows
    <3> QED
      BY <1>3, <3>1, <3>2 DEF SignupCredential, SignupFindOrg,
         SignupCreateOrg, SignupMember, Ended
  <2>3. CASE SignupMember(r)
    <3>1. /\ req[r].org \in Slugs /\ req[r].user \in Emails
          /\ OrgExists(req[r].org)
      BY <1>0, <2>3 DEF SignupMember, LocalsOK, IInv, FoundersOK
    <3>2. /\ UNCHANGED <<users, orgs, invites>>
          /\ \A o \in Slugs, u \in Emails :
                members'[o][u] = members[o][u] \/ <<o, u>> = <<req[r].org, req[r].user>>
      BY <2>3, <3>1 DEF SignupMember, EnsureMembership, IInv, TypeOK, DBTypeOK
    <3> QED BY <2>1, <2>2, <3>1, <3>2, ExistKept DEF OrgExists
  <2>4. CASE ~SignupMember(r)
    <3>1. UNCHANGED <<members, invites>>
      BY <1>3, <2>4 DEF SignupCredential, SignupFindOrg, SignupCreateOrg,
         CreateLocalCredential, CreateOrg, dbVars
    <3> QED BY <2>2, <3>1, ExistKept
  <2> QED BY <2>3, <2>4
<1> QED BY <1>1, <1>2, <1>3 DEF Signup

LEMMA ExistInvite ==
  ASSUME IInv, ExistOK, Grows, NEW r \in Requests, InviteCreate(r)
  PROVE  ExistOK'
<1> USE DEF SignupPCs, InvitePCs
<1>0. /\ req \in [Requests -> Request]
      /\ session \in [Requests -> Session \cup {None}]
      /\ LocalsOK(req[r]) /\ KnownOK(req[r])
  BY DEF IInv, TypeOK, HandlersOK, ExistOK
<1>1. CASE InviteAuth(r)
  <2>1. PICK c \in Requests, e \in Emails, role \in InvitableRoles :
           /\ session[c] # None
           /\ req' = [req EXCEPT ![r] = [New EXCEPT !.pc = "invite_role",
                                           !.user = session[c].user,
                                           !.org = session[c].org,
                                           !.email = e, !.role = role,
                                           !.cookie = c]]
    BY <1>1 DEF InviteAuth
  <2>2. session[c].org \in Slugs /\ session[c].user \in Emails
    BY <1>0, <2>1 DEF Session
  <2>3. OrgExists(session[c].org)
    BY <2>1, <2>2 DEF IInv, SessionsAreMemberships, ExistOK
  <2>4. /\ req'[r].pc = "invite_role" /\ req'[r].org = session[c].org
        /\ \A q \in Requests \ {r} : req'[q] = req[q]
    BY <1>0, <2>1 DEF New
  <2>5. UNCHANGED dbVars
    BY <1>1 DEF InviteAuth
  <2>6. KnownOK(req[r])'
    BY <2>3, <2>4, <2>5 DEF KnownOK, OrgExists, dbVars
  <2> QED BY <2>4, <2>5, <2>6, ExistKept DEF dbVars
<1>2. CASE InviteRole(r)
  <2>1. CASE Goto(r, "invite_insert")
    <3>1. /\ req'[r].pc = "invite_insert" /\ req'[r].org = req[r].org
          /\ \A q \in Requests \ {r} : req'[q] = req[q]
      BY <1>0, <2>1 DEF Goto, Request
    <3>2. OrgExists(req[r].org) /\ UNCHANGED dbVars
      BY <1>0, <1>2 DEF InviteRole, KnownOK
    <3>3. KnownOK(req[r])'
      BY <3>1, <3>2 DEF KnownOK, OrgExists, dbVars
    <3> QED BY <3>1, <3>2, <3>3, ExistKept DEF dbVars
  <2>2. CASE Return(r, "refused")
    <3>1. /\ req'[r].pc = "refused" /\ UNCHANGED <<members, invites>>
          /\ \A q \in Requests \ {r} : req'[q] = req[q]
      BY <1>0, <1>2, <2>2, ReturnMoves DEF InviteRole, dbVars, Ended
    <3> QED BY <3>1, ExistElsewhere
  <2> QED BY <1>2, <2>1, <2>2 DEF InviteRole
<1>3. CASE InviteInsert(r)
  <2>1. /\ req'[r].pc \in {"ok", "refused"}
        /\ \A q \in Requests \ {r} : req'[q] = req[q]
        /\ KnownOK(req[r])'
    BY <1>0, <1>3, ReturnMoves DEF InviteInsert, Ended, KnownOK
  <2>2. OrgExists(req[r].org) /\ req[r].org \in Slugs
    BY <1>0, <1>3 DEF InviteInsert, KnownOK, LocalsOK
  <2>3. /\ UNCHANGED <<members, orgs>>
        /\ \A i \in Requests : \/ invites'[i] = invites[i]
                               \/ invites'[i].org = req[r].org
    BY <1>3 DEF InviteInsert, CreateInvite, dbVars, IInv, TypeOK, DBTypeOK
  <2> QED BY <2>1, <2>2, <2>3, ExistKept DEF OrgExists
<1> QED BY <1>1, <1>2, <1>3 DEF InviteCreate

LEMMA ExistAccept ==
  ASSUME IInv, ExistOK, Grows, NEW r \in Requests, InviteAccept(r)
  PROVE  ExistOK'
<1> USE DEF SignupPCs, InvitePCs
<1>0. /\ req \in [Requests -> Request]
      /\ LocalsOK(req[r]) /\ KnownOK(req[r]) /\ FollowsInvite(req[r])
  BY DEF IInv, TypeOK, HandlersOK, ExistOK
<1>1. CASE AcceptUser(r)
  <2>1. /\ req'[r].pc = "accept_member" /\ req'[r].user = req[r].user
        /\ \A q \in Requests \ {r} : req'[q] = req[q]
    BY <1>0, <1>1 DEF AcceptUser, Goto, Request
  <2>2. req[r].user \in users' /\ UNCHANGED <<members, invites>>
    BY <1>1 DEF AcceptUser, UpsertUserByVerifiedEmail
  <2> QED BY <2>1, <2>2, ExistKept DEF KnownOK
<1>2. CASE AcceptMember(r)
  <2>1. /\ req'[r].pc = "accept_use"
        /\ \A q \in Requests \ {r} : req'[q] = req[q]
    BY <1>0, <1>2 DEF AcceptMember, Goto, Request
  <2>2. /\ req[r].user \in users /\ OrgExists(req[r].org)
        /\ req[r].user \in Emails /\ req[r].org \in Slugs
    BY <1>0, <1>2 DEF AcceptMember, KnownOK, FollowsInvite, LocalsOK,
       AcceptPCs, ExistOK
  <2>3. /\ UNCHANGED <<users, orgs, invites>>
        /\ \A o \in Slugs, u \in Emails :
              members'[o][u] = members[o][u] \/ <<o, u>> = <<req[r].org, req[r].user>>
    BY <1>2, <2>2 DEF AcceptMember, EnsureMembership, IInv, TypeOK, DBTypeOK
  <2>4. KnownOK(req[r])'
    BY <2>1 DEF KnownOK
  <2> QED BY <2>1, <2>2, <2>3, <2>4, ExistKept DEF OrgExists
<1>3. CASE AcceptUse(r)
  <2>1. /\ req'[r].pc = "accept_session"
        /\ \A q \in Requests \ {r} : req'[q] = req[q]
    BY <1>0, <1>3 DEF AcceptUse, Goto, Request
  <2>2. /\ UNCHANGED members
        /\ \A i \in Requests : invites'[i] # None => invites[i] # None
    BY <1>0, <1>3 DEF AcceptUse, UseInvite, FollowsInvite, AcceptPCs, IInv,
       TypeOK, DBTypeOK
  <2>3. KnownOK(req[r])'
    BY <2>1 DEF KnownOK
  <2> QED BY <2>1, <2>2, <2>3, ExistKept
<1>4. CASE AcceptLookup(r)
  <2>1. /\ req'[r].pc \in {"accept_user", "refused"}
        /\ \A q \in Requests \ {r} : req'[q] = req[q]
    <3>1. CASE ReturnAtOnce(r, "refused")
      BY <1>0, <3>1, ReturnAtOnceMoves DEF Ended
    <3>2. ASSUME NEW i \in Requests,
                 req' = [req EXCEPT ![r] = [New EXCEPT !.pc = "accept_user",
                                              !.user = invites[i].email,
                                              !.org = invites[i].org,
                                              !.role = invites[i].role,
                                              !.inv = i]]
          PROVE  /\ req'[r].pc = "accept_user"
                 /\ \A q \in Requests \ {r} : req'[q] = req[q]
      BY <1>0, <3>2 DEF New
    <3> QED BY <1>4, <3>1, <3>2 DEF AcceptLookup
  <2> QED BY <1>4, <2>1, ExistElsewhere DEF AcceptLookup, dbVars
<1>5. CASE AcceptSession(r)
  <2>1. /\ req'[r].pc = "ok"
        /\ \A q \in Requests \ {r} : req'[q] = req[q]
    BY <1>0, <1>5, ReturnMoves DEF AcceptSession, Ended
  <2> QED BY <1>5, <2>1, ExistElsewhere DEF AcceptSession, dbVars
<1> QED BY <1>1, <1>2, <1>3, <1>4, <1>5 DEF InviteAccept

LEMMA StepExist == IInv /\ ExistOK /\ [Next]_vars => ExistOK'
<1> SUFFICES ASSUME IInv, ExistOK, [Next]_vars PROVE ExistOK'
  OBVIOUS
<1>0. Grows /\ req \in [Requests -> Request]
  BY StepGrows DEF IInv, TypeOK
<1>1. ASSUME NEW r \in Requests, Login(r) \/ SetPassword(r) \/ TOTPSetup(r) \/ Abort(r)
      PROVE  ExistOK'
  <2>1. UNCHANGED <<members, invites>>
    BY <1>1 DEF Login, LoginPassword, LoginFailed, LoginTOTP, LoginCode,
       LoginOrg, LoginSession, LoginRecord, RecordLoginAttempt, SetPassword,
       PasswordStart, PasswordFind, PasswordUpdate, PasswordCreate,
       UpdateLocalPasswordHash, CreateLocalCredential, TOTPSetup, TOTPStart,
       TOTPSet, SetTOTPSecret, Abort, dbVars
  <2>2. ASSUME NEW result \in Ended, Return(r, result) \/ ReturnAtOnce(r, result)
        PROVE  ExistOK'
    <3>1. /\ req'[r].pc = result
          /\ \A q \in Requests \ {r} : req'[q] = req[q]
      BY <1>0, <2>2, ReturnMoves, ReturnAtOnceMoves
    <3> QED BY <1>0, <2>1, <3>1, ExistElsewhere DEF Ended, SignupPCs, InvitePCs
  <2>3. ASSUME NEW pc \in LoginPCs \cup PasswordPCs \cup {"totp_set"},
               req'[r].pc = pc,
               \A q \in Requests \ {r} : req'[q] = req[q]
        PROVE  ExistOK'
    BY <1>0, <2>1, <2>3, ExistElsewhere
    DEF SignupPCs, InvitePCs, LoginPCs, PasswordPCs
  <2>4. CASE Login(r)
    <3>1. \/ \E result \in Ended : Return(r, result) \/ ReturnAtOnce(r, result)
          \/ /\ req'[r].pc \in LoginPCs
             /\ \A q \in Requests \ {r} : req'[q] = req[q]
      <4>1. ASSUME NEW pc \in LoginPCs, Goto(r, pc)
            PROVE  /\ req'[r].pc \in LoginPCs
                   /\ \A q \in Requests \ {r} : req'[q] = req[q]
        BY <1>0, <4>1 DEF Goto, Request
      <4>2. CASE LoginPassword(r)
        <5>1. ASSUME NEW u, NEW n, NEW code, NEW pc \in LoginPCs,
                     req' = [req EXCEPT ![r] = [New EXCEPT !.pc = pc, !.user = u,
                                                   !.name = n, !.code = code]]
              PROVE  /\ req'[r].pc \in LoginPCs
                     /\ \A q \in Requests \ {r} : req'[q] = req[q]
          BY <1>0, <5>1 DEF New
        <5>2. "login_totp" \in LoginPCs /\ "login_failed" \in LoginPCs
          BY DEF LoginPCs
        <5>3. "refused" \in Ended
          BY DEF Ended
        <5> QED BY <4>2, <5>1, <5>2, <5>3 DEF LoginPassword
      <4>3. CASE LoginOrg(r)
        <5>1. ASSUME NEW u, NEW n, NEW o,
                     req' = [req EXCEPT ![r] = [New EXCEPT !.pc = "login_session",
                                                  !.user = u, !.name = n, !.org = o]]
              PROVE  /\ req'[r].pc \in LoginPCs
                     /\ \A q \in Requests \ {r} : req'[q] = req[q]
          BY <1>0, <5>1 DEF New, LoginPCs
        <5> QED BY <4>3, <5>1 DEF LoginOrg, Ended
      <4>4. CASE \/ LoginFailed(r) \/ LoginTOTP(r) \/ LoginCode(r)
                 \/ LoginSession(r) \/ LoginRecord(r)
        BY <4>1, <4>4 DEF LoginFailed, LoginTOTP, LoginCode, LoginSession,
           LoginRecord, Ended, LoginPCs
      <4> QED BY <2>4, <4>2, <4>3, <4>4 DEF Login
    <3> QED BY <2>2, <2>3, <3>1
  <2>5. CASE SetPassword(r)
    <3>1. \/ \E result \in Ended : Return(r, result)
          \/ /\ req'[r].pc \in PasswordPCs
             /\ \A q \in Requests \ {r} : req'[q] = req[q]
      BY <1>0, <2>5 DEF SetPassword, PasswordStart, PasswordFind, PasswordUpdate,
         PasswordCreate, Goto, Request, New, Ended, PasswordPCs
    <3> QED BY <2>2, <2>3, <3>1
  <2>6. CASE TOTPSetup(r)
    <3>1. \/ \E result \in Ended : Return(r, result)
          \/ /\ req'[r].pc = "totp_set"
             /\ \A q \in Requests \ {r} : req'[q] = req[q]
      BY <1>0, <2>6 DEF TOTPSetup, TOTPStart, TOTPSet, Request, New, Ended
    <3> QED BY <2>2, <2>3, <3>1
  <2> QED BY <1>1, <2>2, <2>4, <2>5, <2>6 DEF Abort, Ended
<1>2. CASE \/ \E r \in Requests : InviteExpires(r) \/ SessionEnds(r)
           \/ UNCHANGED vars
  <2>1. /\ UNCHANGED <<members, orgs, users, req>>
        /\ \A i \in Requests : invites'[i] # None => invites[i] # None
    BY <1>2, <1>0 DEF InviteExpires, InviteOpen, SessionEnds, vars, dbVars,
       IInv, TypeOK, DBTypeOK
  <2>2. \A i \in Requests : invites'[i] # None => OrgExists(invites[i].org)'
    BY <1>0, <2>1 DEF ExistOK, Grows, InvitesKept, OrgExists
  <2> QED BY <2>1, <2>2 DEF ExistOK, OrgExists, KnownOK
<1>3. CASE Restart
  <2>1. UNCHANGED dbVars
    BY <1>3 DEF Restart
  <2>2. \A r \in Requests : req'[r] = req[r] \/ req'[r].pc = "error"
    BY <1>0, <1>3 DEF Restart, New
  <2> QED BY <2>1, <2>2 DEF ExistOK, OrgExists, KnownOK, dbVars, SignupPCs,
             InvitePCs
<1> QED
  BY <1>0, <1>1, <1>2, <1>3, ExistSignup, ExistInvite, ExistAccept
  DEF Next, Serve

-----------------------------------------------------------------------------
(* Every step of the pipeline is a step of the account handlers, or leaves *)
(* their state alone.                                                      *)
LEMMA StepOfAccounts == [PipelineNext]_pipelineVars => [Next]_vars
<1> SUFFICES ASSUME [PipelineNext]_pipelineVars PROVE [Next]_vars
  OBVIOUS
<1>1. ASSUME NEW v \in Everyone, Layer(v) \/ Route(v) PROVE UNCHANGED vars
  BY <1>1 DEF Layer, Route, MFAEnforce, MFATOTP, RateLimitAndDenylist,
     RequireAuth, RequireAuthUser, RequireRoleAlone, TablesHandler,
     ListSessions, ListRole, List, ReadOwnSession, ProfileHandler,
     UpdateProfileHandler, LooksOn
<1>2. ASSUME NEW r \in Requests,
             AccountHandler(r) \/ AccountHandlerRefuses(r) \/ AccountAbort(r)
      PROVE  [Next]_vars
  BY <1>2 DEF AccountHandler, AccountHandlerRefuses, AccountAbort, LooksOn, Next
<1>3. CASE UNCHANGED pipelineVars
  BY <1>3 DEF pipelineVars
<1> QED
  BY <1>1, <1>2, <1>3 DEF PipelineNext, PipelineRestart, Next

(* So what is proved of the account handlers holds behind the layers.      *)
THEOREM PipelineRunsAccounts == PipelineSpec => Spec
<1>1. PipelineInit => Init
  BY DEF PipelineInit
<1> QED
  BY <1>1, StepOfAccounts, PTL DEF PipelineSpec, Spec

-----------------------------------------------------------------------------
(* Where the layers or the handler have a session in hand, and where       *)
(* MFAEnforce has let the request pass.                                    *)
Needing == {"totp", "user", "serve", "list_session", "list_role", "list",
            "profile", "update"}
Passed == {"limit", "inner", "user"} \cup Handlers

LocalWithTOTP(s) == s # None /\ s.provider = "local" => UserHasTOTP(s.user)

Cleared(w) ==
    LocalRequired /\ w.pc \in Passed /\ w.route \notin Allowed =>
        LocalWithTOTP(SessionOf(w.cookie)) /\ LocalWithTOTP(w.sess)

VisitOK(w) ==
    /\ w.pc # "missing"
    /\ w.pc \in Needing => w.sess # None
    /\ w.sess # None => members[w.sess.org][w.sess.user] # None
    /\ w.cookie # None => req[w.cookie].pc \in Over
    /\ w.pc = "totp" => w.cookie # None /\ session[w.cookie] \in {None, w.sess}
    /\ w.pc = "totp" /\ w.enrolled => UserHasTOTP(w.sess.user)
    /\ Cleared(w)

VisitsOK == /\ visit \in [Everyone -> Visit]
            /\ \A v \in Everyone : VisitOK(visit[v])

PipelineInv == IInv /\ SessionsOver /\ ExistOK /\ VisitsOK

(* Nothing the accounts do makes a request less entitled.                  *)
LEMMA VisitStays ==
  ASSUME IInv, Grows, SessionsStay, NEW w \in Visit, VisitOK(w)
  PROVE  VisitOK(w)'
<1>1. /\ w.cookie \in Requests \cup {None}
      /\ w.sess \in Session \cup {None}
      /\ w.sess # None => w.sess.org \in Slugs /\ w.sess.user \in Emails
  BY DEF Visit, Session
<1>2. \A c \in Requests : session[c] # None => session[c].user \in Emails
  BY DEF IInv, TypeOK, Session
<1>3. w.cookie # None => /\ req[w.cookie].pc \in Over
                         /\ req'[w.cookie].pc \in Over
                         /\ session'[w.cookie] \in {None, session[w.cookie]}
  BY <1>1 DEF VisitOK, SessionsStay
<1>4. w.sess # None => members'[w.sess.org][w.sess.user] # None
  BY <1>1 DEF VisitOK, Grows, MembersKept
<1>5. \A u \in Emails : UserHasTOTP(u) => totp'[u] # None
  BY DEF Grows, UserHasTOTP
<1>6. LocalWithTOTP(w.sess) => LocalWithTOTP(w.sess)'
  BY <1>1, <1>5 DEF LocalWithTOTP, UserHasTOTP
<1>7. LocalWithTOTP(SessionOf(w.cookie)) => LocalWithTOTP(SessionOf(w.cookie))'
  BY <1>1, <1>2, <1>3, <1>5 DEF LocalWithTOTP, UserHasTOTP, SessionOf
<1>8. Cleared(w)'
  BY <1>6, <1>7 DEF VisitOK, Cleared
<1>9. w.pc = "totp" /\ w.enrolled => UserHasTOTP(w.sess.user)'
  BY <1>1, <1>5 DEF VisitOK, Needing, UserHasTOTP
<1> QED
  BY <1>3, <1>4, <1>8, <1>9 DEF VisitOK

(* So it is enough to look at the request that moves.                      *)
LEMMA VisitMoves ==
  ASSUME IInv, VisitsOK, Grows, SessionsStay, NEW v \in Everyone,
         NEW w \in Visit, VisitOK(w), visit' = [visit EXCEPT ![v] = w]
  PROVE  VisitsOK'
<1>1. visit' \in [Everyone -> Visit]
  BY DEF VisitsOK
<1>2. ASSUME NEW x \in Everyone PROVE VisitOK(visit[x])'
  <2>1. CASE x = v
    <3>1. visit'[x] = w /\ VisitOK(w)'
      BY <2>1, VisitStays DEF VisitsOK
    <3> QED BY <3>1 DEF VisitOK, Cleared
  <2>2. CASE x # v
    <3>1. visit'[x] = visit[x] /\ visit[x] \in Visit /\ VisitOK(visit[x])
      BY <2>2 DEF VisitsOK
    <3>2. PICK y \in Visit : y = visit[x] /\ VisitOK(y)
      BY <3>1
    <3>3. VisitOK(y)'
      BY <3>2, VisitStays
    <3> QED BY <3>1, <3>2, <3>3 DEF VisitOK, Cleared
  <2> QED BY <2>1, <2>2
<1> QED BY <1>1, <1>2 DEF VisitsOK

LEMMA VisitTurnedAway ==
  ASSUME IInv, VisitsOK, Grows, SessionsStay, NEW v \in Everyone,
         NEW answer \in Answers \ {"missing"}, NEW failed \in BOOLEAN,
         TurnAway(v, answer, failed)
  PROVE  VisitsOK'
<1> DEFINE w == [NewVisit EXCEPT !.pc = answer, !.failed = failed]
<1>1. /\ w \in Visit /\ w.pc = answer /\ w.sess = None /\ w.cookie = None
  BY DEF NewVisit, Visit, Answers
<1>2. visit' = [visit EXCEPT ![v] = w]
  BY DEF TurnAway
<1> HIDE DEF w
<1>3. VisitOK(w)
  BY <1>1 DEF VisitOK, Cleared, Needing, Passed, Handlers, Answers
<1> QED BY <1>1, <1>2, <1>3, VisitMoves

LEMMA VisitReplied ==
  ASSUME IInv, VisitsOK, Grows, SessionsStay, NEW v \in Everyone,
         NEW answer \in Answers \ {"missing"}, Reply(v, answer)
  PROVE  VisitsOK'
BY VisitTurnedAway DEF Reply

(* A request past MFAEnforce goes on, with the session it has, or with the *)
(* one its cookie stands for, or with none.                                *)
LEMMA VisitEnters ==
  ASSUME IInv, VisitsOK, Grows, SessionsStay, NEW v \in Everyone,
         visit[v].pc \in Passed, NEW pc \in Passed,
         NEW s \in {None, ReadSession(v), visit[v].sess},
         pc \in Needing => s # None, EnterWith(v, pc, s)
  PROVE  VisitsOK'
<1> DEFINE w == [visit[v] EXCEPT !.pc = pc, !.sess = s]
<1>1. visit[v] \in Visit /\ VisitOK(visit[v])
  BY DEF VisitsOK
<1>2. ReadSession(v) \in Session \cup {None}
  BY <1>1 DEF ReadSession, SessionOf, IInv, TypeOK, Visit
<1>3. s \in Session \cup {None} /\ s # None =>
         /\ members[s.org][s.user] # None
  BY <1>1, <1>2 DEF VisitOK, ReadSession, SessionOf, Visit, IInv,
     SessionsAreMemberships
<1>4. /\ w \in Visit /\ w.pc = pc /\ w.sess = s
      /\ w.cookie = visit[v].cookie /\ w.route = visit[v].route
  BY <1>1, <1>2 DEF Visit, Passed, Layers
<1>5. visit' = [visit EXCEPT ![v] = w]
  BY <1>1 DEF EnterWith
<1> HIDE DEF w
<1>6. LocalRequired /\ w.route \notin Allowed =>
         /\ LocalWithTOTP(SessionOf(w.cookie)) /\ LocalWithTOTP(w.sess)
  BY <1>1, <1>4 DEF VisitOK, Cleared, ReadSession, LocalWithTOTP
<1>7. pc # "totp" /\ pc # "missing"
  BY DEF Passed, Handlers
<1>8. s \in Session \cup {None}
  BY <1>1, <1>2 DEF Visit
<1>9. VisitOK(w)
  BY <1>1, <1>3, <1>4, <1>6, <1>7, <1>8 DEF VisitOK, Cleared
<1> QED BY <1>4, <1>5, <1>9, VisitMoves

LEMMA VisitGoesOn ==
  ASSUME IInv, VisitsOK, Grows, SessionsStay, NEW v \in Everyone,
         visit[v].pc \in Passed, NEW pc \in Passed,
         pc \in Needing => visit[v].sess # None, Enter(v, pc)
  PROVE  VisitsOK'
<1>1. visit[v] \in Visit
  BY DEF VisitsOK
<1>2. EnterWith(v, pc, visit[v].sess)
  BY <1>1 DEF Enter, EnterWith, Visit
<1> QED BY <1>2, VisitEnters

-----------------------------------------------------------------------------
LEMMA LayerOK ==
  ASSUME IInv, SessionsOver, VisitsOK, Grows, SessionsStay,
         NEW v \in Everyone, Layer(v)
  PROVE  VisitsOK'
<1>0. visit[v] \in Visit /\ VisitOK(visit[v])
  BY DEF VisitsOK
<1>1. CASE MFAEnforce(v)
  <2>1. PICK route \in RoutesOf(v), c \in Requests \cup {None} :
           /\ c # None => SessionOf(c) # None
           /\ visit' = [visit EXCEPT ![v] =
                 [NewVisit EXCEPT
                     !.pc = IF Enforced(SessionOf(c)) THEN "totp" ELSE "limit",
                     !.route = route, !.cookie = c, !.sess = SessionOf(c),
                     !.enrolled = SessionOf(c) # None
                                     /\ UserHasTOTP(SessionOf(c).user)]]
    BY <1>1 DEF MFAEnforce
  <2> DEFINE s == SessionOf(c)
             pc == IF Enforced(s) THEN "totp" ELSE "limit"
             has == s # None /\ UserHasTOTP(s.user)
             w == [NewVisit EXCEPT !.pc = pc, !.route = route, !.cookie = c,
                                   !.sess = s, !.enrolled = has]
  <2>2. route \in AccountRoutes \cup ReadRoutes
    BY RoutesAssumption DEF RoutesOf
  <2>3. s \in Session \cup {None} /\ (c # None => s = session[c])
    BY DEF SessionOf, IInv, TypeOK
  <2>4. pc \in {"totp", "limit"} /\ has \in BOOLEAN
    OBVIOUS
  <2>5. /\ w \in Visit /\ w.pc = pc /\ w.sess = s /\ w.cookie = c
        /\ w.enrolled = has
    <3> HIDE DEF s, pc, has
    <3> QED BY <2>2, <2>3, <2>4 DEF NewVisit, Visit, Layers
  <2>6. c # None => req[c].pc \in Over /\ members[s.org][s.user] # None
    BY <2>1, <2>3 DEF SessionsOver, IInv, SessionsAreMemberships
  <2>7. s # None => c # None
    BY DEF SessionOf
  <2>8. pc = "totp" => s # None /\ c # None
    BY <2>7 DEF Enforced
  <2>9. LocalRequired /\ pc = "limit" => LocalWithTOTP(s)
    BY DEF Enforced, LocalWithTOTP
  <2>10. s = SessionOf(c) /\ (has => UserHasTOTP(s.user))
    OBVIOUS
  <2> HIDE DEF s, has, pc
  <2>11. visit' = [visit EXCEPT ![v] = w]
    BY <2>1 DEF s, has, pc
  <2> HIDE DEF w
  <2>12. VisitOK(w)
    BY <2>3, <2>4, <2>5, <2>6, <2>7, <2>8, <2>9, <2>10
    DEF VisitOK, Needing, Cleared, Passed, Handlers
  <2> QED BY <2>5, <2>11, <2>12, VisitMoves
<1>2. CASE MFATOTP(v)
  <2> DEFINE w == [visit[v] EXCEPT !.pc = "limit"]
  <2>1. visit[v].pc = "totp"
    BY <1>2 DEF MFATOTP
  <2>2. CASE /\ UserHasTOTP(visit[v].sess.user) \/ visit[v].route \in Allowed
             /\ Enter(v, "limit")
    <3>1. /\ w \in Visit /\ w.pc = "limit" /\ w.sess = visit[v].sess
          /\ w.cookie = visit[v].cookie /\ w.route = visit[v].route
      BY <1>0 DEF Visit, Layers
    <3>2. visit' = [visit EXCEPT ![v] = w]
      BY <2>2 DEF Enter
    <3> HIDE DEF w
    <3>3. SessionOf(w.cookie) \in {None, w.sess}
      BY <1>0, <2>1, <3>1 DEF VisitOK, SessionOf
    <3>4. w.route \notin Allowed =>
             LocalWithTOTP(SessionOf(w.cookie)) /\ LocalWithTOTP(w.sess)
      BY <2>2, <3>1, <3>3 DEF LocalWithTOTP
    <3>5. VisitOK(w)
      BY <1>0, <3>1, <3>4 DEF VisitOK, Needing, Cleared
    <3> QED BY <3>1, <3>2, <3>5, VisitMoves
  <2>3. CASE TurnAway(v, "mfa_required", UserHasTOTP(visit[v].sess.user))
    BY <2>3, VisitTurnedAway DEF Answers, UserHasTOTP
  <2> QED BY <1>2, <2>2, <2>3 DEF MFATOTP
<1>3. CASE RateLimitAndDenylist(v)
  <2>1. visit[v].pc \in Passed /\ "inner" \in Passed \ Needing
    BY <1>3 DEF RateLimitAndDenylist, Passed, Needing
  <2>2. CASE EnterWith(v, "inner", None)
    BY <2>1, <2>2, VisitEnters
  <2>3. CASE Reply(v, "refused")
    BY <2>3, VisitReplied DEF Answers
  <2> QED BY <1>3, <2>2, <2>3 DEF RateLimitAndDenylist
<1> QED BY <1>1, <1>2, <1>3 DEF Layer

LEMMA RouteOK ==
  ASSUME IInv, ExistOK, VisitsOK, Grows, SessionsStay,
         NEW v \in Everyone, Route(v)
  PROVE  VisitsOK'
<1> USE DEF Answers
<1>0. visit[v] \in Visit /\ VisitOK(visit[v])
  BY DEF VisitsOK
<1>1. CASE RequireAuth(v)
  <2>1. visit[v].pc \in Passed /\ "user" \in Passed
    BY <1>1 DEF RequireAuth, Passed
  <2> QED BY <1>1, <2>1, VisitReplied, VisitEnters DEF RequireAuth
<1>2. CASE RequireAuthUser(v)
  <2>1. visit[v].pc = "user" /\ visit[v].pc \in Passed /\ visit[v].sess # None
    BY <1>0, <1>2 DEF RequireAuthUser, Passed, VisitOK, Needing
  <2>2. ASSUME NEW pc \in {"serve", "list_session"}, Enter(v, pc)
        PROVE  VisitsOK'
    BY <2>1, <2>2, VisitGoesOn DEF Passed, Handlers
  <2>3. CASE TurnAway(v, "unauthorized", visit[v].sess.user \in users)
    <3>1. (visit[v].sess.user \in users) \in BOOLEAN
      OBVIOUS
    <3> QED BY <2>3, <3>1, VisitTurnedAway
  <2>4. CASE Enter(v, IF visit[v].route = "tables" THEN "serve"
                                                  ELSE "list_session")
    <3>1. CASE visit[v].route = "tables"
      <4>1. Enter(v, "serve")
        BY <2>4, <3>1
      <4> QED BY <2>2, <4>1
    <3>2. CASE visit[v].route # "tables"
      <4>1. Enter(v, "list_session")
        BY <2>4, <3>2
      <4> QED BY <2>2, <4>1
    <3> QED BY <3>1, <3>2
  <2> QED BY <1>2, <2>3, <2>4 DEF RequireAuthUser
<1>3. CASE RequireRoleAlone(v)
  BY <1>3, VisitReplied DEF RequireRoleAlone
<1>4. CASE TablesHandler(v)
  BY <1>4, VisitReplied DEF TablesHandler
<1>5. CASE ListSessions(v)
  <2>1. visit[v].pc \in Passed /\ "list_role" \in Passed
    BY <1>5 DEF ListSessions, Passed, Handlers
  <2> QED BY <1>5, <2>1, VisitReplied, VisitEnters DEF ListSessions
<1>6. CASE ListRole(v)
  <2>1. visit[v].pc \in Passed /\ visit[v].sess # None /\ "list" \in Passed
    BY <1>0, <1>6 DEF ListRole, Passed, Handlers, VisitOK, Needing
  <2> QED BY <1>6, <2>1, VisitReplied, VisitGoesOn DEF ListRole
<1>7. CASE List(v)
  BY <1>7, VisitReplied DEF List
<1>8. CASE ReadOwnSession(v)
  <2>1. visit[v].pc \in Passed
    BY <1>8 DEF ReadOwnSession, Passed
  <2>2. ASSUME NEW pc \in {"profile", "update"}, ReadSession(v) # None,
               EnterWith(v, pc, ReadSession(v))
        PROVE  VisitsOK'
    <3>1. pc \in Passed
      BY DEF Passed, Handlers
    <3> QED BY <2>1, <2>2, <3>1, VisitEnters
  <2> QED BY <1>8, <2>2, VisitReplied DEF ReadOwnSession
<1>9. CASE ProfileHandler(v)
  <2>1. /\ visit[v].sess # None
        /\ members[visit[v].sess.org][visit[v].sess.user] # None
    BY <1>0, <1>9 DEF ProfileHandler, VisitOK, Needing
  <2>2. visit[v].sess.org \in Slugs /\ visit[v].sess.user \in Emails
    BY <1>0, <2>1 DEF Visit, Session
  <2>3. /\ visit[v].sess.user \in users /\ OrgExists(visit[v].sess.org)
        /\ GetRole(visit[v].sess.org, visit[v].sess.user) # None
    BY <2>1, <2>2 DEF ExistOK, GetRole
  <2> QED BY <1>9, <2>3, VisitReplied DEF ProfileHandler
<1>10. CASE UpdateProfileHandler(v)
  BY <1>10, VisitReplied DEF UpdateProfileHandler
<1> QED
  BY <1>1, <1>2, <1>3, <1>4, <1>5, <1>6, <1>7, <1>8, <1>9, <1>10 DEF Route

LEMMA AccountHandlerOK ==
  ASSUME IInv, VisitsOK, Grows, SessionsStay, NEW r \in Requests,
         AccountHandler(r) \/ AccountHandlerRefuses(r) \/ AccountAbort(r)
  PROVE  VisitsOK'
<1> USE DEF Answers
<1>0. r \in Everyone
  BY DEF Everyone
<1>1. CASE AccountHandler(r)
  <2>1. visit[r].pc \in Passed /\ "handler" \in Passed \ Needing
    BY <1>1 DEF AccountHandler, Passed, Handlers, Needing
  <2>2. CASE UNCHANGED visit
    <3>1. visit[r] \in Visit /\ VisitOK(visit[r])
      BY <1>0 DEF VisitsOK
    <3>2. visit' = [visit EXCEPT ![r] = visit[r]]
      BY <2>2 DEF VisitsOK
    <3> QED BY <1>0, <3>1, <3>2, VisitMoves
  <2>3. CASE EnterWith(r, "handler", ReadSession(r))
    BY <1>0, <2>1, <2>3, VisitEnters
  <2>4. CASE Reply(r, "ok")
    BY <1>0, <2>4, VisitReplied
  <2> QED BY <1>1, <2>2, <2>3, <2>4 DEF AccountHandler
<1>2. CASE AccountHandlerRefuses(r) \/ AccountAbort(r)
  BY <1>0, <1>2, VisitReplied DEF AccountHandlerRefuses, AccountAbort
<1> QED BY <1>1, <1>2

LEMMA PipelineStep ==
  PipelineInv /\ [PipelineNext]_pipelineVars => PipelineInv'
<1> SUFFICES ASSUME PipelineInv, [PipelineNext]_pipelineVars PROVE PipelineInv'
  OBVIOUS
<1> USE DEF PipelineInv
<1>1. IInv' /\ Grows /\ SessionsStay /\ ExistOK'
  BY StepOfAccounts, StepInv, StepGrows, StepIssues, StepExist
<1>2. SessionsOver'
  BY <1>1 DEF SessionsStay, SessionsOver
<1> DEFINE refused == [NewVisit EXCEPT !.pc = "refused"]
<1>3. /\ refused \in Visit
      /\ refused.pc = "refused" /\ refused.sess = None /\ refused.cookie = None
  BY DEF NewVisit, Visit, Answers
<1>4. PipelineRestart =>
         visit' = [v \in Everyone |-> IF v \in Inside THEN refused
                                                      ELSE visit[v]]
  BY DEF PipelineRestart
<1> HIDE DEF refused
<1>5. ASSUME \A v \in Everyone :
               \/ visit'[v] = visit[v]
               \/ visit'[v] = refused,
             visit' \in [Everyone -> Visit]
      PROVE  VisitsOK'
  <2>1. ASSUME NEW v \in Everyone PROVE VisitOK(visit[v])'
    <3>1. CASE visit'[v] = visit[v]
      <4>1. visit[v] \in Visit /\ VisitOK(visit[v])
        BY DEF VisitsOK
      <4>2. PICK y \in Visit : y = visit[v] /\ VisitOK(y)
        BY <4>1
      <4>3. VisitOK(y)'
        BY <1>1, <4>2, VisitStays
      <4> QED BY <3>1, <4>2, <4>3 DEF VisitOK, Cleared
    <3>2. CASE visit'[v] = refused
      BY <1>3, <3>2 DEF VisitOK, Cleared, Needing, Passed, Handlers
    <3> QED BY <1>5, <3>1, <3>2
  <2> QED BY <1>5, <2>1 DEF VisitsOK
<1>6. ASSUME UNCHANGED visit PROVE VisitsOK'
  <2>1. \A v \in Everyone : visit'[v] = visit[v]
    BY <1>6
  <2>2. visit' \in [Everyone -> Visit]
    BY <1>6 DEF VisitsOK
  <2> QED BY <1>5, <2>1, <2>2
<1>7. ASSUME PipelineRestart PROVE VisitsOK'
  <2>1. /\ visit' \in [Everyone -> Visit]
        /\ \A v \in Everyone : visit'[v] = visit[v] \/ visit'[v] = refused
    BY <1>3, <1>4, <1>7 DEF VisitsOK
  <2> QED BY <1>5, <2>1
<1>8. VisitsOK'
  BY <1>1, <1>6, <1>7, LayerOK, RouteOK, AccountHandlerOK
  DEF PipelineNext, pipelineVars
<1> QED BY <1>1, <1>2, <1>8

LEMMA PipelineInitInv == PipelineInit => PipelineInv
<1> SUFFICES ASSUME PipelineInit PROVE PipelineInv
  OBVIOUS
<1>1. Init
  BY DEF PipelineInit
<1>2. IInv /\ SessionsOver
  BY <1>1, InitInv DEF Init, SessionsOver
<1>3. ExistOK
  BY <1>1 DEF Init, DBInit, New, ExistOK, KnownOK, SignupPCs, InvitePCs
<1>4. NewVisit \in Visit
  BY DEF NewVisit, Visit
<1>5. VisitsOK
  BY <1>4 DEF PipelineInit, VisitsOK, VisitOK, NewVisit, Needing, Cleared,
     Passed, Handlers
<1> QED BY <1>2, <1>3, <1>5 DEF PipelineInv

(* The invariant holds in every state of a server with its layers.         *)
THEOREM PipelineInvHolds == PipelineSpec => []PipelineInv
BY PipelineInitInv, PipelineStep, PTL DEF PipelineSpec

(* Requests between the layers keep their types, together with the account *)
(* tables and handlers they run next to.                                   *)
THEOREM PipelineTyped == PipelineSpec => []PipelineTypeOK
<1>1. PipelineInv => PipelineTypeOK
  BY DEF PipelineInv, PipelineTypeOK, IInv, VisitsOK
<1> QED BY <1>1, PipelineInvHolds, PTL

(* No handler runs for a local session without a second factor.            *)
THEOREM FactorComesFirst == PipelineSpec => []SecondFactorFirst
<1>1. PipelineInv => SecondFactorFirst
  BY DEF PipelineInv, VisitsOK, VisitOK, Cleared, Passed, LocalWithTOTP,
     SecondFactorFirst
<1> QED BY <1>1, PipelineInvHolds, PTL

(* A session names a user, an organisation and a role that are there.      *)
THEOREM ProfilesAreFound == PipelineSpec => []ProfileIsFound
<1>1. PipelineInv => ProfileIsFound
  BY DEF PipelineInv, VisitsOK, VisitOK, ProfileIsFound
<1> QED BY <1>1, PipelineInvHolds, PTL

-----------------------------------------------------------------------------
(* What a step does to the place of its own request.                       *)
LEMMA Turned ==
  ASSUME VisitsOK, NEW v \in Everyone, NEW answer, NEW failed \in BOOLEAN,
         TurnAway(v, answer, failed)
  PROVE  visit'[v].pc = answer /\ visit'[v].failed = failed
BY DEF TurnAway, NewVisit, VisitsOK

LEMMA Entered ==
  ASSUME VisitsOK, NEW v \in Everyone, NEW pc,
         Enter(v, pc) \/ \E s \in Session \cup {None} : EnterWith(v, pc, s)
  PROVE  visit'[v].pc = pc
BY DEF Enter, EnterWith, VisitsOK, Visit

(* It leaves the others where they are.                                    *)
LEMMA OthersStay ==
  ASSUME VisitsOK, NEW v \in Everyone,
         \/ Layer(v) \/ Route(v)
         \/ AccountHandler(v) \/ AccountHandlerRefuses(v) \/ AccountAbort(v),
         NEW x \in Everyone, x # v
  PROVE  visit'[x] = visit[x]
<1>1. \/ UNCHANGED visit
      \/ \E w : visit' = [visit EXCEPT ![v] = w]
  BY DEF Layer, Route, AccountHandler, AccountHandlerRefuses, AccountAbort,
     MFAEnforce, MFATOTP, RateLimitAndDenylist, RequireAuth, RequireAuthUser,
     RequireRoleAlone, TablesHandler, ListSessions, ListRole, List,
     ReadOwnSession, ProfileHandler, UpdateProfileHandler, Enter, EnterWith,
     Reply, TurnAway
<1> QED BY <1>1 DEF VisitsOK

(* Whose request moved.                                                    *)
LEMMA Moved ==
  ASSUME PipelineInv, [PipelineNext]_pipelineVars, NEW v \in Everyone,
         visit'[v].pc \notin {visit[v].pc, "refused"}
  PROVE  \/ Layer(v) \/ Route(v)
         \/ v \in Requests /\ (AccountHandler(v) \/ AccountHandlerRefuses(v))
<1>0. VisitsOK
  BY DEF PipelineInv
<1>1. visit' # visit
  OBVIOUS
<1>2. ~PipelineRestart
  BY <1>0 DEF PipelineRestart, VisitsOK, NewVisit
<1>3. ASSUME NEW r \in Requests, AccountAbort(r) PROVE r # v
  <2>1. visit'[r].pc = "refused"
    BY <1>0, <1>3, Turned DEF AccountAbort, Reply, Everyone
  <2> QED BY <2>1
<1>4. ASSUME NEW w \in Everyone,
             \/ Layer(w) \/ Route(w)
             \/ AccountHandler(w) \/ AccountHandlerRefuses(w) \/ AccountAbort(w)
      PROVE  w = v
  BY <1>0, <1>4, OthersStay
<1> QED
  BY <1>1, <1>2, <1>3, <1>4 DEF PipelineNext, pipelineVars, Everyone

LEMMA EnrolledStep ==
  PipelineInv /\ [PipelineNext]_pipelineVars =>
     \A v \in Everyone :
        visit[v].pc = "totp" /\ visit'[v].pc = "mfa_required"
          /\ visit[v].enrolled => visit'[v].failed
<1> SUFFICES ASSUME PipelineInv, [PipelineNext]_pipelineVars,
                    NEW v \in Everyone, visit[v].pc = "totp",
                    visit'[v].pc = "mfa_required", visit[v].enrolled
             PROVE  visit'[v].failed
  OBVIOUS
<1>1. VisitsOK /\ UserHasTOTP(visit[v].sess.user)
  BY DEF PipelineInv, VisitsOK, VisitOK
<1>2. MFATOTP(v)
  BY Moved DEF Layer, Route, AccountHandler, AccountHandlerRefuses, MFAEnforce,
     RateLimitAndDenylist, RequireAuth, RequireAuthUser, RequireRoleAlone,
     TablesHandler, ListSessions, ListRole, List, ReadOwnSession,
     ProfileHandler, UpdateProfileHandler
<1>3. ~Enter(v, "limit")
  BY <1>1, Entered
<1>4. TurnAway(v, "mfa_required", UserHasTOTP(visit[v].sess.user))
  BY <1>2, <1>3 DEF MFATOTP
<1>5. UserHasTOTP(visit[v].sess.user) = TRUE
  BY <1>1 DEF UserHasTOTP
<1>6. TurnAway(v, "mfa_required", TRUE)
  BY <1>4, <1>5
<1> QED BY <1>1, <1>6, Turned

(* Somebody who has enrolled gets past MFAEnforce.                         *)
THEOREM EnrolledPass == PipelineSpec => EnrolledAreAdmitted
<1>1. PipelineInv /\ [PipelineNext]_pipelineVars =>
         [\A v \in Everyone :
             /\ visit[v].pc = "totp" /\ visit'[v].pc = "mfa_required"
             /\ visit[v].enrolled
             => visit'[v].failed]_pipelineVars
  BY EnrolledStep
<1> QED
  BY <1>1, PipelineInvHolds, PTL DEF PipelineSpec, EnrolledAreAdmitted
=============================================================================
