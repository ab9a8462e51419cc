--------------------------- MODULE AccountsProofs ---------------------------
(***************************************************************************)
(* Proofs about Accounts, for any number of people, organisations and      *)
(* concurrent requests, with statements that fail and servers that         *)
(* restart.                                                                *)
(***************************************************************************)
EXTENDS Accounts, FiniteSetTheorems, TLAPS

-----------------------------------------------------------------------------
(* What a handler has put into its local variables by the time it gets to  *)
(* a statement.                                                            *)
LocalsOK(q) ==
    /\ q.pc \in SignupPCs => /\ q.user \in Emails /\ q.name \in Usernames
                             /\ q.pw \in Passwords /\ q.org \in Slugs
    /\ q.pc \in LoginPCs => q.user \in Emails /\ q.name \in Usernames
    /\ q.pc = "login_session" => q.org \in Slugs
    /\ q.pc \in InvitePCs => /\ q.user \in Emails /\ q.org \in Slugs
                             /\ q.email \in Emails /\ q.role \in InvitableRoles
                             /\ q.cookie \in Requests
    /\ q.pc \in AcceptPCs => /\ q.user \in Emails /\ q.org \in Slugs
                             /\ q.role \in InvitableRoles /\ q.inv \in Requests
    /\ q.pc \in PasswordPCs => q.user \in Emails /\ q.pw \in Passwords
    /\ q.pc = "totp_set" => q.user \in Emails

(* The handler that accepts an invite works with what the invite says.     *)
FollowsInvite(q) ==
    q.pc \in AcceptPCs => /\ invites[q.inv] # None
                          /\ invites[q.inv].org = q.org
                          /\ invites[q.inv].email = q.user
                          /\ invites[q.inv].role = q.role

(* A handler about to issue a session has seen or made the membership.     *)
JoinedPCs == {"signup_session", "login_session", "accept_use", "accept_session"}

HasJoined(q) == q.pc \in JoinedPCs => members[q.org][q.user] # None

HandlersOK == \A r \in Requests : /\ LocalsOK(req[r])
                                  /\ FollowsInvite(req[r])
                                  /\ HasJoined(req[r])

(* An invite is never for the role of Owner, and its token is written      *)
(* once, by the request that made it.                                      *)
InvitesOK ==
    /\ \A i \in Requests : invites[i] # None => invites[i].role \in InvitableRoles
    /\ \A r \in Requests : req[r].pc \notin Ended => invites[r] = None

(* Only the signup that created an organisation gets to record its Owner,  *)
(* once.                                                                   *)
FoundersOK ==
    /\ \A o \in Slugs, u \in Emails : members[o][u] = "Owner" => OrgExists(o)
    /\ \A r \in Requests : req[r].pc = "signup_member" =>
          /\ OrgExists(req[r].org)
          /\ \A u \in Emails : members[req[r].org][u] # "Owner"
    /\ \A q, r \in Requests :
          /\ req[q].pc = "signup_member" /\ req[r].pc = "signup_member"
          /\ req[q].org = req[r].org
          => q = r

IInv == /\ TypeOK
        /\ HandlersOK
        /\ InvitesOK
        /\ FoundersOK
        /\ SessionsAreMemberships
        /\ OneOwnerPerOrg
        /\ RolesAreGranted

-----------------------------------------------------------------------------
(* How a request moves on: only its own record changes, and it stays one.  *)
LEMMA GotoMoves ==
  ASSUME req \in [Requests -> Request], NEW r \in Requests,
         NEW pc \in Busy \cup Ended, Goto(r, pc)
  PROVE  /\ req' \in [Requests -> Request]
         /\ req'[r] = [req[r] EXCEPT !.pc = pc]
         /\ \A q \in Requests \ {r} : req'[q] = req[q]
BY DEF Goto, Request

LEMMA ReturnMoves ==
  ASSUME req \in [Requests -> Request], NEW r \in Requests,
         NEW result \in Ended, Return(r, result)
  PROVE  /\ req' \in [Requests -> Request]
         /\ req'[r].pc = result
         /\ \A q \in Requests \ {r} : req'[q] = req[q]
BY DEF Return, Request, New

LEMMA ReturnAtOnceMoves ==
  ASSUME req \in [Requests -> Request], NEW r \in Requests,
         NEW result \in Ended, ReturnAtOnce(r, result)
  PROVE  /\ req' \in [Requests -> Request]
         /\ req'[r].pc = result
         /\ \A q \in Requests \ {r} : req'[q] = req[q]
BY DEF ReturnAtOnce, Request

(* A request that has ended keeps no promises.                             *)
LEMMA EndedOK ==
  ASSUME NEW q, q.pc \in Ended
  PROVE  LocalsOK(q) /\ FollowsInvite(q) /\ HasJoined(q)
BY DEF LocalsOK, FollowsInvite, HasJoined, JoinedPCs, Ended, SignupPCs,
       LoginPCs, InvitePCs, AcceptPCs, PasswordPCs

(* What other handlers may do to the tables that a handler relies on: an   *)
(* invite stays what it is, and a member stays one.                        *)
InvitesKept ==
    \A i \in Requests : invites[i] # None =>
        /\ invites'[i] # None
        /\ invites'[i].org = invites[i].org
        /\ invites'[i].email = invites[i].email
        /\ invites'[i].role = invites[i].role

MembersKept ==
    \A o \in Slugs, u \in Emails : members[o][u] # None => members'[o][u] # None

(* Then what the other handlers know stays right.                          *)
LEMMA HandlersKept ==
  ASSUME IInv, NEW r \in Requests,
         \A q \in Requests \ {r} : req'[q] = req[q],
         (LocalsOK(req[r]) /\ FollowsInvite(req[r]) /\ HasJoined(req[r]))',
         InvitesKept, MembersKept
  PROVE  HandlersOK'
<1> SUFFICES ASSUME NEW q \in Requests, q # r
             PROVE  (LocalsOK(req[q]) /\ FollowsInvite(req[q])
                        /\ HasJoined(req[q]))'
  BY DEF HandlersOK
<1>1. req'[q] = req[q] /\ LocalsOK(req[q]) /\ FollowsInvite(req[q])
                       /\ HasJoined(req[q])
  BY DEF IInv, HandlersOK
<1>2. LocalsOK(req[q])'
  BY <1>1 DEF LocalsOK
<1>3. FollowsInvite(req[q])'
  BY <1>1 DEF FollowsInvite, LocalsOK, InvitesKept
<1>4. HasJoined(req[q])'
  <2> SUFFICES ASSUME req'[q].pc \in JoinedPCs
               PROVE  members'[req'[q].org][req'[q].user] # None
    BY DEF HasJoined
  <2>1. /\ req[q].org \in Slugs /\ req[q].user \in Emails
        /\ members[req[q].org][req[q].user] # None
    BY <1>1 DEF HasJoined, LocalsOK, JoinedPCs, SignupPCs, LoginPCs, AcceptPCs
  <2> QED
    BY <1>1, <2>1 DEF MembersKept
<1> QED
  BY <1>2, <1>3, <1>4

(* A step of one handler that writes neither organisations, memberships    *)
(* nor invites keeps the invariant if what the handler knows afterwards is *)
(* right and the sessions are.                                             *)
LEMMA HandlerStep ==
  ASSUME IInv, NEW r \in Requests,
         req' \in [Requests -> Request],
         \A q \in Requests \ {r} : req'[q] = req[q],
         req[r].pc \notin Ended \/ req'[r].pc \in Ended,
         req'[r].pc # "signup_member",
         LocalsOK(req'[r]), FollowsInvite(req'[r]), HasJoined(req'[r]),
         DBTypeOK', UNCHANGED <<orgs, members, invites>>,
         session' \in [Requests -> Session \cup {None}],
         SessionsAreMemberships'
  PROVE  IInv'
<1>1. TypeOK'
  BY DEF TypeOK
<1>2. HandlersOK'
  <2>1. (LocalsOK(req[r]) /\ FollowsInvite(req[r]) /\ HasJoined(req[r]))'
    BY DEF LocalsOK, FollowsInvite, HasJoined
  <2> QED
    BY <2>1, HandlersKept DEF InvitesKept, MembersKept
<1>3. InvitesOK'
  BY DEF IInv, InvitesOK
<1>4. FoundersOK'
  BY DEF IInv, FoundersOK, OrgExists
<1>5. OneOwnerPerOrg' /\ RolesAreGranted'
  BY DEF IInv, OneOwnerPerOrg, RolesAreGranted
<1> QED
  BY <1>1, <1>2, <1>3, <1>4, <1>5 DEF IInv

(* The special case of a handler that gives up.                            *)
LEMMA ReturnStep ==
  ASSUME IInv, NEW r \in Requests, NEW result \in Ended,
         Return(r, result) \/ ReturnAtOnce(r, result),
         DBTypeOK', UNCHANGED <<orgs, members, invites, session>>
  PROVE  IInv'
<1>1. /\ req' \in [Requests -> Request]
      /\ req'[r].pc = result
      /\ \A q \in Requests \ {r} : req'[q] = req[q]
  BY ReturnMoves, ReturnAtOnceMoves DEF IInv, TypeOK
<1>2. LocalsOK(req'[r]) /\ FollowsInvite(req'[r]) /\ HasJoined(req'[r])
  BY <1>1, EndedOK
<1>3. /\ session' \in [Requests -> Session \cup {None}]
      /\ SessionsAreMemberships'
  BY DEF IInv, TypeOK, SessionsAreMemberships
<1>4. req'[r].pc # "signup_member"
  BY <1>1 DEF Ended
<1> QED
  BY <1>1, <1>2, <1>3, <1>4, HandlerStep

(* ...and of one that goes on with the locals it has.                       *)
LEMMA GotoStep ==
  ASSUME IInv, NEW r \in Requests, NEW pc \in Busy \ {"signup_member"},
         req[r].pc \notin Ended, Goto(r, pc),
         LocalsOK([req[r] EXCEPT !.pc = pc]),
         FollowsInvite([req[r] EXCEPT !.pc = pc]),
         HasJoined([req[r] EXCEPT !.pc = pc]),
         DBTypeOK', UNCHANGED <<orgs, members, invites, session>>
  PROVE  IInv'
<1>1. /\ req' \in [Requests -> Request]
      /\ req'[r] = [req[r] EXCEPT !.pc = pc]
      /\ \A q \in Requests \ {r} : req'[q] = req[q]
  BY GotoMoves DEF IInv, TypeOK
<1>2. LocalsOK(req'[r]) /\ FollowsInvite(req'[r]) /\ HasJoined(req'[r])
  BY <1>1
<1>3. /\ session' \in [Requests -> Session \cup {None}]
      /\ SessionsAreMemberships'
  BY DEF IInv, TypeOK, SessionsAreMemberships
<1>4. req'[r].pc # "signup_member"
  BY <1>1 DEF IInv, TypeOK, Request
<1> QED
  BY <1>1, <1>2, <1>3, <1>4, HandlerStep

(* A handler that has joined issues its session.                           *)
LEMMA SessionStep ==
  ASSUME IInv, NEW r \in Requests, req[r].pc \in JoinedPCs,
         NEW provider \in {"local", "invite"},
         SetSessionCookie(r, req[r].user, req[r].org, provider),
         \/ Return(r, "ok")
         \/ req[r].pc = "login_session" /\ Goto(r, "login_record"),
         UNCHANGED dbVars
  PROVE  IInv'
<1>0. req \in [Requests -> Request] /\ LocalsOK(req[r])
  BY DEF IInv, TypeOK, HandlersOK
<1>1. /\ req[r].user \in Emails /\ req[r].org \in Slugs
      /\ members[req[r].org][req[r].user] # None
  BY <1>0 DEF IInv, HandlersOK, LocalsOK, HasJoined, JoinedPCs, SignupPCs,
              LoginPCs, AcceptPCs
<1>2. session' \in [Requests -> Session \cup {None}]
  BY <1>1 DEF IInv, TypeOK, SetSessionCookie, Session
<1>3. SessionsAreMemberships'
  BY <1>1 DEF IInv, TypeOK, SessionsAreMemberships, SetSessionCookie, dbVars
<1>4. DBTypeOK'
  BY DEF IInv, TypeOK, DBTypeOK, dbVars
<1>5. CASE Return(r, "ok")
  <2>1. /\ req' \in [Requests -> Request]
        /\ req'[r].pc = "ok"
        /\ \A q \in Requests \ {r} : req'[q] = req[q]
    BY <1>0, <1>5, ReturnMoves DEF Ended
  <2>2. LocalsOK(req'[r]) /\ FollowsInvite(req'[r]) /\ HasJoined(req'[r])
    BY <2>1, EndedOK DEF Ended
  <2> QED
    BY <1>2, <1>3, <1>4, <2>1, <2>2, HandlerStep DEF dbVars, Ended
<1>6. CASE req[r].pc = "login_session" /\ Goto(r, "login_record")
  <2>1. /\ req' \in [Requests -> Request]
        /\ req'[r] = [req[r] EXCEPT !.pc = "login_record"]
        /\ \A q \in Requests \ {r} : req'[q] = req[q]
    BY <1>0, <1>6, GotoMoves DEF Busy, LoginPCs
  <2>2. req[r].pc \notin Ended /\ req'[r].pc = "login_record"
    BY <1>0, <1>6, <2>1 DEF Ended, Request
  <2>3. LocalsOK(req'[r]) /\ FollowsInvite(req'[r]) /\ HasJoined(req'[r])
    BY <1>0, <1>6, <2>1
       DEF LocalsOK, FollowsInvite, HasJoined, JoinedPCs, Request, SignupPCs,
           LoginPCs, InvitePCs, AcceptPCs, PasswordPCs
  <2> QED
    BY <1>2, <1>3, <1>4, <2>1, <2>2, <2>3, HandlerStep DEF dbVars
<1> QED
  BY <1>5, <1>6

(* The initial state satisfies the invariant.                              *)
LEMMA InitInv == Init => IInv
<1> SUFFICES ASSUME Init PROVE IInv
  OBVIOUS
<1> USE DEF Init, DBInit
<1>1. TypeOK
  BY DEF TypeOK, DBTypeOK, Request, New
<1>2. HandlersOK
  BY DEF HandlersOK, LocalsOK, FollowsInvite, HasJoined, JoinedPCs, New,
         SignupPCs, LoginPCs, InvitePCs, AcceptPCs, PasswordPCs
<1>3. InvitesOK
  BY DEF InvitesOK
<1>4. FoundersOK
  BY NoneAssumption DEF FoundersOK, New, Roles
<1>5. SessionsAreMemberships /\ OneOwnerPerOrg /\ RolesAreGranted
  BY NoneAssumption DEF SessionsAreMemberships, OneOwnerPerOrg,
                        RolesAreGranted, InvitableRoles, Roles
<1> QED
  BY <1>1, <1>2, <1>3, <1>4, <1>5 DEF IInv

-----------------------------------------------------------------------------
(* A slug that is free gets a rank, and its founder is the only request    *)
(* about to make an Owner there.                                           *)
LEMMA CreateOrgRanks ==
  ASSUME DBTypeOK, NEW o \in Slugs, CreateOrg(o)
  PROVE  /\ orgs' \in [Slugs -> Nat] /\ orgs'[o] > 0
         /\ \A p \in Slugs \ {o} : orgs'[p] = orgs[p]
<1>1. IsFiniteSet({p \in Slugs : OrgExists(p)})
  BY SlugsFinite, FS_Subset
<1>2. Cardinality({p \in Slugs : OrgExists(p)}) \in Nat
  BY <1>1, FS_CardinalityType
<1> QED
  BY <1>2 DEF DBTypeOK, CreateOrg

LEMMA SignupKeeps ==
  ASSUME IInv, NEW r \in Requests, Signup(r)
  PROVE  IInv'
<1> USE DEF SignupPCs, LoginPCs, InvitePCs, AcceptPCs, PasswordPCs, JoinedPCs,
            Ended, Busy
<1>0. /\ req \in [Requests -> Request] /\ DBTypeOK
      /\ session \in [Requests -> Session \cup {None}]
      /\ LocalsOK(req[r])
  BY DEF IInv, TypeOK, HandlersOK
<1>1. CASE SignupUpsert(r)
  <2>1. PICK c \in Choices, pw \in Passwords, o \in Slugs :
           /\ UpsertUserByVerifiedEmail(c[1])
           /\ req' = [req EXCEPT ![r] = [New EXCEPT !.pc = "signup_credential",
                                                    !.user = c[1], !.name = c[2],
                                                    !.pw = pw, !.org = o]]
    BY <1>1 DEF SignupUpsert
  <2>2. c[1] \in Emails /\ c[2] \in Usernames
    BY ChoicesAssumption
  <2>3. /\ req' \in [Requests -> Request]
        /\ \A q \in Requests \ {r} : req'[q] = req[q]
        /\ req[r].pc \notin Ended /\ req'[r].pc = "signup_credential"
        /\ LocalsOK(req'[r])
    BY <1>0, <1>1, <2>1, <2>2
       DEF SignupUpsert, Arrives, Request, New, LocalsOK
  <2>4. /\ DBTypeOK' /\ SessionsAreMemberships'
        /\ UNCHANGED <<orgs, members, invites, session>>
    BY <1>0, <1>1, <2>1, <2>2
       DEF IInv, SignupUpsert, UpsertUserByVerifiedEmail, DBTypeOK,
           SessionsAreMemberships
  <2> QED
    BY <1>0, <2>3, <2>4, HandlerStep DEF FollowsInvite, HasJoined
<1>2. CASE SignupCredential(r)
  <2>1. CASE /\ CreateLocalCredential(req[r].user, req[r].name, req[r].pw)
             /\ Goto(r, "signup_find")
    <3>1. DBTypeOK' /\ UNCHANGED <<orgs, members, invites, session>>
      BY <1>0, <1>2, <2>1
         DEF SignupCredential, CreateLocalCredential, DBTypeOK, Credential,
             LocalsOK
    <3> QED
      BY <1>0, <1>2, <2>1, <3>1, GotoStep
         DEF SignupCredential, LocalsOK, FollowsInvite, HasJoined, Request
  <2>2. CASE Return(r, "refused") /\ UNCHANGED dbVars
    BY <1>0, <1>2, <2>2, ReturnStep DEF SignupCredential, dbVars, DBTypeOK
  <2> QED
    BY <1>2, <2>1, <2>2 DEF SignupCredential
<1>3. CASE SignupFindOrg(r)
  <2>1. CASE Goto(r, "signup_org")
    <3>1. DBTypeOK' /\ UNCHANGED <<orgs, members, invites, session>>
      BY <1>0, <1>3 DEF SignupFindOrg, dbVars, DBTypeOK
    <3> QED
      BY <1>0, <1>3, <2>1, <3>1, GotoStep
         DEF SignupFindOrg, LocalsOK, FollowsInvite, HasJoined, Request
  <2>2. CASE Return(r, "refused")
    BY <1>0, <1>3, <2>2, ReturnStep DEF SignupFindOrg, dbVars, DBTypeOK
  <2> QED
    BY <1>3, <2>1, <2>2 DEF SignupFindOrg
<1>4. CASE SignupCreateOrg(r)
  <2>1. CASE CreateOrg(req[r].org) /\ Goto(r, "signup_member")
    <3> DEFINE o == req[r].org
    <3>1. /\ req' \in [Requests -> Request]
          /\ req'[r] = [req[r] EXCEPT !.pc = "signup_member"]
          /\ \A q \in Requests \ {r} : req'[q] = req[q]
      BY <1>0, <2>1, GotoMoves
    <3>2. /\ req[r].pc = "signup_org" /\ o \in Slugs
          /\ req'[r].pc = "signup_member" /\ req'[r].org = o
          /\ LocalsOK(req'[r])
      BY <1>0, <1>4, <3>1 DEF SignupCreateOrg, LocalsOK, Request
    <3>3. /\ orgs' \in [Slugs -> Nat] /\ orgs'[o] > 0
          /\ \A p \in Slugs \ {o} : orgs'[p] = orgs[p]
      BY <1>0, <2>1, <3>2, CreateOrgRanks
    <3>4. /\ ~OrgExists(o)
          /\ UNCHANGED <<users, creds, totp, members, invites, attempts, session>>
      BY <1>4, <2>1 DEF SignupCreateOrg, CreateOrg
    <3>5. TypeOK'
      BY <1>0, <3>1, <3>3, <3>4 DEF TypeOK, DBTypeOK
    <3>6. HandlersOK'
      <4>1. (LocalsOK(req[r]) /\ FollowsInvite(req[r]) /\ HasJoined(req[r]))'
        BY <3>2 DEF LocalsOK, FollowsInvite, HasJoined
      <4> QED
        BY <3>1, <3>4, <4>1, HandlersKept DEF InvitesKept, MembersKept
    <3>7. InvitesOK'
      BY <3>1, <3>2, <3>4 DEF IInv, InvitesOK
    <3>8. FoundersOK'
      <4>1. \A p \in Slugs : OrgExists(p) => OrgExists(p)'
        BY <3>3 DEF OrgExists
      <4>2. \A q \in Requests : req[q].pc = "signup_member" => req[q].org # o
        BY <3>4 DEF IInv, FoundersOK
      <4>3. \A q \in Requests : req[q].pc = "signup_member" => req[q].org \in Slugs
        BY DEF IInv, HandlersOK, LocalsOK
      <4>4. \A u \in Emails : members[o][u] # "Owner"
        BY <3>2, <3>4 DEF IInv, FoundersOK
      <4>5. \A p \in Slugs, u \in Emails :
               members'[p][u] = "Owner" => OrgExists(p)'
        BY <3>4, <4>1 DEF IInv, FoundersOK
      <4>6. \A q \in Requests : req'[q].pc = "signup_member" =>
               /\ orgs'[req'[q].org] > 0
               /\ \A u \in Emails : members'[req'[q].org][u] # "Owner"
        <5> SUFFICES ASSUME NEW q \in Requests, req'[q].pc = "signup_member"
                     PROVE  /\ orgs'[req'[q].org] > 0
                            /\ \A u \in Emails :
                                  members'[req'[q].org][u] # "Owner"
          OBVIOUS
        <5>1. CASE q = r
          BY <5>1, <3>2, <3>3, <3>4, <4>4
        <5>2. CASE q # r
          BY <5>2, <3>1, <3>3, <3>4, <4>2, <4>3 DEF IInv, FoundersOK, OrgExists
        <5> QED
          BY <5>1, <5>2
      <4>7. \A p, q \in Requests :
               /\ req'[p].pc = "signup_member" /\ req'[q].pc = "signup_member"
               /\ req'[p].org = req'[q].org
               => p = q
        <5>1. \A p, q \in Requests :
                 /\ req[p].pc = "signup_member" /\ req[q].pc = "signup_member"
                 /\ req[p].org = req[q].org
                 => p = q
          BY DEF IInv, FoundersOK
        <5>2. \A q \in Requests \ {r} :
                 /\ req'[q] = req[q]
                 /\ req[q].pc = "signup_member" => req[q].org # o
          BY <3>1, <4>2
        <5>3. req'[r].org = o
          BY <3>2
        <5> QED
          BY <5>1, <5>2, <5>3
      <4> QED
        BY <4>5, <4>6, <4>7 DEF FoundersOK, OrgExists
    <3>9. SessionsAreMemberships' /\ OneOwnerPerOrg' /\ RolesAreGranted'
      BY <3>4
         DEF IInv, SessionsAreMemberships, OneOwnerPerOrg, RolesAreGranted
    <3> QED
      BY <3>5, <3>6, <3>7, <3>8, <3>9 DEF IInv
  <2>2. CASE Return(r, "error") /\ UNCHANGED dbVars
    BY <1>0, <1>4, <2>2, ReturnStep DEF SignupCreateOrg, dbVars, DBTypeOK
  <2> QED
    BY <1>4, <2>1, <2>2 DEF SignupCreateOrg
<1>5. CASE SignupMember(r)
  <2> DEFINE o == req[r].org
             u == req[r].user
  <2>1. /\ req' \in [Requests -> Request]
        /\ req'[r] = [req[r] EXCEPT !.pc = "signup_session"]
        /\ \A q \in Requests \ {r} : req'[q] = req[q]
    BY <1>0, <1>5, GotoMoves DEF SignupMember
  <2>2. /\ req[r].pc = "signup_member" /\ o \in Slugs /\ u \in Emails
        /\ req'[r].pc = "signup_session"
        /\ req'[r].org = o /\ req'[r].user = u
        /\ LocalsOK(req'[r])
    BY <1>0, <1>5, <2>1 DEF SignupMember, LocalsOK, Request
  <2>3. /\ members' = [members EXCEPT ![o][u] = "Owner"]
        /\ UNCHANGED <<users, creds, totp, orgs, invites, attempts, session>>
    BY <1>5 DEF SignupMember, EnsureMembership
  <2>4. /\ members' \in [Slugs -> [Emails -> Roles \cup {None}]]
        /\ members'[o][u] = "Owner"
        /\ \A p \in Slugs, v \in Emails :
              p # o \/ v # u => members'[p][v] = members[p][v]
    BY <1>0, <2>2, <2>3 DEF DBTypeOK, Roles
  <2>5. TypeOK'
    BY <1>0, <2>1, <2>3, <2>4 DEF TypeOK, DBTypeOK
  <2>6. HandlersOK'
    <3>1. (LocalsOK(req[r]) /\ FollowsInvite(req[r]) /\ HasJoined(req[r]))'
      BY <2>2, <2>4, NoneAssumption
         DEF LocalsOK, FollowsInvite, HasJoined, Roles
    <3>2. InvitesKept /\ MembersKept
      BY <2>2, <2>3, <2>4, NoneAssumption DEF InvitesKept, MembersKept, Roles
    <3> QED
      BY <2>1, <3>1, <3>2, HandlersKept
  <2>7. InvitesOK'
    BY <2>1, <2>2, <2>3 DEF IInv, InvitesOK
  <2>8. OrgExists(o) /\ \A v \in Emails : members[o][v] # "Owner"
    BY <2>2 DEF IInv, FoundersOK
  <2>9. FoundersOK'
    <3>1. \A q \in Requests :
             req'[q].pc = "signup_member" =>
                /\ q # r /\ req'[q] = req[q]
                /\ req[q].org \in Slugs \ {o}
      BY <2>1, <2>2 DEF IInv, FoundersOK, HandlersOK, LocalsOK
    <3> QED
      BY <2>2, <2>3, <2>4, <2>8, <3>1 DEF IInv, FoundersOK, OrgExists
  <2>10. OneOwnerPerOrg'
    BY <2>2, <2>4, <2>8 DEF IInv, OneOwnerPerOrg
  <2>11. SessionsAreMemberships'
    BY <1>0, <2>2, <2>3, <2>4, NoneAssumption
       DEF IInv, SessionsAreMemberships, Session, Roles
  <2>12. RolesAreGranted'
    BY <2>2, <2>3, <2>4 DEF IInv, RolesAreGranted, InvitableRoles
  <2> QED
    BY <2>5, <2>6, <2>7, <2>9, <2>10, <2>11, <2>12 DEF IInv
<1>6. CASE SignupSession(r)
  BY <1>0, <1>6, SessionStep DEF SignupSession, LocalsOK, HasJoined
<1> QED
  BY <1>1, <1>2, <1>3, <1>4, <1>5, <1>6 DEF Signup

LEMMA LoginKeeps ==
  ASSUME IInv, NEW r \in Requests, Login(r)
  PROVE  IInv'
<1> USE DEF SignupPCs, LoginPCs, InvitePCs, AcceptPCs, PasswordPCs, JoinedPCs,
            Ended, Busy
<1>0. /\ req \in [Requests -> Request] /\ DBTypeOK
      /\ session \in [Requests -> Session \cup {None}]
      /\ LocalsOK(req[r]) /\ FollowsInvite(req[r]) /\ HasJoined(req[r])
  BY DEF IInv, TypeOK, HandlersOK
<1>1. CASE LoginPassword(r)
  <2>1. DBTypeOK' /\ SessionsAreMemberships'
        /\ UNCHANGED <<orgs, members, invites, session>>
    BY <1>0, <1>1
       DEF IInv, LoginPassword, dbVars, DBTypeOK, SessionsAreMemberships
  <2>2. CASE ReturnAtOnce(r, "refused")
    BY <2>1, <2>2, ReturnStep
  <2>3. ASSUME NEW n \in Usernames, NEW code \in Requests \cup {None},
               NEW u \in Emails, NEW pc \in {"login_totp", "login_failed"},
               req' = [req EXCEPT ![r] = [New EXCEPT !.pc = pc, !.user = u,
                                                    !.name = n, !.code = code]]
        PROVE  IInv'
    <3>1. /\ req' \in [Requests -> Request]
          /\ \A q \in Requests \ {r} : req'[q] = req[q]
          /\ req[r].pc \notin Ended /\ req'[r].pc = pc
          /\ LocalsOK(req'[r])
      BY <1>0, <1>1, <2>3 DEF LoginPassword, Arrives, Request, New, LocalsOK
    <3> QED
      BY <1>0, <2>1, <3>1, HandlerStep DEF FollowsInvite, HasJoined
  <2> QED
    BY <1>1, <2>2, <2>3 DEF LoginPassword, HoldersOf
<1>2. CASE LoginFailed(r)
  <2>1. DBTypeOK' /\ UNCHANGED <<orgs, members, invites, session>>
    <3>1. req[r].name \in Usernames
      BY <1>0, <1>2 DEF LoginFailed, LocalsOK
    <3>2. CASE UNCHANGED dbVars
      BY <1>0, <1>2, <3>2 DEF LoginFailed, dbVars, DBTypeOK
    <3>3. CASE \E ok \in BOOLEAN : RecordLoginAttempt(req[r].name, ok)
      BY <1>0, <1>2, <3>1, <3>3
         DEF LoginFailed, RecordLoginAttempt, DBTypeOK, Attempt
    <3> QED
      BY <1>2, <3>2, <3>3 DEF LoginFailed
  <2> QED
    BY <1>2, <2>1, ReturnStep DEF LoginFailed
<1>3. CASE LoginTOTP(r)
  <2>1. DBTypeOK' /\ UNCHANGED <<orgs, members, invites, session>>
    BY <1>0, <1>3 DEF LoginTOTP, dbVars, DBTypeOK
  <2>2. ASSUME NEW pc \in {"login_code", "login_org"}, Goto(r, pc)
        PROVE  IInv'
    BY <1>0, <1>3, <2>1, <2>2, GotoStep
       DEF LoginTOTP, LocalsOK, FollowsInvite, HasJoined, Request
  <2> QED
    BY <1>3, <2>1, <2>2, ReturnStep DEF LoginTOTP
<1>4. CASE LoginCode(r)
  <2>1. DBTypeOK' /\ UNCHANGED <<orgs, members, invites, session>>
    BY <1>0, <1>4 DEF LoginCode, dbVars, DBTypeOK
  <2>2. CASE Goto(r, "login_org")
    BY <1>0, <1>4, <2>1, <2>2, GotoStep
       DEF LoginCode, LocalsOK, FollowsInvite, HasJoined, Request
  <2> QED
    BY <1>4, <2>1, <2>2, ReturnStep DEF LoginCode
<1>5. CASE LoginOrg(r)
  <2>1. DBTypeOK' /\ SessionsAreMemberships'
        /\ UNCHANGED <<orgs, members, invites, session>>
    BY <1>0, <1>5
       DEF IInv, LoginOrg, dbVars, DBTypeOK, SessionsAreMemberships
  <2>2. ASSUME NEW o \in PickUserOrg(req[r].user),
               req' = [req EXCEPT ![r] = [New EXCEPT !.pc = "login_session",
                                                    !.user = req[r].user,
                                                    !.name = req[r].name,
                                                    !.org = o]]
        PROVE  IInv'
    <3>1. o \in Slugs /\ members[o][req[r].user] # None
      BY DEF PickUserOrg
    <3>2. /\ req' \in [Requests -> Request]
          /\ \A q \in Requests \ {r} : req'[q] = req[q]
          /\ req[r].pc \notin Ended /\ req'[r].pc = "login_session"
          /\ req'[r].org = o /\ req'[r].user = req[r].user
          /\ LocalsOK(req'[r])
      BY <1>0, <1>5, <2>2, <3>1 DEF LoginOrg, Request, New, LocalsOK
    <3> QED
      BY <1>0, <2>1, <3>1, <3>2, HandlerStep DEF FollowsInvite, HasJoined
  <2> QED
    BY <1>5, <2>1, <2>2, ReturnStep DEF LoginOrg
<1>6. CASE LoginSession(r)
  BY <1>0, <1>6, SessionStep DEF LoginSession
<1>7. CASE LoginRecord(r)
  <2>1. DBTypeOK' /\ UNCHANGED <<orgs, members, invites, session>>
    <3>1. req[r].name \in Usernames
      BY <1>0, <1>7 DEF LoginRecord, LocalsOK
    <3>2. CASE UNCHANGED dbVars
      BY <1>0, <1>7, <3>2 DEF LoginRecord, dbVars, DBTypeOK
    <3>3. CASE \E ok \in BOOLEAN : RecordLoginAttempt(req[r].name, ok)
      BY <1>0, <1>7, <3>1, <3>3
         DEF LoginRecord, RecordLoginAttempt, DBTypeOK, Attempt
    <3> QED
      BY <1>7, <3>2, <3>3 DEF LoginRecord
  <2> QED
    BY <1>7, <2>1, ReturnStep DEF LoginRecord
<1> QED
  BY <1>1, <1>2, <1>3, <1>4, <1>5, <1>6, <1>7 DEF Login

LEMMA SetPasswordKeeps ==
  ASSUME IInv, NEW r \in Requests, SetPassword(r)
  PROVE  IInv'
<1> USE DEF SignupPCs, LoginPCs, InvitePCs, AcceptPCs, PasswordPCs, JoinedPCs,
            Ended, Busy
<1>0. /\ req \in [Requests -> Request] /\ DBTypeOK
      /\ session \in [Requests -> Session \cup {None}]
      /\ LocalsOK(req[r]) /\ FollowsInvite(req[r]) /\ HasJoined(req[r])
  BY DEF IInv, TypeOK, HandlersOK
<1>1. CASE PasswordStart(r)
  <2>1. PICK c \in Requests, pw \in Passwords :
           /\ session[c] # None
           /\ req' = [req EXCEPT ![r] = [New EXCEPT !.pc = "password_find",
                                                    !.user = session[c].user,
                                                    !.pw = pw]]
    BY <1>1 DEF PasswordStart
  <2>2. session[c].user \in Emails
    BY <1>0, <2>1 DEF Session
  <2>3. /\ req' \in [Requests -> Request]
        /\ \A q \in Requests \ {r} : req'[q] = req[q]
        /\ req[r].pc \notin Ended /\ req'[r].pc = "password_find"
        /\ LocalsOK(req'[r])
    BY <1>0, <1>1, <2>1, <2>2
       DEF PasswordStart, Arrives, Request, New, LocalsOK
  <2>4. DBTypeOK' /\ SessionsAreMemberships'
        /\ UNCHANGED <<orgs, members, invites, session>>
    BY <1>0, <1>1
       DEF IInv, PasswordStart, dbVars, DBTypeOK, SessionsAreMemberships
  <2> QED
    BY <1>0, <2>3, <2>4, HandlerStep DEF FollowsInvite, HasJoined
<1>2. CASE PasswordFind(r)
  <2>1. DBTypeOK' /\ UNCHANGED <<orgs, members, invites, session>>
    BY <1>0, <1>2 DEF PasswordFind, dbVars, DBTypeOK
  <2>2. ASSUME NEW pc \in {"password_update", "password_create"}, Goto(r, pc)
        PROVE  IInv'
    BY <1>0, <1>2, <2>1, <2>2, GotoStep
       DEF PasswordFind, LocalsOK, FollowsInvite, HasJoined, Request
  <2> QED
    BY <1>2, <2>2 DEF PasswordFind
<1>3. CASE PasswordUpdate(r)
  <2>1. DBTypeOK' /\ UNCHANGED <<orgs, members, invites, session>>
    BY <1>0, <1>3
       DEF PasswordUpdate, UpdateLocalPasswordHash, DBTypeOK, Credential,
           LocalsOK
  <2> QED
    BY <1>3, <2>1, ReturnStep DEF PasswordUpdate
<1>4. CASE PasswordCreate(r)
  <2>1. DBTypeOK' /\ UNCHANGED <<orgs, members, invites, session>>
    BY <1>0, <1>4
       DEF PasswordCreate, CreateLocalCredential, DBTypeOK, Credential,
           Usernames, LocalsOK, dbVars
  <2> QED
    BY <1>4, <2>1, ReturnStep DEF PasswordCreate
<1> QED
  BY <1>1, <1>2, <1>3, <1>4 DEF SetPassword

LEMMA TOTPSetupKeeps ==
  ASSUME IInv, NEW r \in Requests, TOTPSetup(r)
  PROVE  IInv'
<1> USE DEF SignupPCs, LoginPCs, InvitePCs, AcceptPCs, PasswordPCs, JoinedPCs,
            Ended, Busy
<1>0. /\ req \in [Requests -> Request] /\ DBTypeOK
      /\ session \in [Requests -> Session \cup {None}]
      /\ LocalsOK(req[r]) /\ FollowsInvite(req[r]) /\ HasJoined(req[r])
  BY DEF IInv, TypeOK, HandlersOK
<1>1. CASE TOTPStart(r)
  <2>1. PICK c \in Requests :
           /\ session[c] # None
           /\ req' = [req EXCEPT ![r] = [New EXCEPT !.pc = "totp_set",
                                                    !.user = session[c].user]]
    BY <1>1 DEF TOTPStart
  <2>2. session[c].user \in Emails
    BY <1>0, <2>1 DEF Session
  <2>3. /\ req' \in [Requests -> Request]
        /\ \A q \in Requests \ {r} : req'[q] = req[q]
        /\ req[r].pc \notin Ended /\ req'[r].pc = "totp_set"
        /\ LocalsOK(req'[r])
    BY <1>0, <1>1, <2>1, <2>2 DEF TOTPStart, Arrives, Request, New, LocalsOK
  <2>4. DBTypeOK' /\ SessionsAreMemberships'
        /\ UNCHANGED <<orgs, members, invites, session>>
    BY <1>0, <1>1
       DEF IInv, TOTPStart, dbVars, DBTypeOK, SessionsAreMemberships
  <2> QED
    BY <1>0, <2>3, <2>4, HandlerStep DEF FollowsInvite, HasJoined
<1>2. CASE TOTPSet(r)
  <2>1. DBTypeOK' /\ UNCHANGED <<orgs, members, invites, session>>
    BY <1>0, <1>2 DEF TOTPSet, SetTOTPSecret, DBTypeOK, LocalsOK
  <2> QED
    BY <1>2, <2>1, ReturnStep DEF TOTPSet
<1> QED
  BY <1>1, <1>2 DEF TOTPSetup

(* A grant stays on record.                                                *)
LEMMA GrantsKept ==
  ASSUME IInv, InvitesKept, UNCHANGED members
  PROVE  RolesAreGranted'
<1> SUFFICES ASSUME NEW o \in Slugs, NEW u \in Emails,
                    members[o][u] \in InvitableRoles
             PROVE  \E i \in Requests : /\ invites'[i] # None
                                        /\ invites'[i].org = o
                                        /\ invites'[i].email = u
                                        /\ invites'[i].role = members[o][u]
  BY DEF RolesAreGranted
<1>1. PICK i \in Requests : /\ invites[i] # None
                            /\ invites[i].org = o
                            /\ invites[i].email = u
                            /\ invites[i].role = members[o][u]
  BY DEF IInv, RolesAreGranted
<1> QED
  BY <1>1 DEF InvitesKept

(* A step that writes invites keeps the invariant if those there were stay *)
(* what they are.                                                          *)
LEMMA InviteStep ==
  ASSUME IInv, NEW r \in Requests,
         req' \in [Requests -> Request],
         \A q \in Requests \ {r} : req'[q] = req[q],
         req'[r].pc # "signup_member",
         (LocalsOK(req[r]) /\ FollowsInvite(req[r]) /\ HasJoined(req[r]))',
         invites' \in [Requests -> Invite \cup {None}], InvitesKept, InvitesOK',
         UNCHANGED <<users, creds, totp, orgs, members, attempts, session>>
  PROVE  IInv'
<1>1. TypeOK'
  BY DEF IInv, TypeOK, DBTypeOK
<1>2. HandlersOK'
  BY HandlersKept DEF MembersKept
<1>3. FoundersOK'
  BY DEF IInv, FoundersOK, OrgExists
<1>4. SessionsAreMemberships' /\ OneOwnerPerOrg'
  BY DEF IInv, SessionsAreMemberships, OneOwnerPerOrg
<1>5. RolesAreGranted'
  BY GrantsKept
<1> QED
  BY <1>1, <1>2, <1>3, <1>4, <1>5 DEF IInv

(* An invite that is marked as used or expired is the same invite.         *)
LEMMA InviteFlag ==
  ASSUME DBTypeOK, NEW i \in Requests, invites[i] # None,
         \/ invites' = [invites EXCEPT ![i].used = TRUE]
         \/ invites' = [invites EXCEPT ![i].expired = TRUE]
  PROVE  /\ invites' \in [Requests -> Invite \cup {None}]
         /\ InvitesKept
         /\ \A j \in Requests : invites[j] = None <=> invites'[j] = None
<1>1. /\ invites \in [Requests -> Invite \cup {None}]
      /\ invites[i] \in Invite
  BY DEF DBTypeOK
<1>2. /\ invites'[i] \in Invite
      /\ invites'[i].org = invites[i].org
      /\ invites'[i].email = invites[i].email
      /\ invites'[i].role = invites[i].role
      /\ \A j \in Requests \ {i} : invites'[j] = invites[j]
  BY <1>1 DEF Invite
<1>3. invites' \in [Requests -> Invite \cup {None}]
  BY <1>1, <1>2
<1>4. None \notin Invite
  BY NoneAssumption
<1> QED
  BY <1>1, <1>2, <1>3, <1>4 DEF InvitesKept

LEMMA InviteCreateKeeps ==
  ASSUME IInv, NEW r \in Requests, InviteCreate(r)
  PROVE  IInv'
<1> USE DEF SignupPCs, LoginPCs, InvitePCs, AcceptPCs, PasswordPCs, JoinedPCs,
            Ended, Busy
<1>0. /\ req \in [Requests -> Request] /\ DBTypeOK
      /\ session \in [Requests -> Session \cup {None}]
      /\ LocalsOK(req[r]) /\ FollowsInvite(req[r]) /\ HasJoined(req[r])
  BY DEF IInv, TypeOK, HandlersOK
<1>1. CASE InviteAuth(r)
  <2>1. PICK c \in Requests, e \in Emails, role \in InvitableRoles :
           /\ session[c] # None
           /\ req' = [req EXCEPT ![r] = [New EXCEPT !.pc = "invite_role",
                                           !.user = session[c].user,
                                           !.org = session[c].org,
                                           !.email = e, !.role = role,
                                           !.cookie = c]]
    BY <1>1 DEF InviteAuth
  <2>2. session[c].user \in Emails /\ session[c].org \in Slugs
    BY <1>0, <2>1 DEF Session
  <2>3. /\ req' \in [Requests -> Request]
        /\ \A q \in Requests \ {r} : req'[q] = req[q]
        /\ req[r].pc \notin Ended /\ req'[r].pc = "invite_role"
        /\ LocalsOK(req'[r])
    BY <1>0, <1>1, <2>1, <2>2
       DEF InviteAuth, Arrives, Request, New, LocalsOK, InvitableRoles
  <2>4. DBTypeOK' /\ SessionsAreMemberships'
        /\ UNCHANGED <<orgs, members, invites, session>>
    BY <1>0, <1>1
       DEF IInv, InviteAuth, dbVars, DBTypeOK, SessionsAreMemberships
  <2> QED
    BY <1>0, <2>3, <2>4, HandlerStep DEF FollowsInvite, HasJoined
<1>2. CASE InviteRole(r)
  <2>1. DBTypeOK' /\ UNCHANGED <<orgs, members, invites, session>>
    BY <1>0, <1>2 DEF InviteRole, dbVars, DBTypeOK
  <2>2. CASE Goto(r, "invite_insert")
    BY <1>0, <1>2, <2>1, <2>2, GotoStep
       DEF InviteRole, LocalsOK, FollowsInvite, HasJoined, Request
  <2> QED
    BY <1>2, <2>1, <2>2, ReturnStep DEF InviteRole
<1>3. CASE InviteInsert(r)
  <2>1. CASE /\ CreateInvite(r, req[r].org, req[r].email, req[r].role)
             /\ Return(r, "ok")
    <3> DEFINE inv == [org |-> req[r].org, email |-> req[r].email,
                       role |-> req[r].role, used |-> FALSE, expired |-> FALSE]
    <3>1. inv \in Invite /\ inv.role \in InvitableRoles
      BY <1>0, <1>3 DEF InviteInsert, LocalsOK, Invite, InvitableRoles
    <3>2. /\ invites' = [invites EXCEPT ![r] = inv]
          /\ UNCHANGED <<users, creds, totp, orgs, members, attempts, session>>
      BY <1>3, <2>1 DEF InviteInsert, CreateInvite
    <3> HIDE DEF inv
    <3>3. /\ req' \in [Requests -> Request]
          /\ req'[r].pc = "ok"
          /\ \A q \in Requests \ {r} : req'[q] = req[q]
      BY <1>0, <2>1, ReturnMoves
    <3>4. (LocalsOK(req[r]) /\ FollowsInvite(req[r]) /\ HasJoined(req[r]))'
      BY <3>3 DEF LocalsOK, FollowsInvite, HasJoined
    <3>5. invites[r] = None
      BY <1>0, <1>3 DEF IInv, InvitesOK, InviteInsert
    <3>6. /\ invites' \in [Requests -> Invite \cup {None}]
          /\ invites'[r] = inv
          /\ \A i \in Requests \ {r} : invites'[i] = invites[i]
      BY <1>0, <3>1, <3>2 DEF DBTypeOK
    <3>7. InvitesKept
      BY <3>5, <3>6 DEF InvitesKept
    <3>8. InvitesOK'
      BY <3>1, <3>3, <3>6 DEF IInv, InvitesOK
    <3> QED
      BY <3>2, <3>3, <3>4, <3>6, <3>7, <3>8, InviteStep
  <2>2. CASE Return(r, "refused") /\ UNCHANGED dbVars
    BY <1>0, <1>3, <2>2, ReturnStep DEF InviteInsert, dbVars, DBTypeOK
  <2> QED
    BY <1>3, <2>1, <2>2 DEF InviteInsert
<1> QED
  BY <1>1, <1>2, <1>3 DEF InviteCreate

LEMMA InviteAcceptKeeps ==
  ASSUME IInv, NEW r \in Requests, InviteAccept(r)
  PROVE  IInv'
<1> USE DEF SignupPCs, LoginPCs, InvitePCs, AcceptPCs, PasswordPCs, JoinedPCs,
            Ended, Busy
<1>0. /\ req \in [Requests -> Request] /\ DBTypeOK
      /\ session \in [Requests -> Session \cup {None}]
      /\ LocalsOK(req[r]) /\ FollowsInvite(req[r]) /\ HasJoined(req[r])
  BY DEF IInv, TypeOK, HandlersOK
<1>1. CASE AcceptLookup(r)
  <2>1. DBTypeOK' /\ SessionsAreMemberships'
        /\ UNCHANGED <<orgs, members, invites, session>>
    BY <1>0, <1>1
       DEF IInv, AcceptLookup, dbVars, DBTypeOK, SessionsAreMemberships
  <2>2. CASE ReturnAtOnce(r, "refused")
    BY <2>1, <2>2, ReturnStep
  <2>3. ASSUME NEW i \in Requests, InviteOpen(i),
               req' = [req EXCEPT ![r] = [New EXCEPT !.pc = "accept_user",
                                            !.user = invites[i].email,
                                            !.org = invites[i].org,
                                            !.role = invites[i].role,
                                            !.inv = i]]
        PROVE  IInv'
    <3>1. /\ invites[i] # None /\ invites[i] \in Invite
          /\ invites[i].role \in InvitableRoles
      BY <1>0, <2>3 DEF IInv, InvitesOK, InviteOpen, DBTypeOK
    <3>2. /\ invites[i].email \in Emails /\ invites[i].org \in Slugs
          /\ invites[i].role \in Roles
      BY <3>1 DEF Invite
    <3>3. /\ req' \in [Requests -> Request]
          /\ \A q \in Requests \ {r} : req'[q] = req[q]
          /\ req[r].pc \notin Ended /\ req'[r].pc = "accept_user"
          /\ LocalsOK(req'[r])
      BY <1>0, <1>1, <2>3, <3>1, <3>2
         DEF AcceptLookup, Arrives, Request, New, LocalsOK
    <3>4. FollowsInvite(req'[r])
      BY <1>0, <2>3, <3>1 DEF FollowsInvite, New
    <3> QED
      BY <1>0, <2>1, <3>3, <3>4, HandlerStep DEF HasJoined
  <2> QED
    BY <1>1, <2>2, <2>3 DEF AcceptLookup
<1>2. CASE AcceptUser(r)
  <2>1. DBTypeOK' /\ UNCHANGED <<orgs, members, invites, session>>
    BY <1>0, <1>2
       DEF AcceptUser, UpsertUserByVerifiedEmail, DBTypeOK, LocalsOK
  <2> QED
    BY <1>0, <1>2, <2>1, GotoStep
       DEF AcceptUser, LocalsOK, FollowsInvite, HasJoined, Request
<1>3. CASE AcceptMember(r)
  <2> DEFINE o == req[r].org
             u == req[r].user
             role == req[r].role
  <2>1. /\ req' \in [Requests -> Request]
        /\ req'[r] = [req[r] EXCEPT !.pc = "accept_use"]
        /\ \A q \in Requests \ {r} : req'[q] = req[q]
    BY <1>0, <1>3, GotoMoves DEF AcceptMember
  <2>2. /\ req[r].pc = "accept_member" /\ o \in Slugs /\ u \in Emails
        /\ role \in InvitableRoles
        /\ req[r].inv \in Requests
        /\ req'[r].pc = "accept_use"
        /\ req'[r].org = o /\ req'[r].user = u
        /\ req'[r].role = role /\ req'[r].inv = req[r].inv
        /\ LocalsOK(req'[r])
    BY <1>0, <1>3, <2>1 DEF AcceptMember, LocalsOK, Request
  <2>3. /\ members' = [members EXCEPT ![o][u] = role]
        /\ UNCHANGED <<users, creds, totp, orgs, invites, attempts, session>>
    BY <1>3 DEF AcceptMember, EnsureMembership
  <2>4. /\ members' \in [Slugs -> [Emails -> Roles \cup {None}]]
        /\ members'[o][u] = role /\ role # None /\ role # "Owner"
        /\ \A p \in Slugs, v \in Emails :
              p # o \/ v # u => members'[p][v] = members[p][v]
    BY <1>0, <2>2, <2>3, NoneAssumption DEF DBTypeOK, InvitableRoles, Roles
  <2>5. /\ invites[req[r].inv] # None
        /\ invites[req[r].inv].org = o
        /\ invites[req[r].inv].email = u
        /\ invites[req[r].inv].role = role
    BY <1>0, <2>2 DEF FollowsInvite
  <2>6. TypeOK'
    BY <1>0, <2>1, <2>3, <2>4 DEF TypeOK, DBTypeOK
  <2>7. HandlersOK'
    <3>1. (LocalsOK(req[r]) /\ FollowsInvite(req[r]) /\ HasJoined(req[r]))'
      BY <2>2, <2>3, <2>4, <2>5 DEF LocalsOK, FollowsInvite, HasJoined
    <3>2. InvitesKept /\ MembersKept
      BY <2>2, <2>3, <2>4 DEF InvitesKept, MembersKept
    <3> QED
      BY <2>1, <3>1, <3>2, HandlersKept
  <2>8. InvitesOK'
    BY <2>1, <2>2, <2>3 DEF IInv, InvitesOK
  <2>9. FoundersOK'
    <3>1. \A q \in Requests : req'[q].pc = "signup_member" =>
             /\ q # r /\ req'[q] = req[q]
             /\ req[q].org \in Slugs
      BY <2>1, <2>2 DEF IInv, HandlersOK, LocalsOK
    <3>2. \A p \in Slugs, v \in Emails :
             members'[p][v] = "Owner" => members[p][v] = "Owner"
      BY <2>2, <2>4
    <3> QED
      BY <2>3, <3>1, <3>2 DEF IInv, FoundersOK, OrgExists
  <2>10. OneOwnerPerOrg'
    BY <2>2, <2>4 DEF IInv, OneOwnerPerOrg
  <2>11. SessionsAreMemberships'
    BY <1>0, <2>2, <2>3, <2>4 DEF IInv, SessionsAreMemberships, Session
  <2>12. RolesAreGranted'
    BY <2>2, <2>3, <2>4, <2>5 DEF IInv, RolesAreGranted
  <2> QED
    BY <2>6, <2>7, <2>8, <2>9, <2>10, <2>11, <2>12 DEF IInv
<1>4. CASE AcceptUse(r)
  <2> DEFINE i == req[r].inv
  <2>1. /\ req' \in [Requests -> Request]
        /\ req'[r] = [req[r] EXCEPT !.pc = "accept_session"]
        /\ \A q \in Requests \ {r} : req'[q] = req[q]
    BY <1>0, <1>4, GotoMoves DEF AcceptUse
  <2>2. /\ req[r].pc = "accept_use" /\ i \in Requests
        /\ invites[i] # None
        /\ req'[r].pc = "accept_session"
    BY <1>0, <1>4, <2>1 DEF AcceptUse, LocalsOK, FollowsInvite, Request
  <2>3. /\ invites' = [invites EXCEPT ![i].used = TRUE]
        /\ UNCHANGED <<users, creds, totp, orgs, members, attempts, session>>
    BY <1>4 DEF AcceptUse, UseInvite
  <2>4. /\ invites' \in [Requests -> Invite \cup {None}]
        /\ InvitesKept
        /\ \A j \in Requests : invites[j] = None <=> invites'[j] = None
    BY <1>0, <2>2, <2>3, InviteFlag
  <2>5. InvitesOK'
    BY <2>1, <2>2, <2>4 DEF IInv, InvitesOK, InvitesKept
  <2>6. (LocalsOK(req[r]) /\ FollowsInvite(req[r]) /\ HasJoined(req[r]))'
    BY <1>0, <2>1, <2>2, <2>3, <2>4
       DEF LocalsOK, FollowsInvite, HasJoined, InvitesKept, Request
  <2> QED
    BY <2>1, <2>2, <2>3, <2>4, <2>5, <2>6, InviteStep
<1>5. CASE AcceptSession(r)
  BY <1>0, <1>5, SessionStep DEF AcceptSession
<1> QED
  BY <1>1, <1>2, <1>3, <1>4, <1>5 DEF InviteAccept

LEMMA InviteExpiresKeeps ==
  ASSUME IInv, NEW i \in Requests, InviteExpires(i)
  PROVE  IInv'
<1>1. /\ invites[i] # None
      /\ invites' = [invites EXCEPT ![i].expired = TRUE]
      /\ UNCHANGED <<users, creds, totp, orgs, members, attempts, req, session>>
  BY DEF InviteExpires, InviteOpen
<1>2. /\ invites' \in [Requests -> Invite \cup {None}]
      /\ InvitesKept
      /\ \A j \in Requests : invites[j] = None <=> invites'[j] = None
  BY <1>1, InviteFlag DEF IInv, TypeOK
<1>3. TypeOK'
  BY <1>1, <1>2 DEF IInv, TypeOK, DBTypeOK
<1>4. InvitesOK'
  BY <1>1, <1>2 DEF IInv, InvitesOK, InvitesKept
<1>5. (LocalsOK(req[i]) /\ FollowsInvite(req[i]) /\ HasJoined(req[i]))'
  BY <1>1, <1>2
     DEF IInv, HandlersOK, LocalsOK, FollowsInvite, HasJoined, InvitesKept
<1>6. HandlersOK'
  BY <1>1, <1>2, <1>5, HandlersKept DEF MembersKept
<1>7. FoundersOK'
  BY <1>1 DEF IInv, FoundersOK, OrgExists
<1>8. SessionsAreMemberships' /\ OneOwnerPerOrg'
  BY <1>1 DEF IInv, SessionsAreMemberships, OneOwnerPerOrg
<1>9. RolesAreGranted'
  BY <1>1, <1>2, GrantsKept
<1> QED
  BY <1>3, <1>4, <1>6, <1>7, <1>8, <1>9 DEF IInv

(* A session that ends, or every session and every request in flight: what *)
(* is left was right before.                                               *)
LEMMA EndKeeps ==
  ASSUME IInv, UNCHANGED dbVars,
         \A r \in Requests :
            \/ req'[r] = req[r]
            \/ req'[r] \in Request /\ req'[r].pc \in Ended,
         req' \in [Requests -> Request],
         session' \in [Requests -> Session \cup {None}],
         \A c \in Requests : session'[c] = None \/ session'[c] = session[c]
  PROVE  IInv'
<1>1. TypeOK'
  BY DEF IInv, TypeOK, DBTypeOK, dbVars
<1>2. HandlersOK'
  <2> SUFFICES ASSUME NEW r \in Requests
               PROVE  (LocalsOK(req[r]) /\ FollowsInvite(req[r])
                          /\ HasJoined(req[r]))'
    BY DEF HandlersOK
  <2>1. CASE req'[r] = req[r]
    BY <2>1 DEF IInv, HandlersOK, LocalsOK, FollowsInvite, HasJoined, dbVars
  <2>2. CASE req'[r].pc \in Ended
    BY <2>2 DEF LocalsOK, FollowsInvite, HasJoined, JoinedPCs, Ended,
                SignupPCs, LoginPCs, InvitePCs, AcceptPCs, PasswordPCs
  <2> QED
    BY <2>1, <2>2
<1>3. InvitesOK'
  BY DEF IInv, InvitesOK, dbVars
<1>4. FoundersOK'
  <2>1. \A r \in Requests :
           req'[r].pc = "signup_member" => req'[r] = req[r]
    BY DEF Ended
  <2> QED
    BY <2>1 DEF IInv, FoundersOK, OrgExists, dbVars
<1>5. SessionsAreMemberships'
  BY DEF IInv, SessionsAreMemberships, dbVars
<1>6. OneOwnerPerOrg' /\ RolesAreGranted'
  BY DEF IInv, OneOwnerPerOrg, RolesAreGranted, dbVars
<1> QED
  BY <1>1, <1>2, <1>3, <1>4, <1>5, <1>6 DEF IInv

-----------------------------------------------------------------------------
(* Every step preserves the invariant.                                     *)
LEMMA StepInv == IInv /\ [Next]_vars => IInv'
<1> SUFFICES ASSUME IInv, [Next]_vars PROVE IInv'
  OBVIOUS
<1>0. /\ req \in [Requests -> Request] /\ DBTypeOK
      /\ session \in [Requests -> Session \cup {None}]
  BY DEF IInv, TypeOK
<1>1. ASSUME NEW r \in Requests, Serve(r) PROVE IInv'
  BY <1>1, SignupKeeps, LoginKeeps, InviteCreateKeeps, InviteAcceptKeeps,
     SetPasswordKeeps, TOTPSetupKeeps DEF Serve
<1>2. ASSUME NEW r \in Requests, InviteExpires(r) PROVE IInv'
  BY <1>2, InviteExpiresKeeps
<1>3. ASSUME NEW c \in Requests, SessionEnds(c) PROVE IInv'
  BY <1>0, <1>3, EndKeeps DEF SessionEnds
<1>4. ASSUME NEW r \in Requests, Abort(r) PROVE IInv'
  BY <1>0, <1>4, ReturnStep DEF Abort, Ended, dbVars, DBTypeOK
<1>5. CASE Restart
  <2>1. \A r \in Requests :
           [New EXCEPT !.pc = "error", !.inv = req[r].inv] \in Request
    BY <1>0 DEF New, Request, Ended
  <2>2. /\ req' \in [Requests -> Request]
        /\ \A r \in Requests :
              req'[r] = req[r] \/ (req'[r] \in Request /\ req'[r].pc \in Ended)
    BY <1>0, <1>5, <2>1 DEF Restart, New, Ended
  <2>3. /\ session' = [c \in Requests |-> None]
        /\ UNCHANGED dbVars
    BY <1>5 DEF Restart
  <2> QED
    BY <2>2, <2>3, EndKeeps
<1>6. CASE UNCHANGED vars
  BY <1>0, <1>6, EndKeeps DEF vars, dbVars
<1> QED
  BY <1>1, <1>2, <1>3, <1>4, <1>5, <1>6 DEF Next

(* The invariant holds in every state a server can reach.                  *)
THEOREM InvHolds == Spec => []IInv
<1> QED
  BY InitInv, StepInv, PTL DEF Spec

(* The tables, the requests and the sessions keep their types, however     *)
(* many requests interleave, fail or are cut off by a restart.             *)
THEOREM TypeCorrect == Spec => []TypeOK
<1>1. IInv => TypeOK
  BY DEF IInv
<1> QED
  BY <1>1, InvHolds, PTL

(* A session, whoever issued it, is for an organisation its user belongs   *)
(* to: no handler issues one before the membership is in the database, and *)
(* no statement takes a membership away.                                   *)
THEOREM SessionsFollowMemberships == Spec => []SessionsAreMemberships
<1>1. IInv => SessionsAreMemberships
  BY DEF IInv
<1> QED
  BY <1>1, InvHolds, PTL

(* No race of signups and no sequence of invites gives an organisation two *)
(* Owners.                                                                 *)
THEOREM SingleOwner == Spec => []OneOwnerPerOrg
<1>1. IInv => OneOwnerPerOrg
  BY DEF IInv
<1> QED
  BY <1>1, InvHolds, PTL

(* Every role below Owner was granted by an invite to that organisation,   *)
(* for that user and that role.                                            *)
THEOREM RolesComeFromInvites == Spec => []RolesAreGranted
<1>1. IInv => RolesAreGranted
  BY DEF IInv
<1> QED
  BY <1>1, InvHolds, PTL

-----------------------------------------------------------------------------
(* A handler that serves a request changes no other request.               *)
LEMMA ServeMoves ==
  ASSUME IInv, NEW r \in Requests, Serve(r)
  PROVE  /\ req[r].pc \notin Ended
         /\ \A q \in Requests \ {r} : req'[q] = req[q]
<1> USE DEF Ended, Goto, Return, ReturnAtOnce, Arrives
<1>0. req \in [Requests -> Request]
  BY DEF IInv, TypeOK
<1>1. CASE Signup(r)
  BY <1>0, <1>1 DEF Signup, SignupUpsert, SignupCredential, SignupFindOrg,
     SignupCreateOrg, SignupMember, SignupSession
<1>2. CASE Login(r)
  BY <1>0, <1>2 DEF Login, LoginPassword, LoginFailed, LoginTOTP, LoginCode,
     LoginOrg, LoginSession, LoginRecord
<1>3. CASE InviteCreate(r) \/ InviteAccept(r)
  BY <1>0, <1>3 DEF InviteCreate, InviteAuth, InviteRole, InviteInsert,
     InviteAccept, AcceptLookup, AcceptUser, AcceptMember, AcceptUse,
     AcceptSession
<1>4. CASE SetPassword(r) \/ TOTPSetup(r)
  BY <1>0, <1>4 DEF SetPassword, PasswordStart, PasswordFind, PasswordUpdate,
     PasswordCreate, TOTPSetup, TOTPStart, TOTPSet
<1> QED BY <1>1, <1>2, <1>3, <1>4 DEF Serve

(* A request that moves is served, aborted or cut off by a restart.        *)
LEMMA WhoMoves ==
  ASSUME IInv, [Next]_vars, NEW r \in Requests, req'[r] # req[r]
  PROVE  Serve(r) \/ Abort(r) \/ Restart
<1>0. req \in [Requests -> Request]
  BY DEF IInv, TypeOK
<1>1. ASSUME NEW q \in Requests, Serve(q) PROVE q = r
  BY <1>1, ServeMoves
<1>2. ASSUME NEW q \in Requests, Abort(q) PROVE q = r
  BY <1>0, <1>2 DEF Abort, Return
<1> QED
  BY <1>1, <1>2 DEF Next, vars, InviteExpires, SessionEnds

-----------------------------------------------------------------------------
(* Only a handler that accepts has a token, and one that has come to its   *)
(* session has used it.                                                    *)
Used(i) == invites[i] # None /\ invites[i].used

SpentOK(r) ==
    /\ req[r].pc \notin AcceptPCs \cup Ended => req[r].inv = None
    /\ req[r].pc \in {"accept_session", "ok"} /\ req[r].inv # None =>
           Used(req[r].inv)

Spent == \A r \in Requests : SpentOK(r)

(* Once used, an invite stays used: the only statement that would write    *)
(* the row anew is the one that makes it, under a token that is new.       *)
LEMMA UsedStays ==
  ASSUME IInv, [Next]_vars, NEW i \in Requests, Used(i)
  PROVE  Used(i)'
<1>0. /\ invites \in [Requests -> Invite \cup {None}]
      /\ None \notin Invite
  BY NoneAssumption DEF IInv, TypeOK, DBTypeOK
<1>1. invites[i] \in Invite /\ invites[i].used
  BY <1>0 DEF Used
<1>2. CASE UNCHANGED invites
  BY <1>2 DEF Used
<1>3. ASSUME NEW r \in Requests, InviteInsert(r),
             CreateInvite(r, req[r].org, req[r].email, req[r].role)
      PROVE  Used(i)'
  <2>1. r # i
    BY <1>3 DEF Used, InviteInsert, IInv, InvitesOK, Ended
  <2>2. invites'[i] = invites[i]
    BY <1>0, <1>3, <2>1 DEF CreateInvite
  <2> QED BY <2>2 DEF Used
<1>4. ASSUME NEW r \in Requests, AcceptUse(r) PROVE Used(i)'
  <2>1. invites'[i] = [invites[i] EXCEPT !.used = TRUE]
        \/ invites'[i] = invites[i]
    BY <1>0, <1>4 DEF AcceptUse, UseInvite
  <2>2. invites'[i] \in Invite /\ invites'[i].used
    BY <1>1, <2>1 DEF Invite
  <2> QED BY <1>0, <2>2 DEF Used
<1>5. ASSUME NEW r \in Requests, InviteExpires(r) PROVE Used(i)'
  <2>1. invites'[i] = [invites[i] EXCEPT !.expired = TRUE]
        \/ invites'[i] = invites[i]
    BY <1>0, <1>5 DEF InviteExpires
  <2>2. invites'[i] \in Invite /\ invites'[i].used
    BY <1>1, <2>1 DEF Invite
  <2> QED BY <1>0, <2>2 DEF Used
<1>6. ASSUME NEW r \in Requests, Serve(r) PROVE Used(i)'
  <2>1. CASE Signup(r) \/ Login(r)
    BY <1>2, <2>1 DEF dbVars, Signup, SignupUpsert, SignupCredential,
       SignupFindOrg, SignupCreateOrg, SignupMember, SignupSession, Login,
       LoginPassword, LoginFailed, LoginTOTP, LoginCode, LoginOrg,
       LoginSession, LoginRecord, UpsertUserByVerifiedEmail,
       CreateLocalCredential, CreateOrg, EnsureMembership, RecordLoginAttempt
  <2>2. CASE InviteCreate(r)
    BY <1>2, <1>3, <2>2 DEF dbVars, InviteCreate, InviteAuth, InviteRole,
       InviteInsert
  <2>3. CASE InviteAccept(r)
    BY <1>2, <1>4, <2>3 DEF dbVars, InviteAccept, AcceptLookup, AcceptUser,
       AcceptMember, AcceptSession, UpsertUserByVerifiedEmail, EnsureMembership
  <2>4. CASE SetPassword(r) \/ TOTPSetup(r)
    BY <1>2, <2>4 DEF dbVars, SetPassword, PasswordStart, PasswordFind,
       PasswordUpdate, PasswordCreate, TOTPSetup, TOTPStart, TOTPSet,
       CreateLocalCredential, UpdateLocalPasswordHash, SetTOTPSecret
  <2> QED BY <1>6, <2>1, <2>2, <2>3, <2>4 DEF Serve
<1> QED
  BY <1>2, <1>5, <1>6 DEF Next, vars, dbVars, SessionEnds, Abort, Restart

-----------------------------------------------------------------------------
(* The token a handler holds moves on with it...                           *)
LEMMA GotoKeeps ==
  ASSUME req \in [Requests -> Request], NEW r \in Requests, NEW pc, Goto(r, pc)
  PROVE  req'[r].pc = pc /\ req'[r].inv = req[r].inv
BY DEF Goto, Request

LEMMA ReturnKeeps ==
  ASSUME req \in [Requests -> Request], NEW r \in Requests,
         NEW result \in Ended, Return(r, result) \/ ReturnAtOnce(r, result)
  PROVE  req'[r].pc = result /\ req'[r].inv = req[r].inv
<1>1. CASE Return(r, result)
  BY <1>1 DEF Return, New
<1>2. CASE ReturnAtOnce(r, result)
  BY <1>2 DEF ReturnAtOnce, Request
<1> QED BY <1>1, <1>2

(* ...and a request that arrives has none, unless it comes to accept an    *)
(* invite that is open.                                                    *)
LEMMA Arrivals ==
  ASSUME req \in [Requests -> Request], NEW r \in Requests
  PROVE  /\ SignupUpsert(r) => /\ req'[r].pc = "signup_credential"
                               /\ req'[r].inv = None
         /\ LoginPassword(r) =>
               \/ /\ req'[r].pc \in {"login_totp", "login_failed"}
                  /\ req'[r].inv = None
               \/ req'[r].pc = "refused" /\ req'[r].inv = req[r].inv
         /\ InviteAuth(r) => req'[r].pc = "invite_role" /\ req'[r].inv = None
         /\ PasswordStart(r) => /\ req'[r].pc = "password_find"
                                /\ req'[r].inv = None
         /\ TOTPStart(r) => req'[r].pc = "totp_set" /\ req'[r].inv = None
         /\ AcceptLookup(r) =>
               \/ /\ req'[r].pc = "accept_user"
                  /\ req'[r].inv \in Requests /\ InviteOpen(req'[r].inv)
               \/ req'[r].pc = "refused" /\ req'[r].inv = req[r].inv
<1>1. ASSUME SignupUpsert(r)
      PROVE  req'[r].pc = "signup_credential" /\ req'[r].inv = None
  <2>1. PICK c \in Choices, pw \in Passwords, o \in Slugs :
           req' = [req EXCEPT ![r] = [New EXCEPT !.pc = "signup_credential",
                                                 !.user = c[1], !.name = c[2],
                                                 !.pw = pw, !.org = o]]
    BY <1>1 DEF SignupUpsert
  <2> QED BY <2>1 DEF New
<1>2. ASSUME LoginPassword(r)
      PROVE  \/ /\ req'[r].pc \in {"login_totp", "login_failed"}
                /\ req'[r].inv = None
             \/ req'[r].pc = "refused" /\ req'[r].inv = req[r].inv
  <2>1. PICK n \in Usernames, pw \in Passwords, code \in Requests \cup {None} :
          \/ HoldersOf(n) = {} /\ ReturnAtOnce(r, "refused")
          \/ \E u \in HoldersOf(n) :
                req' = [req EXCEPT ![r] =
                           [New EXCEPT !.pc = IF creds[u].pw = pw
                                              THEN "login_totp" ELSE "login_failed",
                                       !.user = u, !.name = n, !.code = code]]
    BY <1>2 DEF LoginPassword
  <2>2. ASSUME NEW u, NEW pc \in {"login_totp", "login_failed"},
               req' = [req EXCEPT ![r] = [New EXCEPT !.pc = pc, !.user = u,
                                             !.name = n, !.code = code]]
        PROVE  req'[r].pc = pc /\ req'[r].inv = None
    BY <2>2 DEF New
  <2>3. CASE ReturnAtOnce(r, "refused")
    BY <2>3, ReturnKeeps DEF Ended
  <2> QED BY <2>1, <2>2, <2>3
<1>3. ASSUME InviteAuth(r)
      PROVE  req'[r].pc = "invite_role" /\ req'[r].inv = None
  <2>1. PICK c \in Requests, e \in Emails, role \in InvitableRoles :
           req' = [req EXCEPT ![r] = [New EXCEPT !.pc = "invite_role",
                                          !.user = session[c].user,
                                          !.org = session[c].org,
                                          !.email = e, !.role = role,
                                          !.cookie = c]]
    BY <1>3 DEF InviteAuth
  <2> QED BY <2>1 DEF New
<1>4. ASSUME PasswordStart(r)
      PROVE  req'[r].pc = "password_find" /\ req'[r].inv = None
  <2>1. PICK c \in Requests, pw \in Passwords :
           req' = [req EXCEPT ![r] = [New EXCEPT !.pc = "password_find",
                                                 !.user = session[c].user,
                                                 !.pw = pw]]
    BY <1>4 DEF PasswordStart
  <2> QED BY <2>1 DEF New
<1>5. ASSUME TOTPStart(r)
      PROVE  req'[r].pc = "totp_set" /\ req'[r].inv = None
  <2>1. PICK c \in Requests :
           req' = [req EXCEPT ![r] = [New EXCEPT !.pc = "totp_set",
                                                 !.user = session[c].user]]
    BY <1>5 DEF TOTPStart
  <2> QED BY <2>1 DEF New
<1>6. ASSUME AcceptLookup(r)
      PROVE  \/ /\ req'[r].pc = "accept_user"
                /\ req'[r].inv \in Requests /\ InviteOpen(req'[r].inv)
             \/ req'[r].pc = "refused" /\ req'[r].inv = req[r].inv
  <2>1. PICK i \in Requests :
          \/ /\ InviteOpen(i)
             /\ req' = [req EXCEPT ![r] = [New EXCEPT !.pc = "accept_user",
                                             !.user = invites[i].email,
                                             !.org = invites[i].org,
                                             !.role = invites[i].role,
                                             !.inv = i]]
          \/ ReturnAtOnce(r, "refused")
    BY <1>6 DEF AcceptLookup
  <2>2. CASE /\ InviteOpen(i)
             /\ req' = [req EXCEPT ![r] = [New EXCEPT !.pc = "accept_user",
                                             !.user = invites[i].email,
                                             !.org = invites[i].org,
                                             !.role = invites[i].role,
                                             !.inv = i]]
    <3>1. req'[r].pc = "accept_user" /\ req'[r].inv = i
      BY <2>2 DEF New
    <3> QED BY <2>2, <3>1
  <2>3. CASE ReturnAtOnce(r, "refused")
    BY <2>3, ReturnKeeps DEF Ended
  <2> QED BY <2>1, <2>2, <2>3
<1> QED BY <1>1, <1>2, <1>3, <1>4, <1>5, <1>6

LEMMA LoginOrgMoves ==
  ASSUME req \in [Requests -> Request], NEW r \in Requests, LoginOrg(r)
  PROVE  \/ req'[r].pc = "login_session" /\ req'[r].inv = None
         \/ req'[r].pc = "refused" /\ req'[r].inv = req[r].inv
<1>1. CASE \E o \in PickUserOrg(req[r].user) :
              req' = [req EXCEPT ![r] = [New EXCEPT !.pc = "login_session",
                                           !.user = req[r].user,
                                           !.name = req[r].name,
                                           !.org = o]]
  <2>1. PICK o \in PickUserOrg(req[r].user) :
           req' = [req EXCEPT ![r] = [New EXCEPT !.pc = "login_session",
                                        !.user = req[r].user,
                                        !.name = req[r].name,
                                        !.org = o]]
    BY <1>1
  <2> QED BY <2>1 DEF New
<1>2. CASE Return(r, "refused")
  BY <1>2, ReturnKeeps DEF Ended
<1> QED BY <1>1, <1>2 DEF LoginOrg

(* A handler that does not accept has not begun to and does not begin to,  *)
(* and is given no token.                                                  *)
LEMMA NotAccepting ==
  ASSUME req \in [Requests -> Request], NEW r \in Requests,
         Serve(r), ~InviteAccept(r)
  PROVE  /\ req[r].pc \notin AcceptPCs \cup Ended
         /\ req'[r].pc \notin AcceptPCs
         /\ req'[r].inv \in {None, req[r].inv}
<1> DEFINE Plain == {"signup_find", "signup_org", "signup_member",
                     "signup_session", "login_code", "login_org",
                     "login_record", "invite_insert", "password_update",
                     "password_create"}
<1> USE DEF AcceptPCs, Ended
<1>1. CASE \/ SignupUpsert(r) \/ LoginPassword(r) \/ InviteAuth(r)
           \/ PasswordStart(r) \/ TOTPStart(r)
  <2>1. req[r].pc = "new"
    BY <1>1 DEF SignupUpsert, LoginPassword, InviteAuth, PasswordStart,
       TOTPStart, Arrives
  <2> QED BY <1>1, <2>1, Arrivals
<1>2. CASE LoginOrg(r)
  BY <1>2, LoginOrgMoves DEF LoginOrg
<1>3. CASE ~LoginOrg(r) /\ (Signup(r) \/ Login(r)) /\ req[r].pc # "new"
  <2>1. req[r].pc \notin AcceptPCs \cup Ended
    BY <1>3 DEF Signup, SignupUpsert, SignupCredential, SignupFindOrg,
       SignupCreateOrg, SignupMember, SignupSession, Login, LoginPassword,
       LoginFailed, LoginTOTP, LoginCode, LoginSession, LoginRecord, Arrives
  <2>2. \/ \E pc \in Plain : Goto(r, pc)
        \/ \E result \in Ended : Return(r, result)
    BY <1>3 DEF Signup, SignupUpsert, SignupCredential, SignupFindOrg,
       SignupCreateOrg, SignupMember, SignupSession, Login, LoginPassword,
       LoginFailed, LoginTOTP, LoginCode, LoginSession, LoginRecord, Arrives
  <2> QED BY <2>1, <2>2, GotoKeeps, ReturnKeeps
<1>4. CASE /\ InviteCreate(r) \/ SetPassword(r) \/ TOTPSetup(r)
           /\ req[r].pc # "new"
  <2>1. req[r].pc \notin AcceptPCs \cup Ended
    BY <1>4 DEF InviteCreate, InviteAuth, InviteRole, InviteInsert,
       SetPassword, PasswordStart, PasswordFind, PasswordUpdate,
       PasswordCreate, TOTPSetup, TOTPStart, TOTPSet, Arrives
  <2>2. \/ \E pc \in Plain : Goto(r, pc)
        \/ \E result \in Ended : Return(r, result)
    BY <1>4 DEF InviteCreate, InviteAuth, InviteRole, InviteInsert,
       SetPassword, PasswordStart, PasswordFind, PasswordUpdate,
       PasswordCreate, TOTPSetup, TOTPStart, TOTPSet, Arrives
  <2> QED BY <2>1, <2>2, GotoKeeps, ReturnKeeps
<1>5. req[r].pc = "new" => \/ SignupUpsert(r) \/ LoginPassword(r)
                           \/ InviteAuth(r) \/ PasswordStart(r) \/ TOTPStart(r)
  BY DEF Serve, Signup, SignupCredential, SignupFindOrg, SignupCreateOrg,
     SignupMember, SignupSession, Login, LoginFailed, LoginTOTP, LoginCode,
     LoginOrg, LoginSession, LoginRecord, InviteCreate, InviteRole,
     InviteInsert, SetPassword, PasswordFind, PasswordUpdate, PasswordCreate,
     TOTPSetup, TOTPSet
<1> QED BY <1>1, <1>2, <1>3, <1>4, <1>5 DEF Serve

(* What the handler that moves knows of its token afterwards.              *)
LEMMA ServeSpends ==
  ASSUME IInv, Spent, NEW r \in Requests, Serve(r)
  PROVE  SpentOK(r)'
<1> USE DEF AcceptPCs, Ended
<1>0. req \in [Requests -> Request] /\ SpentOK(r)
  BY DEF IInv, TypeOK, Spent
<1>1. CASE ~InviteAccept(r)
  <2>1. req'[r].pc \notin AcceptPCs /\ req'[r].inv = None
    BY <1>0, <1>1, NotAccepting DEF SpentOK
  <2> QED BY <2>1 DEF SpentOK
<1>2. CASE InviteAccept(r)
  <2>1. CASE AcceptLookup(r) \/ AcceptUser(r) \/ AcceptMember(r)
    <3>1. req'[r].pc \in {"accept_user", "accept_member", "accept_use", "refused"}
      BY <1>0, <2>1, Arrivals, GotoKeeps DEF AcceptUser, AcceptMember
    <3> QED BY <3>1 DEF SpentOK
  <2>2. CASE AcceptUse(r)
    <3>1. /\ req'[r].pc = "accept_session" /\ req'[r].inv = req[r].inv
          /\ req[r].inv \in Requests /\ invites[req[r].inv] # None
      BY <1>0, <2>2, GotoKeeps DEF AcceptUse, IInv, HandlersOK, LocalsOK,
         FollowsInvite
    <3>2. invites[req[r].inv] \in Invite
      BY <3>1 DEF IInv, TypeOK, DBTypeOK
    <3>3. invites'[req[r].inv] = [invites[req[r].inv] EXCEPT !.used = TRUE]
      BY <2>2, <3>1 DEF AcceptUse, UseInvite, IInv, TypeOK, DBTypeOK
    <3>4. invites'[req[r].inv] \in Invite /\ invites'[req[r].inv].used
      BY <3>2, <3>3 DEF Invite
    <3> QED BY <3>1, <3>4, NoneAssumption DEF SpentOK, Used
  <2>3. CASE AcceptSession(r)
    <3>1. /\ req'[r].pc = "ok" /\ req'[r].inv = req[r].inv
          /\ UNCHANGED invites
      BY <1>0, <2>3, ReturnKeeps DEF AcceptSession, dbVars
    <3>2. req[r].inv # None => Used(req[r].inv)
      BY <1>0, <2>3 DEF AcceptSession, SpentOK
    <3> QED BY <3>1, <3>2 DEF SpentOK, Used
  <2> QED BY <1>2, <2>1, <2>2, <2>3 DEF InviteAccept
<1> QED BY <1>1, <1>2

LEMMA SpentStep == IInv /\ Spent /\ [Next]_vars => Spent'
<1> SUFFICES ASSUME IInv, Spent, [Next]_vars, NEW r \in Requests
             PROVE  SpentOK(r)'
  BY DEF Spent
<1>0. /\ req \in [Requests -> Request] /\ req[r] \in Request
      /\ SpentOK(r) /\ req[r].inv \in Requests \cup {None}
  BY DEF IInv, TypeOK, Spent, Request
<1>1. CASE req'[r] = req[r]
  <2>1. \A i \in Requests : Used(i) => Used(i)'
    BY UsedStays
  <2> QED BY <1>0, <1>1, <2>1 DEF SpentOK, Used
<1>2. CASE Serve(r)
  BY <1>2, ServeSpends
<1>3. CASE Abort(r) \/ Restart
  <2>1. req'[r].pc = "error" \/ req'[r] = req[r]
    BY <1>0, <1>3 DEF Abort, Restart, Return, New
  <2> QED BY <1>1, <2>1 DEF SpentOK, Ended, AcceptPCs
<1> QED BY <1>1, <1>2, <1>3, WhoMoves

(* An invite that somebody accepted begins no other acceptance: the row is *)
(* marked as used before the answer, for good, and every acceptance looks. *)
THEOREM AcceptedInvitesAreSpent == Spec => InviteSpent
<1>1. Init => Spent
  BY DEF Init, Spent, SpentOK, New
<1>2. IInv /\ Spent /\ [Next]_vars =>
        [\A q, r \in Requests :
            /\ req[q].pc = "ok" /\ req[r].pc = "new"
            /\ req'[r].pc = "accept_user"
            => req'[r].inv # req[q].inv]_vars
  <2> SUFFICES ASSUME IInv, Spent, [Next]_vars,
                      NEW q \in Requests, NEW r \in Requests,
                      req[q].pc = "ok", req[r].pc = "new",
                      req'[r].pc = "accept_user"
               PROVE  req'[r].inv # req[q].inv
    OBVIOUS
  <2>0. req \in [Requests -> Request]
    BY DEF IInv, TypeOK
  <2>1. ~Abort(r) /\ ~Restart
    BY <2>0 DEF Abort, Restart, Busy, Return, New, SignupPCs, LoginPCs,
       InvitePCs, AcceptPCs, PasswordPCs
  <2>2. Serve(r)
    BY <2>1, WhoMoves
  <2>3. AcceptLookup(r)
    <3>1. ~(SignupUpsert(r) \/ LoginPassword(r) \/ InviteAuth(r)
              \/ PasswordStart(r) \/ TOTPStart(r))
      BY <2>0, Arrivals
    <3> QED
      BY <2>2, <3>1 DEF Serve, Signup, SignupCredential, SignupFindOrg,
         SignupCreateOrg, SignupMember, SignupSession, Login, LoginFailed,
         LoginTOTP, LoginCode, LoginOrg, LoginSession, LoginRecord,
         InviteCreate, InviteRole, InviteInsert, InviteAccept, AcceptUser,
         AcceptMember, AcceptUse, AcceptSession, SetPassword, PasswordFind,
         PasswordUpdate, PasswordCreate, TOTPSetup, TOTPSet
  <2>4. InviteOpen(req'[r].inv) /\ req'[r].inv \in Requests
    BY <2>0, <2>3, Arrivals
  <2>5. req[q].inv # None => Used(req[q].inv)
    BY DEF Spent, SpentOK
  <2> QED BY <2>4, <2>5, NoneAssumption DEF InviteOpen, Used
<1> QED
  BY <1>1, <1>2, InitInv, StepInv, SpentStep, PTL DEF Spec, InviteSpent

-----------------------------------------------------------------------------
(* Which steps come to the statements whose locals need looking after.     *)
LEMMA WhoComes ==
  ASSUME IInv, NEW r \in Requests, Serve(r)
  PROVE  /\ req'[r].pc = "signup_credential" => SignupUpsert(r)
         /\ req'[r].pc = "password_update" => PasswordFind(r)
         /\ req'[r].pc = "signup_member" => SignupCreateOrg(r)
         /\ req'[r].pc = "invite_insert" => InviteRole(r)
<1> USE DEF Ended
<1>0. req \in [Requests -> Request]
  BY DEF IInv, TypeOK
<1>1. CASE Signup(r) /\ ~SignupUpsert(r) /\ ~SignupCreateOrg(r)
  <2>1. \/ \E pc \in {"signup_find", "signup_org", "signup_session"} :
              Goto(r, pc)
        \/ \E result \in Ended : Return(r, result)
    BY <1>1 DEF Signup, SignupCredential, SignupFindOrg, SignupMember,
       SignupSession
  <2> QED BY <1>0, <2>1, GotoKeeps, ReturnKeeps
<1>2. CASE Login(r)
  <2>1. CASE LoginPassword(r) \/ LoginOrg(r)
    BY <1>0, <2>1, Arrivals, LoginOrgMoves
  <2>2. CASE ~LoginPassword(r) /\ ~LoginOrg(r)
    <3>1. \/ \E pc \in {"login_code", "login_org", "login_record"} : Goto(r, pc)
          \/ \E result \in Ended : Return(r, result)
      BY <1>2, <2>2 DEF Login, LoginFailed, LoginTOTP, LoginCode,
         LoginSession, LoginRecord
    <3> QED BY <1>0, <3>1, GotoKeeps, ReturnKeeps
  <2> QED BY <2>1, <2>2
<1>3. CASE InviteCreate(r)
  <2>1. CASE InviteAuth(r)
    BY <1>0, <2>1, Arrivals
  <2>2. CASE InviteRole(r)
    BY <1>0, <2>2, GotoKeeps, ReturnKeeps DEF InviteRole
  <2>3. CASE InviteInsert(r)
    <3>1. \E result \in Ended : Return(r, result)
      BY <2>3 DEF InviteInsert
    <3> QED BY <1>0, <3>1, ReturnKeeps
  <2> QED BY <1>3, <2>1, <2>2, <2>3 DEF InviteCreate
<1>4. CASE InviteAccept(r)
  <2>1. CASE AcceptLookup(r)
    BY <1>0, <2>1, Arrivals
  <2>2. CASE ~AcceptLookup(r)
    <3>1. \/ \E pc \in {"accept_member", "accept_use", "accept_session"} :
                Goto(r, pc)
          \/ \E result \in Ended : Return(r, result)
      BY <1>4, <2>2 DEF InviteAccept, AcceptUser, AcceptMember, AcceptUse,
         AcceptSession
    <3> QED BY <1>0, <3>1, GotoKeeps, ReturnKeeps
  <2> QED BY <2>1, <2>2
<1>5. CASE (SetPassword(r) \/ TOTPSetup(r)) /\ ~PasswordFind(r)
  <2>1. CASE PasswordStart(r) \/ TOTPStart(r)
    BY <1>0, <2>1, Arrivals
  <2>2. CASE ~PasswordStart(r) /\ ~TOTPStart(r)
    <3>1. \E result \in Ended : Return(r, result)
      BY <1>5, <2>2 DEF SetPassword, PasswordUpdate, PasswordCreate,
         TOTPSetup, TOTPSet
    <3> QED BY <1>0, <3>1, ReturnKeeps
  <2> QED BY <2>1, <2>2
<1>6. CASE SignupUpsert(r)
  BY <1>0, <1>6, Arrivals
<1>7. CASE PasswordFind(r)
  BY <1>0, <1>7, GotoKeeps DEF PasswordFind
<1>8. CASE SignupCreateOrg(r)
  BY <1>0, <1>8, GotoKeeps, ReturnKeeps DEF SignupCreateOrg
<1> QED BY <1>1, <1>2, <1>3, <1>4, <1>5, <1>6, <1>7, <1>8 DEF Serve

-----------------------------------------------------------------------------
(* Which statements write organisations, memberships and invites, and what *)
(* a step leaves of them: organisations and members stay, and an invite is *)
(* what it was or the one just made.                                       *)
LEMMA OrgsStay ==
  ASSUME IInv, [Next]_vars, NEW o \in Slugs, OrgExists(o)
  PROVE  OrgExists(o)'
<1>1. CASE UNCHANGED orgs
  BY <1>1 DEF OrgExists
<1>2. ASSUME NEW r \in Requests, CreateOrg(req[r].org), req[r].org \in Slugs
      PROVE  OrgExists(o)'
  BY <1>2, CreateOrgRanks DEF IInv, TypeOK, OrgExists
<1>3. ASSUME NEW r \in Requests, Serve(r) PROVE OrgExists(o)'
  <2>1. CASE SignupCreateOrg(r)
    <3>1. req[r].org \in Slugs
      BY <2>1 DEF SignupCreateOrg, IInv, HandlersOK, LocalsOK, SignupPCs
    <3> QED BY <1>1, <1>2, <2>1, <3>1 DEF SignupCreateOrg, dbVars
  <2>2. CASE ~SignupCreateOrg(r) /\ (Signup(r) \/ Login(r))
    BY <1>1, <2>2 DEF dbVars, Signup, SignupUpsert, SignupCredential,
       SignupFindOrg, SignupMember, SignupSession, Login, LoginPassword,
       LoginFailed, LoginTOTP, LoginCode, LoginOrg, LoginSession, LoginRecord,
       UpsertUserByVerifiedEmail, CreateLocalCredential, EnsureMembership,
       RecordLoginAttempt
  <2>3. CASE InviteCreate(r) \/ InviteAccept(r)
    BY <1>1, <2>3 DEF dbVars, InviteCreate, InviteAuth, InviteRole,
       InviteInsert, InviteAccept, AcceptLookup, AcceptUser, AcceptMember,
       AcceptUse, AcceptSession, CreateInvite, UpsertUserByVerifiedEmail,
       EnsureMembership, UseInvite
  <2>4. CASE SetPassword(r) \/ TOTPSetup(r)
    BY <1>1, <2>4 DEF dbVars, SetPassword, PasswordStart, PasswordFind,
       PasswordUpdate, PasswordCreate, TOTPSetup, TOTPStart, TOTPSet,
       CreateLocalCredential, UpdateLocalPasswordHash, SetTOTPSecret
  <2> QED BY <1>3, <2>1, <2>2, <2>3, <2>4 DEF Serve
<1> QED
  BY <1>1, <1>3 DEF Next, vars, dbVars, InviteExpires, SessionEnds, Abort,
     Restart

LEMMA MembersWritten ==
  ASSUME NEW r \in Requests, Serve(r), ~SignupMember(r), ~AcceptMember(r)
  PROVE  UNCHANGED members
<1>1. CASE Signup(r) \/ Login(r)
  BY <1>1 DEF dbVars, Signup, SignupUpsert, SignupCredential, SignupFindOrg,
     SignupCreateOrg, SignupSession, Login, LoginPassword, LoginFailed,
     LoginTOTP, LoginCode, LoginOrg, LoginSession, LoginRecord, CreateOrg,
     UpsertUserByVerifiedEmail, CreateLocalCredential, RecordLoginAttempt
<1>2. CASE InviteCreate(r) \/ InviteAccept(r)
  BY <1>2 DEF dbVars, InviteCreate, InviteAuth, InviteRole, InviteInsert,
     InviteAccept, AcceptLookup, AcceptUser, AcceptUse, AcceptSession,
     CreateInvite, UpsertUserByVerifiedEmail, UseInvite
<1>3. CASE SetPassword(r) \/ TOTPSetup(r)
  BY <1>3 DEF dbVars, SetPassword, PasswordStart, PasswordFind,
     PasswordUpdate, PasswordCreate, TOTPSetup, TOTPStart, TOTPSet,
     CreateLocalCredential, UpdateLocalPasswordHash, SetTOTPSecret
<1> QED BY <1>1, <1>2, <1>3 DEF Serve

(* Either membership is written where its handler says.                    *)
LEMMA MemberMade ==
  ASSUME IInv, NEW r \in Requests, SignupMember(r) \/ AcceptMember(r)
  PROVE  /\ req[r].org \in Slugs /\ req[r].user \in Emails
         /\ members'[req[r].org][req[r].user] # None
         /\ \A o \in Slugs, u \in Emails :
               o # req[r].org \/ u # req[r].user =>
                   members'[o][u] = members[o][u]
<1>1. LocalsOK(req[r]) /\ members \in [Slugs -> [Emails -> Roles \cup {None}]]
  BY DEF IInv, TypeOK, DBTypeOK, HandlersOK
<1>2. PICK role \in Roles :
         members' = [members EXCEPT ![req[r].org][req[r].user] = role]
  BY <1>1 DEF SignupMember, AcceptMember, EnsureMembership, LocalsOK,
     AcceptPCs, InvitableRoles, Roles
<1>3. req[r].org \in Slugs /\ req[r].user \in Emails
  BY <1>1 DEF SignupMember, AcceptMember, LocalsOK, AcceptPCs, SignupPCs
<1>4. role # None
  BY NoneAssumption
<1> QED BY <1>1, <1>2, <1>3, <1>4

LEMMA MembersStay == IInv /\ [Next]_vars => MembersKept
<1> SUFFICES ASSUME IInv, [Next]_vars PROVE MembersKept
  OBVIOUS
<1>1. CASE UNCHANGED members
  BY <1>1 DEF MembersKept
<1>2. ASSUME NEW r \in Requests, SignupMember(r) \/ AcceptMember(r)
      PROVE  MembersKept
  BY <1>2, MemberMade DEF MembersKept
<1> QED
  BY <1>1, <1>2, MembersWritten DEF Next, vars, dbVars, InviteExpires,
     SessionEnds, Abort, Restart

LEMMA InvitesStay ==
  ASSUME IInv, [Next]_vars, NEW i \in Requests, invites'[i] # None
  PROVE  \/ invites[i] # None /\ invites'[i].org = invites[i].org
         \/ InviteInsert(i) /\ invites'[i].org = req[i].org
<1>0. DBTypeOK /\ invites \in [Requests -> Invite \cup {None}]
  BY DEF IInv, TypeOK, DBTypeOK
<1>1. CASE UNCHANGED invites
  BY <1>1
<1>2. ASSUME NEW r \in Requests, InviteInsert(r),
             CreateInvite(r, req[r].org, req[r].email, req[r].role)
      PROVE  \/ invites[i] # None /\ invites'[i].org = invites[i].org
             \/ InviteInsert(i) /\ invites'[i].org = req[i].org
  <2>1. CASE i = r
    <3>1. invites'[i] = [org |-> req[r].org, email |-> req[r].email,
                         role |-> req[r].role, used |-> FALSE,
                         expired |-> FALSE]
      BY <1>0, <1>2, <2>1 DEF CreateInvite
    <3> QED BY <1>2, <2>1, <3>1
  <2>2. CASE i # r
    BY <1>0, <1>2, <2>2 DEF CreateInvite
  <2> QED BY <2>1, <2>2
<1>3. ASSUME NEW j \in Requests, invites[j] # None,
             \/ invites' = [invites EXCEPT ![j].used = TRUE]
             \/ invites' = [invites EXCEPT ![j].expired = TRUE]
      PROVE  invites[i] # None /\ invites'[i].org = invites[i].org
  BY <1>0, <1>3, InviteFlag DEF InvitesKept
<1>4. ASSUME NEW r \in Requests, AcceptUse(r)
      PROVE  invites[i] # None /\ invites'[i].org = invites[i].org
  <2>1. req[r].inv \in Requests /\ invites[req[r].inv] # None
    BY <1>4 DEF AcceptUse, IInv, HandlersOK, LocalsOK, FollowsInvite, AcceptPCs
  <2> QED BY <1>3, <1>4, <2>1 DEF AcceptUse, UseInvite
<1>5. ASSUME NEW j \in Requests, InviteExpires(j)
      PROVE  invites[i] # None /\ invites'[i].org = invites[i].org
  BY <1>3, <1>5 DEF InviteExpires, InviteOpen
<1>6. ASSUME NEW r \in Requests, Serve(r)
      PROVE  \/ invites[i] # None /\ invites'[i].org = invites[i].org
             \/ InviteInsert(i) /\ invites'[i].org = req[i].org
  <2>1. CASE Signup(r) \/ Login(r)
    BY <1>1, <2>1 DEF dbVars, Signup, SignupUpsert, SignupCredential,
       SignupFindOrg, SignupCreateOrg, SignupMember, SignupSession, Login,
       LoginPassword, LoginFailed, LoginTOTP, LoginCode, LoginOrg,
       LoginSession, LoginRecord, UpsertUserByVerifiedEmail,
       CreateLocalCredential, CreateOrg, EnsureMembership, RecordLoginAttempt
  <2>2. CASE InviteCreate(r)
    BY <1>1, <1>2, <2>2 DEF dbVars, InviteCreate, InviteAuth, InviteRole,
       InviteInsert
  <2>3. CASE InviteAccept(r)
    BY <1>1, <1>4, <2>3 DEF dbVars, InviteAccept, AcceptLookup, AcceptUser,
       AcceptMember, AcceptSession, UpsertUserByVerifiedEmail, EnsureMembership
  <2>4. CASE SetPassword(r) \/ TOTPSetup(r)
    BY <1>1, <2>4 DEF dbVars, SetPassword, PasswordStart, PasswordFind,
       PasswordUpdate, PasswordCreate, TOTPSetup, TOTPStart, TOTPSet,
       CreateLocalCredential, UpdateLocalPasswordHash, SetTOTPSecret
  <2> QED BY <1>6, <2>1, <2>2, <2>3, <2>4 DEF Serve
<1> QED
  BY <1>1, <1>5, <1>6 DEF Next, vars, dbVars, SessionEnds, Abort, Restart

-----------------------------------------------------------------------------
(* Invites come from members: an organisation somebody is invited to has   *)
(* some, and a handler about to insert an invite serves one.               *)
Hosted ==
    /\ \A i \in Requests : invites[i] # None =>
           \E u \in Emails : members[invites[i].org][u] # None
    /\ \A r \in Requests : req[r].pc = "invite_insert" =>
           members[req[r].org][req[r].user] # None

LEMMA HostedStep == IInv /\ Hosted /\ [Next]_vars => Hosted'
<1> SUFFICES ASSUME IInv, Hosted, [Next]_vars PROVE Hosted'
  OBVIOUS
<1>0. /\ req \in [Requests -> Request] /\ MembersKept
      /\ invites \in [Requests -> Invite \cup {None}]
  BY MembersStay DEF IInv, TypeOK, DBTypeOK
<1>1. ASSUME NEW i \in Requests, invites'[i] # None
      PROVE  \E u \in Emails : members'[invites'[i].org][u] # None
  <2>1. CASE invites[i] # None /\ invites'[i].org = invites[i].org
    <3>1. PICK u \in Emails : members[invites[i].org][u] # None
      BY <2>1 DEF Hosted
    <3>2. invites[i].org \in Slugs
      BY <1>0, <2>1 DEF Invite
    <3> QED BY <1>0, <2>1, <3>1, <3>2 DEF MembersKept
  <2>2. CASE InviteInsert(i) /\ invites'[i].org = req[i].org
    <3>1. /\ req[i].org \in Slugs /\ req[i].user \in Emails
          /\ members[req[i].org][req[i].user] # None
      BY <2>2 DEF InviteInsert, IInv, HandlersOK, LocalsOK, InvitePCs, Hosted
    <3> QED BY <1>0, <2>2, <3>1 DEF MembersKept
  <2> QED BY <1>1, <2>1, <2>2, InvitesStay
<1>2. ASSUME NEW r \in Requests, req'[r].pc = "invite_insert"
      PROVE  members'[req'[r].org][req'[r].user] # None
  <2>1. CASE req'[r] = req[r]
    <3>1. req[r].org \in Slugs /\ req[r].user \in Emails
      BY <1>2, <2>1 DEF IInv, HandlersOK, LocalsOK, InvitePCs
    <3> QED BY <1>0, <1>2, <2>1, <3>1 DEF Hosted, MembersKept
  <2>2. CASE Serve(r)
    <3>1. InviteRole(r)
      BY <1>2, <2>2, WhoComes
    <3>2. members[req[r].org][req[r].user] = "Owner" /\ Goto(r, "invite_insert")
      BY <1>0, <1>2, <3>1, ReturnKeeps DEF InviteRole, GetRole, Ended
    <3>3. /\ req'[r].org = req[r].org /\ req'[r].user = req[r].user
          /\ UNCHANGED members
      BY <1>0, <3>1, <3>2 DEF InviteRole, Goto, Request, dbVars
    <3> QED BY <3>2, <3>3, NoneAssumption DEF Roles
  <2>3. CASE Abort(r) \/ Restart
    <3>1. req'[r].pc = "error" \/ req'[r] = req[r]
      BY <1>0, <2>3 DEF Abort, Restart, Return, New
    <3> QED BY <1>2, <2>1, <3>1
  <2> QED BY <2>1, <2>2, <2>3, WhoMoves
<1> QED BY <1>1, <1>2 DEF Hosted

(* Whatever fails, restarts or races, nobody gets into an organisation     *)
(* that has nobody: the founder it lost is the only one it would have had. *)
THEOREM AbandonedStaysAbandoned == Spec => AbandonedStays
<1>1. Init => Hosted
  BY DEF Init, DBInit, Hosted, New
<1>2. IInv /\ Hosted /\ [Next]_vars =>
        [\A o \in Slugs : Abandoned(o) => Abandoned(o)']_vars
  <2> SUFFICES ASSUME IInv, Hosted, [Next]_vars, NEW o \in Slugs, Abandoned(o)
               PROVE  Abandoned(o)'
    OBVIOUS
  <2>0. /\ req \in [Requests -> Request] /\ OrgExists(o)
        /\ \A u \in Emails : members[o][u] = None
        /\ \A r \in Requests : ~(req[r].pc = "signup_member" /\ req[r].org = o)
    BY DEF IInv, TypeOK, Abandoned
  <2>1. OrgExists(o)'
    BY <2>0, OrgsStay
  <2>2. ASSUME NEW u \in Emails PROVE members'[o][u] = None
    <3>1. CASE UNCHANGED members
      BY <2>0, <3>1
    <3>2. ASSUME NEW r \in Requests, SignupMember(r) PROVE members'[o][u] = None
      <4>1. req[r].org # o
        BY <2>0, <3>2 DEF SignupMember
      <4> QED BY <2>0, <3>2, <4>1, MemberMade
    <3>3. ASSUME NEW r \in Requests, AcceptMember(r) PROVE members'[o][u] = None
      <4>1. /\ req[r].inv \in Requests /\ invites[req[r].inv] # None
            /\ invites[req[r].inv].org = req[r].org
        BY <3>3 DEF AcceptMember, IInv, HandlersOK, LocalsOK, FollowsInvite,
           AcceptPCs
      <4>2. req[r].org # o
        BY <2>0, <4>1 DEF Hosted
      <4> QED BY <2>0, <3>3, <4>2, MemberMade
    <3> QED
      BY <3>1, <3>2, <3>3, MembersWritten DEF Next, vars, dbVars,
         InviteExpires, SessionEnds, Abort, Restart
  <2>3. ASSUME NEW r \in Requests, req'[r].pc = "signup_member",
               req'[r].org = o
        PROVE  FALSE
    <3>1. req'[r] # req[r]
      BY <2>0, <2>3
    <3>2. ~Abort(r) /\ ~Restart
      BY <2>0, <2>3, <3>1 DEF Abort, Restart, Return, New
    <3>3. Serve(r)
      BY <3>1, <3>2, WhoMoves
    <3>4. SignupCreateOrg(r)
      BY <2>3, <3>3, WhoComes
    <3>5. CreateOrg(req[r].org) /\ Goto(r, "signup_member")
      BY <2>0, <2>3, <3>4, ReturnKeeps DEF SignupCreateOrg, Ended
    <3>6. req'[r].org = req[r].org
      BY <2>0, <3>5 DEF Goto, Request
    <3> QED BY <2>0, <2>3, <3>5, <3>6 DEF CreateOrg
  <2> QED BY <2>1, <2>2, <2>3 DEF Abandoned
<1> QED
  BY <1>1, <1>2, InitInv, StepInv, HostedStep, PTL DEF Spec, AbandonedStays

-----------------------------------------------------------------------------
(* Passwords are looked for under the email, as a username, and written    *)
(* for the user: when the UPDATE comes somebody holds that name.           *)
FoundName(r) == req[r].pc = "password_update" => HoldersOf(req[r].user) # {}

Found == \A r \in Requests : FoundName(r)

(* A credential is never taken away and keeps its username.                *)
CredsKept ==
    \A u \in Emails : creds[u] # None =>
        creds'[u] # None /\ creds'[u].name = creds[u].name

LEMMA CredentialMade ==
  ASSUME IInv, NEW u \in Emails, NEW n \in Usernames, NEW pw \in Passwords,
         CreateLocalCredential(u, n, pw)
  PROVE  CredsKept
<1>1. /\ creds[u] = None
      /\ \A v \in Emails \ {u} : creds'[v] = creds[v]
  BY DEF CreateLocalCredential, CredentialFree, IInv, TypeOK, DBTypeOK
<1> QED BY <1>1 DEF CredsKept

LEMMA PasswordWritten ==
  ASSUME IInv, NEW u \in Emails, NEW pw \in Passwords,
         UpdateLocalPasswordHash(u, pw)
  PROVE  /\ CredsKept
         /\ creds[u] # None => creds'[u] # None /\ creds'[u].pw = pw
         /\ creds[u] = None => creds'[u] = None
<1>1. /\ creds \in [Emails -> Credential \cup {None}]
      /\ None \notin Credential
  BY NoneAssumption DEF IInv, TypeOK, DBTypeOK
<1>2. \A v \in Emails \ {u} : creds'[v] = creds[v]
  BY <1>1 DEF UpdateLocalPasswordHash
<1>3. CASE creds[u] = None
  <2>1. creds'[u] = None
    BY <1>1, <1>3 DEF UpdateLocalPasswordHash
  <2> QED BY <1>2, <1>3, <2>1 DEF CredsKept
<1>4. CASE creds[u] # None
  <2>1. creds[u] \in Credential /\ creds'[u] = [creds[u] EXCEPT !.pw = pw]
    BY <1>1, <1>4 DEF UpdateLocalPasswordHash
  <2>2. /\ creds'[u] \in Credential /\ creds'[u].pw = pw
        /\ creds'[u].name = creds[u].name
    BY <2>1 DEF Credential
  <2> QED BY <1>1, <1>2, <1>4, <2>2 DEF CredsKept
<1> QED BY <1>3, <1>4

LEMMA ServeCreds ==
  ASSUME IInv, NEW r \in Requests, Serve(r)
  PROVE  CredsKept
<1>0. LocalsOK(req[r])
  BY DEF IInv, HandlersOK
<1>1. CASE UNCHANGED creds
  BY <1>1 DEF CredsKept
<1>2. CASE /\ SignupCredential(r)
           /\ CreateLocalCredential(req[r].user, req[r].name, req[r].pw)
  <2>1. /\ req[r].user \in Emails /\ req[r].name \in Usernames
        /\ req[r].pw \in Passwords
    BY <1>0, <1>2 DEF SignupCredential, LocalsOK, SignupPCs
  <2> QED BY <1>2, <2>1, CredentialMade
<1>3. CASE PasswordUpdate(r) \/ PasswordCreate(r)
  <2>1. req[r].user \in Emails /\ req[r].pw \in Passwords
    BY <1>0, <1>3 DEF PasswordUpdate, PasswordCreate, LocalsOK, PasswordPCs
  <2>2. req[r].user \in Usernames
    BY <2>1 DEF Usernames
  <2>3. CASE PasswordUpdate(r)
    BY <2>1, <2>3, PasswordWritten DEF PasswordUpdate
  <2>4. CASE PasswordCreate(r)
    BY <1>1, <2>1, <2>2, <2>4, CredentialMade DEF PasswordCreate, dbVars
  <2> QED BY <1>3, <2>3, <2>4
<1>4. \/ UNCHANGED creds
      \/ /\ SignupCredential(r)
         /\ CreateLocalCredential(req[r].user, req[r].name, req[r].pw)
      \/ PasswordUpdate(r) \/ PasswordCreate(r)
  <2>1. CASE Signup(r) \/ Login(r)
    BY <2>1 DEF dbVars, Signup, SignupUpsert, SignupCredential, SignupFindOrg,
       SignupCreateOrg, SignupMember, SignupSession, Login, LoginPassword,
       LoginFailed, LoginTOTP, LoginCode, LoginOrg, LoginSession, LoginRecord,
       UpsertUserByVerifiedEmail, CreateOrg, EnsureMembership,
       RecordLoginAttempt
  <2>2. CASE InviteCreate(r) \/ InviteAccept(r)
    BY <2>2 DEF dbVars, InviteCreate, InviteAuth, InviteRole, InviteInsert,
       InviteAccept, AcceptLookup, AcceptUser, AcceptMember, AcceptUse,
       AcceptSession, CreateInvite, UpsertUserByVerifiedEmail,
       EnsureMembership, UseInvite
  <2>3. CASE SetPassword(r) \/ TOTPSetup(r)
    BY <2>3 DEF dbVars, SetPassword, PasswordStart, PasswordFind, TOTPSetup,
       TOTPStart, TOTPSet, SetTOTPSecret
  <2> QED BY <2>1, <2>2, <2>3 DEF Serve
<1> QED BY <1>1, <1>2, <1>3, <1>4

(* Somebody who holds a username goes on holding it.                       *)
LEMMA NamesStay ==
  ASSUME IInv, CredsKept, NEW n, HoldersOf(n) # {}
  PROVE  \E v \in Emails : creds'[v] # None /\ creds'[v].name = n
BY DEF HoldersOf, CredsKept

LEMMA ServePassword ==
  ASSUME IInv, Found, NEW r \in Requests, Serve(r)
  PROVE  FoundName(r)'
<1> SUFFICES ASSUME req'[r].pc = "password_update"
             PROVE  HoldersOf(req[r].user)' # {}
  BY DEF FoundName
<1>0. req \in [Requests -> Request]
  BY DEF IInv, TypeOK
<1>1. PasswordFind(r)
  BY WhoComes
<1>2. HoldersOf(req[r].user) # {} /\ Goto(r, "password_update")
  <2>1. ~Goto(r, "password_create")
    BY <1>0, GotoKeeps
  <2> QED BY <1>1, <2>1 DEF PasswordFind
<1>3. req'[r].user = req[r].user /\ UNCHANGED creds
  BY <1>0, <1>1, <1>2 DEF PasswordFind, Goto, Request, dbVars
<1> QED BY <1>2, <1>3 DEF HoldersOf

LEMMA StepCreds == IInv /\ [Next]_vars => CredsKept
<1> SUFFICES ASSUME IInv, [Next]_vars PROVE CredsKept
  OBVIOUS
<1>1. CASE UNCHANGED creds
  BY <1>1 DEF CredsKept
<1> QED
  BY <1>1, ServeCreds DEF Next, vars, dbVars, InviteExpires, SessionEnds,
     Abort, Restart

LEMMA FoundStep == IInv /\ Found /\ [Next]_vars => Found'
<1> SUFFICES ASSUME IInv, Found, [Next]_vars, NEW r \in Requests
             PROVE  FoundName(r)'
  BY DEF Found
<1>0. req \in [Requests -> Request] /\ CredsKept
  BY StepCreds DEF IInv, TypeOK
<1>1. CASE req'[r] = req[r]
  BY <1>0, <1>1, NamesStay DEF Found, FoundName, HoldersOf
<1>2. CASE Serve(r)
  BY <1>2, ServePassword
<1>3. CASE Abort(r) \/ Restart
  <2>1. req'[r].pc = "error" \/ req'[r] = req[r]
    BY <1>0, <1>3 DEF Abort, Restart, Return, New
  <2> QED BY <1>1, <2>1 DEF FoundName
<1> QED BY <1>1, <1>2, <1>3, WhoMoves

(* Whoever is told that the password was set has it, or has no credential  *)
(* and somebody else holds the email as username: signup takes any         *)
(* username, the look-up asks for one and the UPDATE for a user, so with   *)
(* such a name around it touches no row and is answered the same.  There   *)
(* is no other way to be told so in vain.                                  *)
THEOREM PasswordsTakeEffect == Spec => PasswordTakesEffect
<1> DEFINE Effect(r) ==
      \/ /\ creds'[req[r].user] # None
         /\ creds'[req[r].user].pw = req[r].pw
      \/ /\ creds'[req[r].user] = None
         /\ \E v \in Emails : /\ creds'[v] # None
                              /\ creds'[v].name = req[r].user
<1>1. Init => Found
  BY DEF Init, Found, FoundName, New
<1>2. IInv /\ Found /\ [Next]_vars =>
        [\A r \in Requests :
            req[r].pc \in PasswordPCs /\ req'[r].pc = "ok" => Effect(r)]_vars
  <2> SUFFICES ASSUME IInv, Found, [Next]_vars, NEW r \in Requests,
                      req[r].pc \in PasswordPCs, req'[r].pc = "ok"
               PROVE  Effect(r)
    OBVIOUS
  <2>0. /\ req \in [Requests -> Request] /\ FoundName(r) /\ CredsKept
        /\ creds \in [Emails -> Credential \cup {None}]
        /\ req[r].user \in Emails /\ req[r].pw \in Passwords
    BY StepCreds DEF IInv, TypeOK, DBTypeOK, Found, HandlersOK, LocalsOK
  <2>1. req'[r] # req[r]
    BY DEF PasswordPCs
  <2>2. ~Abort(r) /\ ~Restart
    BY <2>0 DEF Abort, Restart, Return, New, PasswordPCs
  <2>3. Serve(r)
    BY <2>1, <2>2, WhoMoves
  <2>4. SetPassword(r)
    BY <2>3 DEF PasswordPCs, Serve, Arrives, Signup, SignupUpsert,
       SignupCredential, SignupFindOrg, SignupCreateOrg, SignupMember,
       SignupSession, Login, LoginPassword, LoginFailed, LoginTOTP, LoginCode,
       LoginOrg, LoginSession, LoginRecord, InviteCreate, InviteAuth,
       InviteRole, InviteInsert, InviteAccept, AcceptLookup, AcceptUser,
       AcceptMember, AcceptUse, AcceptSession, TOTPSetup, TOTPStart, TOTPSet
  <2>5. PasswordUpdate(r) \/ PasswordCreate(r)
    <3>1. ~PasswordFind(r)
      BY <2>0, GotoKeeps DEF PasswordFind
    <3> QED BY <2>4, <3>1 DEF SetPassword, PasswordStart, Arrives, PasswordPCs
  <2>6. CASE PasswordUpdate(r)
    BY <2>0, <2>6, PasswordWritten, NamesStay DEF PasswordUpdate, FoundName
  <2>7. CASE PasswordCreate(r)
    <3>1. CreateLocalCredential(req[r].user, req[r].user, req[r].pw)
      BY <2>0, <2>7, ReturnKeeps DEF PasswordCreate, Ended
    <3>2. /\ creds'[req[r].user] = [name |-> req[r].user, pw |-> req[r].pw]
          /\ [name |-> req[r].user, pw |-> req[r].pw] \in Credential
      BY <2>0, <3>1 DEF CreateLocalCredential, Credential, Usernames
    <3> QED BY <3>2, NoneAssumption
  <2> QED BY <2>5, <2>6, <2>7
<1> QED
  BY <1>1, <1>2, InitInv, StepInv, FoundStep, PTL DEF Spec, PasswordTakesEffect
=============================================================================
