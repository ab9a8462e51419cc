------------------------------ MODULE Linking ------------------------------
(***************************************************************************)
(* Signing in through a provider (Microsoft, Google, GitHub), next to the  *)
(* account handlers.  The callback of a provider gives an identity, that   *)
(* is a provider and its subject, and an email.  An identity that is       *)
(* linked to a user signs the user in; one whose email is a user's becomes *)
(* a pending link, whose token goes into a cookie, and a later request     *)
(* with that cookie and the password of the user links it.  Pending links  *)
(* are in memory.  A sign-in is either kind of request, with the statement *)
(* or the access to memory it does next in pc, as in Accounts.  With       *)
(* Faults a statement may fail; each handler has its own answer to that.   *)
(***************************************************************************)
EXTENDS Accounts

CONSTANTS Identities,         \* <<provider, subject>> pairs
          Claims,             \* <<identity, email>> pairs providers report
          SignIns,            \* requests of the two kinds
          MaxSignInsInFlight

ASSUME ClaimsAssumption == Claims \subseteq Identities \X Emails
ASSUME NoSignInAssumption == None \notin SignIns \cup Identities

VARIABLES identities,    \* the user each identity is linked to
          pending,       \* pendingMap, by the callback that made the token
          sign,          \* every sign-in: where its handler is
          granted        \* the session whose cookie a sign-in was given

signVars == <<identities, pending, sign, granted>>
allVars == <<vars, signVars>>

PendingLink == [id : Identities, email : Emails, expired : BOOLEAN]
Grant == [user : Emails, org : Slugs]

CallbackPCs == {"callback_email", "callback_pend", "callback_org"}
LinkPCs == {"link_password", "link_totp", "link_code", "link_find",
            "link_insert", "link_clear", "link_org"}
SignInBusy == CallbackPCs \cup LinkPCs \cup {"grant", "record"}
SignInEnded == {"ok", "refused", "error", "link_required", "signup_required"}

SignIn == [pc : SignInBusy \cup SignInEnded \cup {"new"},
           id : Identities \cup {None}, email : Emails \cup {None},
           token : SignIns \cup {None}, user : Emails \cup {None},
           org : Slugs \cup {None}]

NewSignIn == [pc |-> "new", id |-> None, email |-> None, token |-> None,
              user |-> None, org |-> None]

LinkingTypeOK == /\ TypeOK
                 /\ identities \in [Identities -> Emails \cup {None}]
                 /\ pending \in [SignIns -> PendingLink \cup {None}]
                 /\ sign \in [SignIns -> SignIn]
                 /\ granted \in [SignIns -> Grant \cup {None}]

LinkingInit == /\ Init
               /\ identities = [x \in Identities |-> None]
               /\ pending = [t \in SignIns |-> None]
               /\ sign = [s \in SignIns |-> NewSignIn]
               /\ granted = [s \in SignIns |-> None]

-----------------------------------------------------------------------------
SignInArrives(s) ==
    /\ sign[s].pc = "new"
    /\ Cardinality({q \in SignIns : sign[q].pc \in SignInBusy})
          < MaxSignInsInFlight

Proceed(s, pc) == sign' = [sign EXCEPT ![s].pc = pc]

(* Of its locals the identity and the token are kept.                      *)
Answer(s, result) ==
    sign' = [sign EXCEPT ![s] = [NewSignIn EXCEPT !.pc = result,
                                                  !.id = sign[s].id,
                                                  !.token = sign[s].token]]

(* A sign-in may only look at the account tables.                          *)
SignInStep == UNCHANGED vars

-----------------------------------------------------------------------------
(* GET /auth/{provider}/callback                                           *)

(* After state, code and token are checked: GetUserByIdentity, any error   *)
(* of which counts as "not linked".                                        *)
CallbackIdentity(s) ==
    /\ SignInArrives(s)
    /\ \E c \in Claims :
          LET i == [NewSignIn EXCEPT !.id = c[1], !.email = c[2]]
              u == identities[c[1]]
          IN \/ /\ u # None
                /\ sign' = [sign EXCEPT ![s] = [i EXCEPT !.pc = "callback_org",
                                                         !.user = u]]
             \/ /\ u = None \/ Faults
                /\ sign' = [sign EXCEPT ![s] = [i EXCEPT !.pc = "callback_email"]]
    /\ UNCHANGED <<identities, pending, granted>> /\ SignInStep

(* Mutant: whoever has the email is signed in.                             *)
CallbackAutoLinks(s) ==
    /\ sign[s].pc = "callback_email"
    /\ \/ /\ sign[s].email \in users
          /\ sign' = [sign EXCEPT ![s].pc = "callback_org",
                                  ![s].user = sign[s].email]
       \/ /\ sign[s].email \notin users
          /\ Answer(s, "signup_required")
    /\ UNCHANGED <<identities, pending, granted>> /\ SignInStep

(* GetUserByEmail: nobody is linked without a password, nobody created.    *)
CallbackEmail(s) ==
    /\ sign[s].pc = "callback_email"
    /\ \/ /\ sign[s].email \in users
          /\ Proceed(s, "callback_pend")
       \/ /\ sign[s].email \notin users \/ Faults
          /\ Answer(s, "signup_required")
    /\ UNCHANGED <<identities, pending, granted>> /\ SignInStep

(* putPending, for ten minutes.                                            *)
CallbackPend(s) ==
    /\ sign[s].pc = "callback_pend"
    /\ pending' = [pending EXCEPT ![s] = [id |-> sign[s].id,
                                          email |-> sign[s].email,
                                          expired |-> FALSE]]
    /\ Answer(s, "link_required")
    /\ UNCHANGED <<identities, granted>> /\ SignInStep

(* Mutant: an error of PickUserOrg is ignored.                             *)
PickOrgOrNone(s, pc) ==
    /\ sign[s].pc = pc
    /\ \/ \E o \in PickUserOrg(sign[s].user) :
             sign' = [sign EXCEPT ![s].pc = "grant", ![s].org = o]
       \/ /\ PickUserOrg(sign[s].user) = {} \/ Faults
          /\ Proceed(s, "grant")
    /\ UNCHANGED <<identities, pending, granted>> /\ SignInStep

(* PickUserOrg, of either handler: an error is no organisation.            *)
PickOrg(s, pc) ==
    /\ sign[s].pc = pc
    /\ \/ \E o \in PickUserOrg(sign[s].user) :
             sign' = [sign EXCEPT ![s].pc = "grant", ![s].org = o]
       \/ /\ PickUserOrg(sign[s].user) = {} \/ Faults
          /\ Answer(s, "refused")
    /\ UNCHANGED <<identities, pending, granted>> /\ SignInStep

(* The organisation of a user who is linked already.                       *)
CallbackOrg(s) == PickOrg(s, "callback_org")

(* SetSessionCookie, of either handler.                                    *)
GrantSession(s) ==
    /\ sign[s].pc = "grant"
    /\ granted' = [granted EXCEPT ![s] = [user |-> sign[s].user,
                                          org |-> sign[s].org]]
    /\ Proceed(s, "record")
    /\ UNCHANGED <<identities, pending>> /\ SignInStep

(* RecordLoginSuccess, under the email; an error is ignored.               *)
GrantRecord(s) ==
    /\ sign[s].pc = "record"
    /\ \/ RecordLoginAttempt(sign[s].user, TRUE)
       \/ Faults /\ UNCHANGED dbVars
    /\ Answer(s, "ok")
    /\ UNCHANGED <<identities, pending, granted, req, session>>

-----------------------------------------------------------------------------
(* POST /auth/link/password                                                *)

(* getPending, which forgets a link that has expired.  The cookie is of    *)
(* any callback that was answered so.                                      *)
LinkPending(s) ==
    /\ SignInArrives(s)
    /\ \E t \in SignIns :
          /\ sign[t].pc = "link_required"
          /\ IF pending[t] # None /\ ~pending[t].expired
             THEN /\ sign' = [sign EXCEPT ![s] =
                        [NewSignIn EXCEPT !.pc = "link_password", !.token = t,
                                          !.id = pending[t].id,
                                          !.email = pending[t].email]]
                  /\ UNCHANGED pending
             ELSE /\ sign' = [sign EXCEPT ![s].pc = "refused"]
                  /\ pending' = [pending EXCEPT ![t] = None]
    /\ UNCHANGED <<identities, granted>> /\ SignInStep

(* GetLocalCredentialByUsername and the password; an error is a wrong one. *)
LinkPassword(s) ==
    /\ sign[s].pc = "link_password"
    /\ \/ \E n \in Usernames, pw \in Passwords : \E u \in HoldersOf(n) :
             /\ creds[u].pw = pw
             /\ sign' = [sign EXCEPT ![s].pc = "link_totp", ![s].user = u]
       \/ Answer(s, "refused")
    /\ UNCHANGED <<identities, pending, granted>> /\ SignInStep

(* UserHasTOTP answers FALSE when its query fails.                         *)
LinkTOTP(s) ==
    /\ sign[s].pc = "link_totp"
    /\ \/ UserHasTOTP(sign[s].user) /\ Proceed(s, "link_code")
       \/ /\ ~UserHasTOTP(sign[s].user) \/ Faults
          /\ Proceed(s, "link_find")
    /\ UNCHANGED <<identities, pending, granted>> /\ SignInStep

(* GetTOTPSecret, and a code of the secret the client's app knows.         *)
LinkCode(s) ==
    /\ sign[s].pc = "link_code"
    /\ \E code \in Requests \cup {None} :
          IF totp[sign[s].user] = code THEN Proceed(s, "link_find")
                                       ELSE Answer(s, "refused")
    /\ UNCHANGED <<identities, pending, granted>> /\ SignInStep

(* Mutant: the emails are not compared.                                    *)
LinkFindAnyEmail(s) ==
    /\ sign[s].pc = "link_find"
    /\ \/ /\ identities[sign[s].id] \in {None, sign[s].user} \/ Faults
          /\ Proceed(s, "link_insert")
       \/ /\ identities[sign[s].id] \notin {None, sign[s].user}
          /\ Answer(s, "refused")
    /\ UNCHANGED <<identities, pending, granted>> /\ SignInStep

(* The email must be the one of the provider; GetUserByIdentity, an error  *)
(* of which counts as "not linked".                                        *)
LinkFind(s) ==
    LET mine == sign[s].user = sign[s].email
        elsewhere == identities[sign[s].id] \notin {None, sign[s].user}
    IN /\ sign[s].pc = "link_find"
       /\ \/ /\ ~mine \/ elsewhere
             /\ Answer(s, "refused")
          \/ /\ mine
             /\ ~elsewhere \/ Faults
             /\ Proceed(s, "link_insert")
       /\ UNCHANGED <<identities, pending, granted>> /\ SignInStep

(* ON CONFLICT DO NOTHING: an identity that is linked stays as it is, and  *)
(* the handler does not learn of it.                                       *)
LinkIdentity(s) ==
    /\ sign[s].pc = "link_insert"
    /\ \/ /\ identities' = [identities EXCEPT ![sign[s].id] =
                               IF @ = None THEN sign[s].user ELSE @]
          /\ Proceed(s, "link_clear")
       \/ /\ Faults
          /\ Answer(s, "error")
          /\ UNCHANGED identities
    /\ UNCHANGED <<pending, granted>> /\ SignInStep

(* Mutant: the pending link stays.                                         *)
LinkClearForgotten(s) ==
    /\ sign[s].pc = "link_clear"
    /\ Proceed(s, "link_org")
    /\ UNCHANGED <<identities, pending, granted>> /\ SignInStep

(* After the profile is updated, an error of which is ignored: delPending. *)
LinkClear(s) ==
    /\ sign[s].pc = "link_clear"
    /\ pending' = [pending EXCEPT ![sign[s].token] = None]
    /\ Proceed(s, "link_org")
    /\ UNCHANGED <<identities, granted>> /\ SignInStep

LinkOrg(s) == PickOrg(s, "link_org")

-----------------------------------------------------------------------------
(* Ten minutes pass.                                                       *)
PendingExpires(t) ==
    /\ pending[t] # None /\ ~pending[t].expired
    /\ pending' = [pending EXCEPT ![t].expired = TRUE]
    /\ UNCHANGED <<identities, sign, granted>> /\ SignInStep

(* The server restarts: pending links are gone as well.                    *)
LinkingRestart ==
    /\ Restart
    /\ pending' = [t \in SignIns |-> None]
    /\ granted' = [s \in SignIns |-> None]
    /\ sign' = [s \in SignIns |->
                  IF sign[s].pc \in SignInBusy
                  THEN [NewSignIn EXCEPT !.pc = "error", !.token = sign[s].token]
                  ELSE sign[s]]
    /\ UNCHANGED identities

Callback(s) == \/ CallbackIdentity(s) \/ CallbackEmail(s) \/ CallbackPend(s)
               \/ CallbackOrg(s)

LinkWithPassword(s) == \/ LinkPending(s) \/ LinkPassword(s) \/ LinkTOTP(s)
                       \/ LinkCode(s) \/ LinkFind(s) \/ LinkIdentity(s)
                       \/ LinkClear(s) \/ LinkOrg(s)

LinkingNext ==
    \/ \E r \in Requests : /\ \/ Serve(r) \/ InviteExpires(r)
                              \/ SessionEnds(r) \/ Abort(r)
                           /\ UNCHANGED signVars
    \/ \E s \in SignIns : \/ Callback(s) \/ LinkWithPassword(s)
                          \/ GrantSession(s) \/ GrantRecord(s)
                          \/ PendingExpires(s)
    \/ LinkingRestart

LinkingSpec == LinkingInit /\ [][LinkingNext]_allVars

-----------------------------------------------------------------------------
(* An identity is linked only to the user whose email the provider gave    *)
(* for it: the password of one user does not complete what another began.  *)
LinksAreClaimed ==
    \A x \in Identities : identities[x] # None => <<x, identities[x]>> \in Claims

(* A pending link that has been completed begins no other linking.         *)
TokenSpent ==
    [][\A r, s \in SignIns :
          /\ sign[r].pc = "ok" /\ sign[s].pc = "new"
          /\ sign'[s].pc = "link_password"
          => sign'[s].token # sign[r].token]_sign

(* Whoever a callback signs in is the user the identity is linked to.      *)
(* Whoever LinkWithPassword signs in is a user whose email the provider    *)
(* gave for the identity, and by then it is linked; but not always to this *)
(* user, because the look-up and the INSERT are two statements, a failing  *)
(* look-up counts as "not linked" and the INSERT ignores a conflict: when  *)
(* the provider has reported two emails for the identity, the user who     *)
(* loses the race is signed in all the same.                               *)
SignInIsClaimed ==
    \A s \in SignIns : granted[s] # None =>
        LET x == sign[s].id
            u == granted[s].user
        IN /\ identities[x] # None
           /\ IF sign[s].token = None THEN identities[x] = u
                                      ELSE <<x, u>> \in Claims
=============================================================================
