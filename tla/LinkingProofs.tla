--------------------------- MODULE LinkingProofs ---------------------------
(***************************************************************************)
(* Theorems about Linking, for any people, identities and numbers of       *)
(* requests, with or without failures and restarts.  The invariant says    *)
(* what each step of a sign-in knows of the identity it carries; it needs  *)
(* nothing of the account tables, which the other handlers change freely.  *)
(***************************************************************************)
EXTENDS Linking, AccountsProofs

(* What is remembered about identities comes from a provider.              *)
RecordsOK ==
    /\ identities \in [Identities -> Emails \cup {None}]
    /\ pending \in [SignIns -> PendingLink \cup {None}]
    /\ granted \in [SignIns -> Grant \cup {None}]
    /\ LinksAreClaimed
    /\ \A t \in SignIns : pending[t] # None =>
                              <<pending[t].id, pending[t].email>> \in Claims

Claimed == {"callback_email", "callback_pend", "link_password", "link_totp",
            "link_code", "link_find", "link_insert"}
Known == {"callback_org", "link_totp", "link_code", "link_find", "link_insert",
          "link_clear", "link_org", "grant", "record"}

(* What a sign-in has in its local variables at each step.                 *)
KnowsOK(i) ==
    /\ i.pc \in SignInBusy => i.id \in Identities
    /\ i.pc \in Claimed => <<i.id, i.email>> \in Claims
    /\ i.pc \in Known => i.user \in Emails
    /\ i.pc \in {"link_password", "link_totp", "link_code", "link_find",
                 "link_insert", "link_clear"} => i.token \in SignIns
    /\ i.pc = "link_insert" => i.user = i.email
    /\ i.pc \in {"grant", "record"} => i.org \in Slugs

LinkInv == /\ RecordsOK
           /\ sign \in [SignIns -> SignIn]
           /\ \A s \in SignIns : KnowsOK(sign[s])

-----------------------------------------------------------------------------
(* One step of a sign-in changes its record only; the invariant need only  *)
(* be shown of the new record.                                             *)
LEMMA OneSignIn ==
  ASSUME LinkInv, RecordsOK', NEW s \in SignIns, NEW i \in SignIn, KnowsOK(i),
         sign' = [sign EXCEPT ![s] = i]
  PROVE  LinkInv'
<1>1. sign' \in [SignIns -> SignIn]
  BY DEF LinkInv
<1>2. ASSUME NEW q \in SignIns PROVE KnowsOK(sign'[q])
  BY DEF LinkInv
<1> QED BY <1>1, <1>2 DEF LinkInv

(* A handler that answers knows nothing any more.                          *)
LEMMA AnswerOK ==
  ASSUME LinkInv, RecordsOK', NEW s \in SignIns, NEW result \in SignInEnded,
         Answer(s, result)
  PROVE  LinkInv'
<1> DEFINE i == [NewSignIn EXCEPT !.pc = result, !.id = sign[s].id,
                                  !.token = sign[s].token]
<1>1. sign[s] \in SignIn
  BY DEF LinkInv
<1>2. i \in SignIn /\ i.pc = result
  BY <1>1 DEF SignIn, NewSignIn
<1>3. KnowsOK(i)
  BY <1>2 DEF KnowsOK, SignInEnded, SignInBusy, CallbackPCs, LinkPCs, Claimed, Known
<1> HIDE DEF i
<1>4. sign' = [sign EXCEPT ![s] = i]
  BY DEF Answer, i
<1> QED BY <1>2, <1>3, <1>4, OneSignIn

(* A handler goes on with what it knows.                                   *)
LEMMA ProceedOK ==
  ASSUME LinkInv, RecordsOK', NEW s \in SignIns, NEW pc \in SignInBusy,
         Proceed(s, pc), KnowsOK([sign[s] EXCEPT !.pc = pc])
  PROVE  LinkInv'
<1>1. [sign[s] EXCEPT !.pc = pc] \in SignIn
  BY DEF LinkInv, SignIn
<1>2. sign' = [sign EXCEPT ![s] = [sign[s] EXCEPT !.pc = pc]]
  BY DEF Proceed
<1> QED BY <1>1, <1>2, OneSignIn

LEMMA RecordsKept ==
  ASSUME LinkInv, UNCHANGED <<identities, pending, granted>>
  PROVE  RecordsOK'
BY DEF LinkInv, RecordsOK, LinksAreClaimed

-----------------------------------------------------------------------------
LEMMA LinkInitInv == LinkingInit => LinkInv
<1> SUFFICES ASSUME LinkingInit PROVE LinkInv
  OBVIOUS
<1>1. NewSignIn \in SignIn /\ KnowsOK(NewSignIn)
  BY DEF NewSignIn, SignIn, KnowsOK, SignInBusy, CallbackPCs, LinkPCs, Claimed, Known
<1> QED
  BY <1>1 DEF LinkingInit, LinkInv, RecordsOK, LinksAreClaimed

LEMMA PickOrgKeeps ==
  ASSUME LinkInv, NEW s \in SignIns, NEW pc \in {"callback_org", "link_org"},
         PickOrg(s, pc)
  PROVE  LinkInv'
<1> USE DEF SignInBusy, SignInEnded, CallbackPCs, LinkPCs, Claimed, Known
<1>1. RecordsOK'
  BY RecordsKept DEF PickOrg
<1>2. sign[s] \in SignIn /\ KnowsOK(sign[s]) /\ sign[s].pc = pc
      /\ sign \in [SignIns -> SignIn]
  BY DEF LinkInv, PickOrg
<1>3. ASSUME NEW o \in Slugs,
             sign' = [sign EXCEPT ![s].pc = "grant", ![s].org = o]
      PROVE  LinkInv'
  <2> DEFINE i == [sign[s] EXCEPT !.pc = "grant", !.org = o]
  <2>1. i \in SignIn /\ KnowsOK(i)
    BY <1>2 DEF SignIn, KnowsOK
  <2>2. sign' = [sign EXCEPT ![s] = i]
    BY <1>2, <1>3
  <2> HIDE DEF i
  <2> QED BY <1>1, <2>1, <2>2, OneSignIn
<1> QED BY <1>1, <1>3, AnswerOK DEF PickOrg, PickUserOrg

LEMMA CallbackKeeps ==
  ASSUME LinkInv, NEW s \in SignIns, Callback(s)
  PROVE  LinkInv'
<1> USE DEF SignInBusy, SignInEnded, CallbackPCs, LinkPCs, Claimed, Known
<1>0. /\ sign[s] \in SignIn /\ KnowsOK(sign[s])
      /\ sign \in [SignIns -> SignIn]
  BY DEF LinkInv
<1>1. CASE CallbackIdentity(s)
  <2>1. RecordsOK'
    BY <1>1, RecordsKept DEF CallbackIdentity
  <2>2. PICK c \in Claims :
          LET i == [NewSignIn EXCEPT !.id = c[1], !.email = c[2]]
              u == identities[c[1]]
          IN \/ /\ u # None
                /\ sign' = [sign EXCEPT ![s] = [i EXCEPT !.pc = "callback_org",
                                                         !.user = u]]
             \/ sign' = [sign EXCEPT ![s] = [i EXCEPT !.pc = "callback_email"]]
    BY <1>1 DEF CallbackIdentity
  <2> DEFINE i == [NewSignIn EXCEPT !.id = c[1], !.email = c[2]]
             j == [i EXCEPT !.pc = "callback_org", !.user = identities[c[1]]]
             k == [i EXCEPT !.pc = "callback_email"]
  <2>3. /\ c[1] \in Identities /\ c[2] \in Emails /\ c = <<c[1], c[2]>>
        /\ identities[c[1]] \in Emails \cup {None}
    BY ClaimsAssumption DEF LinkInv, RecordsOK
  <2>4. CASE identities[c[1]] # None /\ sign' = [sign EXCEPT ![s] = j]
    <3>1. j \in SignIn /\ KnowsOK(j)
      BY <2>3, <2>4 DEF NewSignIn, SignIn, KnowsOK
    <3> QED BY <2>1, <2>4, <3>1, OneSignIn
  <2>5. CASE sign' = [sign EXCEPT ![s] = k]
    <3>1. k \in SignIn /\ KnowsOK(k)
      BY <2>3 DEF NewSignIn, SignIn, KnowsOK
    <3> QED BY <2>1, <2>5, <3>1, OneSignIn
  <2> QED BY <2>2, <2>4, <2>5
<1>2. CASE CallbackEmail(s)
  <2>1. RecordsOK'
    BY <1>2, RecordsKept DEF CallbackEmail
  <2>2. KnowsOK([sign[s] EXCEPT !.pc = "callback_pend"])
    BY <1>0, <1>2 DEF CallbackEmail, KnowsOK, SignIn
  <2> QED BY <1>2, <2>1, <2>2, ProceedOK, AnswerOK DEF CallbackEmail
<1>3. CASE CallbackPend(s)
  <2>1. /\ <<sign[s].id, sign[s].email>> \in Claims
        /\ sign[s].id \in Identities /\ sign[s].email \in Emails
    BY <1>0, <1>3, ClaimsAssumption DEF CallbackPend, KnowsOK
  <2>2. RecordsOK'
    BY <1>3, <2>1 DEF CallbackPend, LinkInv, RecordsOK, LinksAreClaimed, PendingLink
  <2> QED BY <1>3, <2>2, AnswerOK DEF CallbackPend
<1>4. CASE CallbackOrg(s)
  BY <1>0, <1>4, PickOrgKeeps DEF CallbackOrg
<1> QED
  BY <1>1, <1>2, <1>3, <1>4 DEF Callback

LEMMA GrantKeeps ==
  ASSUME LinkInv, NEW s \in SignIns, GrantSession(s) \/ GrantRecord(s)
  PROVE  LinkInv'
<1> USE DEF SignInBusy, SignInEnded, CallbackPCs, LinkPCs, Claimed, Known
<1>0. sign[s] \in SignIn /\ KnowsOK(sign[s])
  BY DEF LinkInv
<1>1. CASE GrantSession(s)
  <2>1. [user |-> sign[s].user, org |-> sign[s].org] \in Grant
    BY <1>0, <1>1 DEF GrantSession, KnowsOK, Grant
  <2>2. RecordsOK'
    BY <1>1, <2>1 DEF GrantSession, LinkInv, RecordsOK, LinksAreClaimed
  <2>3. KnowsOK([sign[s] EXCEPT !.pc = "record"])
    BY <1>0, <1>1 DEF GrantSession, KnowsOK, SignIn
  <2> QED BY <1>1, <2>2, <2>3, ProceedOK DEF GrantSession
<1>2. CASE GrantRecord(s)
  <2>1. RecordsOK'
    BY <1>2, RecordsKept DEF GrantRecord
  <2> QED BY <1>2, <2>1, AnswerOK DEF GrantRecord
<1> QED BY <1>1, <1>2

LEMMA LinkWithPasswordKeeps ==
  ASSUME LinkInv, NEW s \in SignIns, LinkWithPassword(s)
  PROVE  LinkInv'
<1> USE DEF SignInBusy, SignInEnded, CallbackPCs, LinkPCs, Claimed, Known
<1>0. /\ sign[s] \in SignIn /\ KnowsOK(sign[s])
      /\ sign \in [SignIns -> SignIn]
  BY DEF LinkInv
<1>1. CASE LinkPending(s)
  <2>1. PICK t \in SignIns :
          IF pending[t] # None /\ ~pending[t].expired
             THEN /\ sign' = [sign EXCEPT ![s] =
                        [NewSignIn EXCEPT !.pc = "link_password", !.token = t,
                                          !.id = pending[t].id,
                                          !.email = pending[t].email]]
                  /\ UNCHANGED pending
             ELSE /\ sign' = [sign EXCEPT ![s].pc = "refused"]
                  /\ pending' = [pending EXCEPT ![t] = None]
    BY <1>1 DEF LinkPending
  <2>2. UNCHANGED <<identities, granted>>
    BY <1>1 DEF LinkPending
  <2>3. CASE pending[t] # None /\ ~pending[t].expired
    <3> DEFINE i == [NewSignIn EXCEPT !.pc = "link_password", !.token = t,
                                      !.id = pending[t].id,
                                      !.email = pending[t].email]
    <3>1. /\ pending[t].id \in Identities /\ pending[t].email \in Emails
          /\ <<pending[t].id, pending[t].email>> \in Claims
      BY <2>3 DEF LinkInv, RecordsOK, PendingLink
    <3>2. i \in SignIn /\ KnowsOK(i)
      BY <3>1 DEF NewSignIn, SignIn, KnowsOK
    <3>3. RecordsOK'
      BY <2>1, <2>2, <2>3, RecordsKept
    <3>4. sign' = [sign EXCEPT ![s] = i]
      BY <2>1, <2>3
    <3> HIDE DEF i
    <3> QED BY <3>2, <3>3, <3>4, OneSignIn
  <2>4. CASE ~(pending[t] # None /\ ~pending[t].expired)
    <3> DEFINE i == [sign[s] EXCEPT !.pc = "refused"]
    <3>1. i \in SignIn /\ KnowsOK(i)
      BY <1>0 DEF SignIn, KnowsOK
    <3>2. RecordsOK'
      BY <2>1, <2>2, <2>4 DEF LinkInv, RecordsOK, LinksAreClaimed
    <3>3. sign' = [sign EXCEPT ![s] = i]
      BY <2>1, <2>4
    <3> HIDE DEF i
    <3> QED BY <3>1, <3>2, <3>3, OneSignIn
  <2> QED BY <2>3, <2>4
<1>2. CASE LinkPassword(s)
  <2>1. RecordsOK'
    BY <1>2, RecordsKept DEF LinkPassword
  <2>2. ASSUME NEW u \in Emails,
               sign' = [sign EXCEPT ![s].pc = "link_totp", ![s].user = u]
        PROVE  LinkInv'
    <3> DEFINE i == [sign[s] EXCEPT !.pc = "link_totp", !.user = u]
    <3>1. i \in SignIn /\ KnowsOK(i)
      BY <1>0, <1>2 DEF LinkPassword, SignIn, KnowsOK
    <3>2. sign' = [sign EXCEPT ![s] = i]
      BY <1>0, <2>2
    <3> HIDE DEF i
    <3> QED BY <2>1, <3>1, <3>2, OneSignIn
  <2> QED BY <1>2, <2>1, <2>2, AnswerOK DEF LinkPassword, HoldersOf
<1>3. CASE LinkTOTP(s)
  <2>1. RecordsOK'
    BY <1>3, RecordsKept DEF LinkTOTP
  <2>2. /\ KnowsOK([sign[s] EXCEPT !.pc = "link_code"])
        /\ KnowsOK([sign[s] EXCEPT !.pc = "link_find"])
    BY <1>0, <1>3 DEF LinkTOTP, KnowsOK, SignIn
  <2> QED BY <1>3, <2>1, <2>2, ProceedOK DEF LinkTOTP
<1>4. CASE LinkCode(s)
  <2>1. RecordsOK'
    BY <1>4, RecordsKept DEF LinkCode
  <2>2. KnowsOK([sign[s] EXCEPT !.pc = "link_find"])
    BY <1>0, <1>4 DEF LinkCode, KnowsOK, SignIn
  <2> QED BY <1>4, <2>1, <2>2, ProceedOK, AnswerOK DEF LinkCode
<1>5. CASE LinkFind(s)
  <2>1. RecordsOK'
    BY <1>5, RecordsKept DEF LinkFind
  <2>2. CASE sign[s].user = sign[s].email /\ Proceed(s, "link_insert")
    <3>1. KnowsOK([sign[s] EXCEPT !.pc = "link_insert"])
      BY <1>0, <1>5, <2>2 DEF LinkFind, KnowsOK, SignIn
    <3> QED BY <2>1, <2>2, <3>1, ProceedOK
  <2> QED BY <1>5, <2>1, <2>2, AnswerOK DEF LinkFind
<1>6. CASE LinkIdentity(s)
  <2>1. /\ <<sign[s].id, sign[s].user>> \in Claims
        /\ sign[s].id \in Identities /\ sign[s].user \in Emails
    BY <1>0, <1>6 DEF LinkIdentity, KnowsOK
  <2>2. RecordsOK'
    BY <1>6, <2>1 DEF LinkIdentity, LinkInv, RecordsOK, LinksAreClaimed
  <2>3. KnowsOK([sign[s] EXCEPT !.pc = "link_clear"])
    BY <1>0, <1>6 DEF LinkIdentity, KnowsOK, SignIn
  <2> QED BY <1>6, <2>2, <2>3, ProceedOK, AnswerOK DEF LinkIdentity
<1>7. CASE LinkClear(s)
  <2>1. RecordsOK'
    BY <1>7 DEF LinkClear, LinkInv, RecordsOK, LinksAreClaimed
  <2>2. KnowsOK([sign[s] EXCEPT !.pc = "link_org"])
    BY <1>0, <1>7 DEF LinkClear, KnowsOK, SignIn
  <2> QED BY <1>7, <2>1, <2>2, ProceedOK DEF LinkClear
<1>8. CASE LinkOrg(s)
  BY <1>0, <1>8, PickOrgKeeps DEF LinkOrg
<1> QED
  BY <1>1, <1>2, <1>3, <1>4, <1>5, <1>6, <1>7, <1>8 DEF LinkWithPassword

-----------------------------------------------------------------------------
(* The other handlers, the clock and a restart.                            *)
LEMMA LinkStepInv == LinkInv /\ [LinkingNext]_allVars => LinkInv'
<1> SUFFICES ASSUME LinkInv, [LinkingNext]_allVars PROVE LinkInv'
  OBVIOUS
<1>1. CASE UNCHANGED signVars
  BY <1>1 DEF signVars, LinkInv, RecordsOK, LinksAreClaimed, KnowsOK
<1>2. ASSUME NEW t \in SignIns, PendingExpires(t) PROVE LinkInv'
  <2>1. [pending[t] EXCEPT !.expired = TRUE] \in PendingLink
    BY <1>2 DEF PendingExpires, LinkInv, RecordsOK, PendingLink
  <2>2. pending' \in [SignIns -> PendingLink \cup {None}]
    BY <1>2, <2>1 DEF PendingExpires, LinkInv, RecordsOK
  <2>3. \A q \in SignIns : pending'[q] # None =>
            <<pending'[q].id, pending'[q].email>> \in Claims
    BY <1>2, <2>1 DEF PendingExpires, LinkInv, RecordsOK, PendingLink
  <2>4. RecordsOK'
    BY <1>2, <2>2, <2>3 DEF PendingExpires, LinkInv, RecordsOK, LinksAreClaimed
  <2> QED
    BY <1>2, <2>4 DEF PendingExpires, LinkInv, KnowsOK
<1>3. CASE LinkingRestart
  <2>1. RecordsOK'
    BY <1>3 DEF LinkingRestart, LinkInv, RecordsOK, LinksAreClaimed
  <2>2. ASSUME NEW s \in SignIns PROVE sign'[s] \in SignIn /\ KnowsOK(sign'[s])
    <3>1. sign[s] \in SignIn /\ KnowsOK(sign[s])
      BY DEF LinkInv
    <3> QED
      BY <1>3, <3>1 DEF LinkingRestart, SignIn, NewSignIn, KnowsOK, Claimed, Known,
                        SignInBusy, SignInEnded, CallbackPCs, LinkPCs
  <2>3. sign' \in [SignIns -> SignIn]
    BY <1>3, <2>2 DEF LinkingRestart
  <2> QED BY <2>1, <2>2, <2>3 DEF LinkInv
<1> QED
  BY <1>1, <1>2, <1>3, CallbackKeeps, LinkWithPasswordKeeps, GrantKeeps
  DEF LinkingNext, allVars

(* An identity is linked to nobody but the user whose email its provider   *)
(* gave (LinkWithPassword compares the two), whatever fails, whoever else  *)
(* signs in and whenever the server restarts.                              *)
THEOREM LinksFollowClaims == LinkingSpec => []LinksAreClaimed
<1>1. LinkInv => LinksAreClaimed
  BY DEF LinkInv, RecordsOK
<1> QED
  BY <1>1, LinkInitInv, LinkStepInv, PTL DEF LinkingSpec

-----------------------------------------------------------------------------
(* The steps after the identity is known to be linked.                     *)
Linked == {"callback_org", "link_clear", "link_org", "grant", "record"}

(* User u may be signed in for identity x: a callback, which has no token, *)
(* has found the two linked; a linking knows that the provider gave the    *)
(* email of u for x and that x is linked.                                  *)
ShownFor(x, token, u) ==
    /\ identities[x] # None
    /\ IF token = None THEN identities[x] = u ELSE <<x, u>> \in Claims

(* A session is granted at the end, to a user who may be.                  *)
SignedInOK(s) ==
    /\ sign[s].pc \in Linked =>
           ShownFor(sign[s].id, sign[s].token, sign[s].user)
    /\ granted[s] # None =>
           /\ sign[s].pc \in {"record", "ok"}
           /\ sign[s].id \in Identities
           /\ ShownFor(sign[s].id, sign[s].token, granted[s].user)

SignedIn == \A s \in SignIns : SignedInOK(s)

(* No step takes a link away; the step of one sign-in cannot break what    *)
(* holds of another one.                                                   *)
LEMMA OthersStay ==
  ASSUME LinkInv, SignedIn, NEW s \in SignIns, NEW i \in SignIn,
         sign' = [sign EXCEPT ![s] = i],
         \A x \in Identities : identities[x] # None => identities'[x] = identities[x],
         \A q \in SignIns \ {s} : granted'[q] = granted[q],
         SignedInOK(s)'
  PROVE  SignedIn'
<1> SUFFICES ASSUME NEW q \in SignIns, q # s PROVE SignedInOK(q)'
  BY DEF SignedIn
<1>1. sign'[q] = sign[q] /\ granted'[q] = granted[q]
  BY DEF LinkInv
<1>2. SignedInOK(q) /\ KnowsOK(sign[q]) /\ granted[q] \in Grant \cup {None}
  BY DEF LinkInv, SignedIn, RecordsOK
<1>3. ASSUME NEW x \in Identities, NEW t, NEW u, ShownFor(x, t, u)
      PROVE  ShownFor(x, t, u)'
  BY <1>3 DEF ShownFor
<1>4. sign[q].pc \in Linked => sign[q].id \in Identities
  BY <1>2 DEF KnowsOK, Linked, SignInBusy, CallbackPCs, LinkPCs
<1> QED BY <1>1, <1>2, <1>3, <1>4 DEF SignedInOK, ShownFor

LEMMA NothingShown ==
  ASSUME LinkInv, SignedIn, NEW s \in SignIns, NEW i \in SignIn,
         sign' = [sign EXCEPT ![s] = i], UNCHANGED <<identities, granted>>,
         sign[s].pc \notin {"record", "ok"},
         i.pc \in Linked => ShownFor(i.id, i.token, i.user)
  PROVE  SignedIn'
<1>1. sign'[s] = i
  BY DEF LinkInv
<1>2. granted[s] = None
  BY DEF SignedIn, SignedInOK
<1>3. SignedInOK(s)'
  BY <1>1, <1>2 DEF SignedInOK, ShownFor
<1> QED BY <1>3, OthersStay

(* A handler that goes on to a step before the link...                     *)
LEMMA NothingShownBefore ==
  ASSUME LinkInv, SignedIn, NEW s \in SignIns, sign[s].pc \notin {"record", "ok"},
         NEW pc \in SignInBusy \ Linked, Proceed(s, pc),
         UNCHANGED <<identities, granted>>
  PROVE  SignedIn'
<1> DEFINE i == [sign[s] EXCEPT !.pc = pc]
<1>1. i \in SignIn /\ i.pc = pc
  BY DEF LinkInv, SignIn
<1>2. sign' = [sign EXCEPT ![s] = i]
  BY DEF Proceed
<1> HIDE DEF i
<1> QED BY <1>1, <1>2, NothingShown

(* ...and one that answers.                                                *)
LEMMA NothingShownAnswer ==
  ASSUME LinkInv, SignedIn, NEW s \in SignIns, sign[s].pc \notin {"record", "ok"},
         NEW result \in SignInEnded, Answer(s, result),
         UNCHANGED <<identities, granted>>
  PROVE  SignedIn'
<1> DEFINE i == [NewSignIn EXCEPT !.pc = result, !.id = sign[s].id,
                                  !.token = sign[s].token]
<1>1. sign[s] \in SignIn
  BY DEF LinkInv
<1>2. i \in SignIn /\ i.pc = result
  BY <1>1 DEF SignIn, NewSignIn
<1>3. sign' = [sign EXCEPT ![s] = i]
  BY DEF Answer
<1>4. result \notin Linked
  BY DEF Linked, SignInEnded
<1> HIDE DEF i
<1> QED BY <1>2, <1>3, <1>4, NothingShown

LEMMA PickOrgShows ==
  ASSUME LinkInv, SignedIn, NEW s \in SignIns,
         NEW pc \in {"callback_org", "link_org"}, PickOrg(s, pc)
  PROVE  SignedIn'
<1>1. /\ sign[s] \in SignIn /\ sign[s].pc = pc
      /\ sign \in [SignIns -> SignIn] /\ SignedInOK(s)
  BY DEF LinkInv, PickOrg, SignedIn
<1>2. ASSUME NEW o \in Slugs,
             sign' = [sign EXCEPT ![s].pc = "grant", ![s].org = o]
      PROVE  SignedIn'
  <2> DEFINE i == [sign[s] EXCEPT !.pc = "grant", !.org = o]
  <2>1. i \in SignIn
    BY <1>1 DEF SignIn, SignInBusy
  <2>2. sign' = [sign EXCEPT ![s] = i]
    BY <1>1, <1>2
  <2>3. ShownFor(i.id, i.token, i.user)
    BY <1>1 DEF SignedInOK, Linked, SignIn
  <2>4. UNCHANGED <<identities, granted>>
    BY DEF PickOrg
  <2> HIDE DEF i
  <2> QED BY <1>1, <2>1, <2>2, <2>3, <2>4, NothingShown
<1>3. CASE Answer(s, "refused")
  BY <1>1, <1>3, NothingShownAnswer DEF PickOrg, SignInEnded
<1> QED BY <1>2, <1>3 DEF PickOrg, PickUserOrg

LEMMA CallbackShows ==
  ASSUME LinkInv, SignedIn, NEW s \in SignIns, Callback(s)
  PROVE  SignedIn'
<1> USE DEF SignInBusy, SignInEnded, CallbackPCs, LinkPCs, Linked
<1>1. CASE CallbackIdentity(s)
  <2>0. sign[s].pc = "new" /\ UNCHANGED <<identities, granted>>
    BY <1>1 DEF CallbackIdentity, SignInArrives
  <2>1. PICK c \in Claims :
          LET i == [NewSignIn EXCEPT !.id = c[1], !.email = c[2]]
              u == identities[c[1]]
          IN \/ /\ u # None
                /\ sign' = [sign EXCEPT ![s] = [i EXCEPT !.pc = "callback_org",
                                                         !.user = u]]
             \/ sign' = [sign EXCEPT ![s] = [i EXCEPT !.pc = "callback_email"]]
    BY <1>1 DEF CallbackIdentity
  <2> DEFINE i == [NewSignIn EXCEPT !.id = c[1], !.email = c[2]]
             j == [i EXCEPT !.pc = "callback_org", !.user = identities[c[1]]]
             k == [i EXCEPT !.pc = "callback_email"]
  <2>2. /\ c[1] \in Identities /\ c[2] \in Emails
        /\ identities[c[1]] \in Emails \cup {None}
    BY ClaimsAssumption DEF LinkInv, RecordsOK
  <2>3. /\ j \in SignIn /\ j.id = c[1] /\ j.user = identities[c[1]]
        /\ j.token = None
        /\ k \in SignIn /\ k.pc = "callback_email"
    BY <2>2 DEF NewSignIn, SignIn
  <2>4. \/ sign' = [sign EXCEPT ![s] = j] /\ identities[c[1]] # None
        \/ sign' = [sign EXCEPT ![s] = k]
    BY <2>1
  <2> HIDE DEF j, k
  <2> QED BY <2>0, <2>3, <2>4, NothingShown DEF ShownFor
<1>2. CASE CallbackEmail(s)
  <2>1. /\ sign[s].pc \notin {"record", "ok"}
        /\ UNCHANGED <<identities, granted>>
    BY <1>2 DEF CallbackEmail
  <2>2. CASE Proceed(s, "callback_pend")
    BY <2>1, <2>2, NothingShownBefore DEF Linked
  <2>3. CASE Answer(s, "signup_required")
    BY <2>1, <2>3, NothingShownAnswer
  <2> QED BY <1>2, <2>2, <2>3 DEF CallbackEmail
<1>3. CASE CallbackPend(s)
  BY <1>3, NothingShownAnswer DEF CallbackPend
<1>4. CASE CallbackOrg(s)
  BY <1>4, PickOrgShows DEF CallbackOrg
<1> QED BY <1>1, <1>2, <1>3, <1>4 DEF Callback

LEMMA GrantShows ==
  ASSUME LinkInv, SignedIn, NEW s \in SignIns, GrantSession(s) \/ GrantRecord(s)
  PROVE  SignedIn'
<1>0. /\ sign[s] \in SignIn /\ KnowsOK(sign[s]) /\ SignedInOK(s)
      /\ sign \in [SignIns -> SignIn]
      /\ granted \in [SignIns -> Grant \cup {None}]
  BY DEF LinkInv, RecordsOK, SignedIn
<1>1. CASE GrantSession(s)
  <2> DEFINE i == [sign[s] EXCEPT !.pc = "record"]
  <2>1. /\ i \in SignIn /\ i.pc = "record" /\ i.id = sign[s].id
        /\ i.user = sign[s].user /\ i.token = sign[s].token
    BY <1>0 DEF SignIn, SignInBusy
  <2>2. /\ sign' = [sign EXCEPT ![s] = i] /\ UNCHANGED identities
        /\ granted' = [granted EXCEPT ![s] = [user |-> sign[s].user,
                                              org |-> sign[s].org]]
        /\ sign[s].pc = "grant"
    BY <1>1 DEF GrantSession, Proceed
  <2>3. /\ sign[s].id \in Identities
        /\ ShownFor(sign[s].id, sign[s].token, sign[s].user)
    BY <1>0, <2>2 DEF KnowsOK, SignInBusy, SignedInOK, Linked
  <2> HIDE DEF i
  <2>4. SignedInOK(s)'
    BY <1>0, <2>1, <2>2, <2>3 DEF SignedInOK, ShownFor
  <2>5. \A q \in SignIns \ {s} : granted'[q] = granted[q]
    BY <1>0, <2>2
  <2> QED BY <2>1, <2>2, <2>4, <2>5, OthersStay
<1>2. CASE GrantRecord(s)
  <2> DEFINE i == [NewSignIn EXCEPT !.pc = "ok", !.id = sign[s].id,
                                    !.token = sign[s].token]
  <2>1. /\ i \in SignIn /\ i.pc = "ok" /\ i.id = sign[s].id
        /\ i.token = sign[s].token
    BY <1>0 DEF SignIn, SignInEnded, NewSignIn
  <2>2. sign' = [sign EXCEPT ![s] = i] /\ UNCHANGED <<identities, granted>>
    BY <1>2 DEF GrantRecord, Answer
  <2> HIDE DEF i
  <2>3. SignedInOK(s)'
    BY <1>0, <2>1, <2>2 DEF SignedInOK, ShownFor, Linked
  <2> QED BY <2>1, <2>2, <2>3, OthersStay
<1> QED BY <1>1, <1>2

(* The INSERT either links the identity or finds it linked, to whomever;   *)
(* the email of the user was compared with the provider's before.          *)
LEMMA LinkShows ==
  ASSUME LinkInv, SignedIn, NEW s \in SignIns, LinkWithPassword(s)
  PROVE  SignedIn'
<1> USE DEF SignInBusy, SignInEnded, CallbackPCs, LinkPCs
<1>0. /\ sign[s] \in SignIn /\ KnowsOK(sign[s]) /\ SignedInOK(s)
      /\ sign \in [SignIns -> SignIn]
      /\ identities \in [Identities -> Emails \cup {None}]
  BY DEF LinkInv, RecordsOK, SignedIn
<1>1. CASE LinkPending(s)
  <2>1. PICK t \in SignIns :
          \/ /\ pending[t] # None
             /\ sign' = [sign EXCEPT ![s] =
                   [NewSignIn EXCEPT !.pc = "link_password", !.token = t,
                                     !.id = pending[t].id,
                                     !.email = pending[t].email]]
          \/ sign' = [sign EXCEPT ![s].pc = "refused"]
    BY <1>1 DEF LinkPending
  <2>2. sign[s].pc = "new" /\ UNCHANGED <<identities, granted>>
    BY <1>1 DEF LinkPending, SignInArrives
  <2> DEFINE i == [NewSignIn EXCEPT !.pc = "link_password", !.token = t,
                                    !.id = pending[t].id,
                                    !.email = pending[t].email]
             j == [sign[s] EXCEPT !.pc = "refused"]
  <2>3. CASE pending[t] # None /\ sign' = [sign EXCEPT ![s] = i]
    <3>1. pending[t].id \in Identities /\ pending[t].email \in Emails
      BY <2>3 DEF LinkInv, RecordsOK, PendingLink
    <3>2. i \in SignIn /\ i.pc = "link_password"
      BY <3>1 DEF SignIn, NewSignIn
    <3> HIDE DEF i
    <3> QED BY <2>2, <2>3, <3>2, NothingShown DEF Linked
  <2>4. CASE sign' = [sign EXCEPT ![s] = j]
    <3>1. j \in SignIn /\ j.pc = "refused"
      BY <1>0 DEF SignIn
    <3> HIDE DEF j
    <3> QED BY <2>2, <2>4, <3>1, NothingShown DEF Linked
  <2> QED BY <2>1, <2>3, <2>4
<1>2. CASE LinkPassword(s)
  <2>1. sign[s].pc = "link_password" /\ UNCHANGED <<identities, granted>>
    BY <1>2 DEF LinkPassword
  <2>2. ASSUME NEW u \in Emails,
               sign' = [sign EXCEPT ![s].pc = "link_totp", ![s].user = u]
        PROVE  SignedIn'
    <3> DEFINE i == [sign[s] EXCEPT !.pc = "link_totp", !.user = u]
    <3>1. i \in SignIn /\ i.pc \notin Linked
      BY <1>0 DEF SignIn, Linked
    <3>2. sign' = [sign EXCEPT ![s] = i]
      BY <1>0, <2>2
    <3> HIDE DEF i
    <3> QED BY <2>1, <3>1, <3>2, NothingShown
  <2> QED
    BY <1>2, <2>1, <2>2, NothingShownAnswer DEF LinkPassword, HoldersOf
<1>3. CASE LinkTOTP(s)
  <2>1. /\ sign[s].pc \notin {"record", "ok"}
        /\ UNCHANGED <<identities, granted>>
    BY <1>3 DEF LinkTOTP
  <2>2. CASE Proceed(s, "link_code")
    BY <2>1, <2>2, NothingShownBefore DEF Linked
  <2>3. CASE Proceed(s, "link_find")
    BY <2>1, <2>3, NothingShownBefore DEF Linked
  <2> QED BY <1>3, <2>2, <2>3 DEF LinkTOTP
<1>4. CASE LinkCode(s)
  <2>1. /\ sign[s].pc \notin {"record", "ok"}
        /\ UNCHANGED <<identities, granted>>
    BY <1>4 DEF LinkCode
  <2>2. CASE Proceed(s, "link_find")
    BY <2>1, <2>2, NothingShownBefore DEF Linked
  <2>3. CASE Answer(s, "refused")
    BY <2>1, <2>3, NothingShownAnswer
  <2> QED BY <1>4, <2>2, <2>3 DEF LinkCode
<1>5. CASE LinkFind(s)
  <2>1. /\ sign[s].pc \notin {"record", "ok"}
        /\ UNCHANGED <<identities, granted>>
    BY <1>5 DEF LinkFind
  <2>2. CASE Proceed(s, "link_insert")
    BY <2>1, <2>2, NothingShownBefore DEF Linked
  <2>3. CASE Answer(s, "refused")
    BY <2>1, <2>3, NothingShownAnswer
  <2> QED BY <1>5, <2>2, <2>3 DEF LinkFind
<1>6. CASE LinkIdentity(s)
  <2>0. sign[s].pc = "link_insert" /\ UNCHANGED granted
    BY <1>6 DEF LinkIdentity
  <2>1. CASE /\ identities' = [identities EXCEPT ![sign[s].id] =
                                  IF @ = None THEN sign[s].user ELSE @]
             /\ Proceed(s, "link_clear")
    <3> DEFINE i == [sign[s] EXCEPT !.pc = "link_clear"]
    <3>1. /\ sign[s].id \in Identities /\ sign[s].user = sign[s].email
          /\ <<sign[s].id, sign[s].email>> \in Claims
      BY <1>0, <2>0 DEF KnowsOK, Claimed
    <3>2. sign[s].token # None /\ sign[s].user \in Emails /\ None \notin Emails
      BY <1>0, <2>0, NoSignInAssumption, NoneAssumption
         DEF KnowsOK, Known, Usernames
    <3>3. /\ i \in SignIn /\ i.pc = "link_clear" /\ i.id = sign[s].id
          /\ i.user = sign[s].user /\ i.token = sign[s].token
      BY <1>0 DEF SignIn
    <3>4. sign' = [sign EXCEPT ![s] = i]
      BY <2>1 DEF Proceed
    <3> HIDE DEF i
    <3>5. /\ identities'[sign[s].id] # None
          /\ \A x \in Identities : identities[x] # None =>
                 identities'[x] = identities[x]
      BY <1>0, <2>1, <3>1, <3>2
    <3>6. granted[s] = None
      BY <1>0, <2>0 DEF SignedInOK
    <3>7. SignedInOK(s)'
      BY <1>0, <2>0, <3>1, <3>2, <3>3, <3>4, <3>5, <3>6
         DEF SignedInOK, ShownFor
    <3> QED BY <2>0, <3>3, <3>4, <3>5, <3>7, OthersStay
  <2>2. CASE Answer(s, "error") /\ UNCHANGED identities
    BY <2>0, <2>2, NothingShownAnswer
  <2> QED BY <1>6, <2>1, <2>2 DEF LinkIdentity
<1>7. CASE LinkClear(s)
  <2> DEFINE i == [sign[s] EXCEPT !.pc = "link_org"]
  <2>1. /\ i \in SignIn /\ i.id = sign[s].id /\ i.user = sign[s].user
        /\ i.token = sign[s].token
    BY <1>0 DEF SignIn
  <2>2. /\ sign' = [sign EXCEPT ![s] = i] /\ UNCHANGED <<identities, granted>>
        /\ sign[s].pc = "link_clear"
    BY <1>7 DEF LinkClear, Proceed
  <2>3. ShownFor(i.id, i.token, i.user)
    BY <1>0, <2>1, <2>2 DEF SignedInOK, Linked
  <2> HIDE DEF i
  <2> QED BY <2>1, <2>2, <2>3, NothingShown
<1>8. CASE LinkOrg(s)
  BY <1>8, PickOrgShows DEF LinkOrg
<1> QED
  BY <1>1, <1>2, <1>3, <1>4, <1>5, <1>6, <1>7, <1>8 DEF LinkWithPassword

LEMMA SignedInStep ==
  LinkInv /\ SignedIn /\ [LinkingNext]_allVars => SignedIn'
<1> SUFFICES ASSUME LinkInv, SignedIn, [LinkingNext]_allVars PROVE SignedIn'
  OBVIOUS
<1>1. CASE UNCHANGED <<identities, sign, granted>>
  BY <1>1 DEF SignedIn, SignedInOK, ShownFor
<1>2. CASE LinkingRestart
  <2> SUFFICES ASSUME NEW s \in SignIns PROVE SignedInOK(s)'
    BY DEF SignedIn
  <2>1. sign[s] \in SignIn
    BY DEF LinkInv
  <2>2. sign'[s].pc \notin Linked /\ granted'[s] = None
    BY <1>2, <2>1 DEF LinkingRestart, Linked, SignIn, NewSignIn, SignInBusy,
                      CallbackPCs, LinkPCs
  <2> QED BY <2>2 DEF SignedInOK
<1> QED
  BY <1>1, <1>2, CallbackShows, LinkShows, GrantShows
  DEF LinkingNext, allVars, signVars, PendingExpires

(* Whoever a callback signs in is the user the identity is linked to, and  *)
(* whoever a linking signs in is one whose email the provider gave for it, *)
(* whatever emails the provider reports, whoever else links the identity   *)
(* between the look-up and the INSERT and whichever look-up fails.  That a *)
(* linking signs in the user it is linked to is not said: the loser of a   *)
(* race is signed in as well.                                              *)
THEOREM SignInsAreClaimed == LinkingSpec => []SignInIsClaimed
<1>1. LinkingInit => SignedIn
  BY DEF LinkingInit, SignedIn, SignedInOK, NewSignIn, Linked
<1>2. SignedIn => SignInIsClaimed
  BY DEF SignedIn, SignedInOK, ShownFor, SignInIsClaimed
<1>3. LinkInv /\ SignedIn /\ [LinkingNext]_allVars => LinkInv' /\ SignedIn'
  BY LinkStepInv, SignedInStep
<1> QED
  BY <1>1, <1>2, <1>3, LinkInitInv, PTL DEF LinkingSpec

-----------------------------------------------------------------------------
(* Of the account tables a sign-in changes the log of attempts only.       *)
LEMMA AccountsStep == IInv /\ LinkInv /\ [LinkingNext]_allVars => IInv'
<1> SUFFICES ASSUME IInv, LinkInv, [LinkingNext]_allVars PROVE IInv'
  OBVIOUS
<1>1. CASE [Next]_vars
  BY <1>1, StepInv
<1>2. ASSUME NEW s \in SignIns, GrantRecord(s) PROVE IInv'
  <2>1. sign[s].user \in Emails
    BY <1>2 DEF GrantRecord, LinkInv, KnowsOK, Known
  <2>2. UNCHANGED <<users, creds, totp, orgs, members, invites, req, session>>
    BY <1>2 DEF GrantRecord, RecordLoginAttempt, dbVars
  <2>3. attempts' \subseteq Attempt
    <3>1. [name |-> sign[s].user, ok |-> TRUE] \in Attempt
      BY <2>1 DEF Attempt, Usernames
    <3>2. attempts' \subseteq attempts \cup {[name |-> sign[s].user, ok |-> TRUE]}
      BY <1>2 DEF GrantRecord, RecordLoginAttempt, dbVars
    <3>3. attempts \subseteq Attempt
      BY DEF IInv, TypeOK, DBTypeOK
    <3> QED BY <3>1, <3>2, <3>3
  <2>4. TypeOK'
    BY <2>2, <2>3 DEF IInv, TypeOK, DBTypeOK
  <2> QED
    BY <2>2, <2>4 DEF IInv, HandlersOK, LocalsOK, FollowsInvite, HasJoined,
       InvitesOK, FoundersOK, OrgExists, SessionsAreMemberships,
       OneOwnerPerOrg, RolesAreGranted
<1>3. ASSUME NEW s \in SignIns, ~GrantRecord(s),
             \/ Callback(s) \/ LinkWithPassword(s) \/ GrantSession(s)
             \/ PendingExpires(s)
      PROVE  UNCHANGED vars
  BY <1>3 DEF Callback, LinkWithPassword, GrantSession, PendingExpires,
     CallbackIdentity, CallbackEmail, CallbackPend, CallbackOrg, LinkPending,
     LinkPassword, LinkTOTP, LinkCode, LinkFind, LinkIdentity, LinkClear,
     LinkOrg, PickOrg, SignInStep
<1> QED
  BY <1>1, <1>2, <1>3 DEF LinkingNext, LinkingRestart, Next, allVars

(* Type correctness of sign-ins together with the account handlers.        *)
THEOREM LinkingTypeCorrect == LinkingSpec => []LinkingTypeOK
<1>1. LinkingInit => IInv
  BY InitInv DEF LinkingInit
<1>2. IInv /\ LinkInv => LinkingTypeOK
  BY DEF IInv, LinkInv, RecordsOK, LinkingTypeOK
<1>3. IInv /\ LinkInv /\ [LinkingNext]_allVars => IInv' /\ LinkInv'
  BY LinkStepInv, AccountsStep
<1> QED
  BY <1>1, <1>2, <1>3, LinkInitInv, PTL DEF LinkingSpec

-----------------------------------------------------------------------------
(* What is known of the token a sign-in has in its cookie: it is of a      *)
(* callback that has answered, so that nobody makes it again; a callback   *)
(* has none, and after the link is cleared there is nothing behind it.     *)
TokenKept(t) == sign[t].pc = "link_required"

Cleared == {"link_org", "grant", "record", "ok"}

TokenOK(s) ==
    /\ sign[s].pc \in CallbackPCs => sign[s].token = None
    /\ sign[s].token # None => TokenKept(sign[s].token)
    /\ sign[s].pc \in Cleared /\ sign[s].token # None =>
           pending[sign[s].token] = None

TokensOK == \A s \in SignIns : TokenOK(s)

(* One sign-in moves on.  Its own token apart it disturbs nothing that     *)
(* another one knows: a callback that has answered has no more steps.      *)
LEMMA TokenMoves ==
  ASSUME LinkInv, TokensOK, NEW s \in SignIns, NEW i \in SignIn,
         sign' = [sign EXCEPT ![s] = i], sign[s].pc # "link_required",
         \A t \in SignIns : TokenKept(t) /\ pending[t] = None =>
                                pending'[t] = None,
         i.pc \in CallbackPCs => i.token = None,
         i.token # None => /\ TokenKept(i.token)
                           /\ i.pc \in Cleared => pending'[i.token] = None
  PROVE  TokensOK'
<1>1. sign \in [SignIns -> SignIn]
  BY DEF LinkInv
<1>2. ASSUME NEW t \in SignIns, TokenKept(t) PROVE TokenKept(t)'
  BY <1>1, <1>2 DEF TokenKept
<1>3. ASSUME NEW q \in SignIns PROVE TokenOK(q)'
  <2>1. CASE q = s
    <3>1. sign'[q] = i /\ i.token \in SignIns \cup {None}
      BY <1>1, <2>1 DEF SignIn
    <3>2. i.token # None => sign'[i.token].pc = "link_required"
      BY <1>2, <3>1 DEF TokenKept
    <3> QED BY <3>1, <3>2 DEF TokenOK, TokenKept
  <2>2. CASE q # s
    <3>1. /\ sign'[q] = sign[q] /\ sign[q].token \in SignIns \cup {None}
          /\ TokenOK(q)
      BY <1>1, <2>2 DEF SignIn, TokensOK
    <3>2. sign[q].token # None => sign'[sign[q].token].pc = "link_required"
      BY <1>2, <3>1 DEF TokenOK, TokenKept
    <3> QED BY <3>1, <3>2 DEF TokenOK, TokenKept
  <2> QED BY <2>1, <2>2
<1> QED BY <1>3 DEF TokensOK

(* Most steps leave the token and the pending links alone.                 *)
LEMMA TokenStays ==
  ASSUME LinkInv, TokensOK, NEW s \in SignIns, NEW i \in SignIn,
         sign' = [sign EXCEPT ![s] = i], sign[s].pc # "link_required",
         UNCHANGED pending, i.token = sign[s].token,
         i.pc \in CallbackPCs => sign[s].pc \in CallbackPCs,
         i.pc \in Cleared => sign[s].pc \in Cleared \cup CallbackPCs
  PROVE  TokensOK'
<1>1. TokenOK(s)
  BY DEF TokensOK
<1> QED BY <1>1, TokenMoves DEF TokenOK

LEMMA TokenProceeds ==
  ASSUME LinkInv, TokensOK, NEW s \in SignIns, NEW pc \in SignInBusy,
         Proceed(s, pc), sign[s].pc # "link_required", UNCHANGED pending,
         pc \in CallbackPCs => sign[s].pc \in CallbackPCs,
         pc \in Cleared => sign[s].pc \in Cleared \cup CallbackPCs
  PROVE  TokensOK'
<1> DEFINE i == [sign[s] EXCEPT !.pc = pc]
<1>1. i \in SignIn /\ i.pc = pc /\ i.token = sign[s].token
  BY DEF LinkInv, SignIn
<1>2. sign' = [sign EXCEPT ![s] = i]
  BY DEF Proceed
<1> HIDE DEF i
<1> QED BY <1>1, <1>2, TokenStays

LEMMA TokenAnswers ==
  ASSUME LinkInv, TokensOK, NEW s \in SignIns, NEW result \in SignInEnded,
         Answer(s, result), sign[s].pc # "link_required", UNCHANGED pending,
         result = "ok" => sign[s].pc \in Cleared \cup CallbackPCs
  PROVE  TokensOK'
<1> DEFINE i == [NewSignIn EXCEPT !.pc = result, !.id = sign[s].id,
                                  !.token = sign[s].token]
<1>1. sign[s] \in SignIn
  BY DEF LinkInv
<1>2. i \in SignIn /\ i.pc = result /\ i.token = sign[s].token
  BY <1>1 DEF SignIn, NewSignIn
<1>3. sign' = [sign EXCEPT ![s] = i]
  BY DEF Answer
<1>4. /\ result \notin CallbackPCs
      /\ result \in Cleared => result = "ok"
  BY DEF SignInEnded, CallbackPCs, Cleared
<1> HIDE DEF i
<1> QED BY <1>2, <1>3, <1>4, TokenStays

LEMMA PickOrgTokens ==
  ASSUME LinkInv, TokensOK, NEW s \in SignIns,
         NEW pc \in {"callback_org", "link_org"}, PickOrg(s, pc)
  PROVE  TokensOK'
<1>1. /\ sign[s] \in SignIn /\ sign[s].pc = pc /\ UNCHANGED pending
      /\ sign \in [SignIns -> SignIn]
      /\ pc \in Cleared \cup CallbackPCs /\ pc # "link_required"
  BY DEF LinkInv, PickOrg, Cleared, CallbackPCs
<1>2. ASSUME NEW o \in Slugs,
             sign' = [sign EXCEPT ![s].pc = "grant", ![s].org = o]
      PROVE  TokensOK'
  <2> DEFINE i == [sign[s] EXCEPT !.pc = "grant", !.org = o]
  <2>1. i \in SignIn /\ i.pc = "grant" /\ i.token = sign[s].token
    BY <1>1 DEF SignIn, SignInBusy
  <2>2. sign' = [sign EXCEPT ![s] = i]
    BY <1>1, <1>2
  <2> HIDE DEF i
  <2> QED BY <1>1, <2>1, <2>2, TokenStays DEF CallbackPCs
<1>3. CASE Answer(s, "refused")
  BY <1>1, <1>3, TokenAnswers DEF SignInEnded
<1> QED BY <1>2, <1>3 DEF PickOrg, PickUserOrg

LEMMA CallbackTokens ==
  ASSUME LinkInv, TokensOK, NEW s \in SignIns, Callback(s)
  PROVE  TokensOK'
<1>0. /\ sign[s] \in SignIn /\ TokenOK(s)
      /\ sign \in [SignIns -> SignIn]
  BY DEF LinkInv, TokensOK
<1>1. CASE CallbackIdentity(s)
  <2>0. sign[s].pc = "new" /\ UNCHANGED pending
    BY <1>1 DEF CallbackIdentity, SignInArrives
  <2>1. PICK c \in Claims :
          LET i == [NewSignIn EXCEPT !.id = c[1], !.email = c[2]]
              u == identities[c[1]]
          IN \/ /\ u # None
                /\ sign' = [sign EXCEPT ![s] = [i EXCEPT !.pc = "callback_org",
                                                         !.user = u]]
             \/ sign' = [sign EXCEPT ![s] = [i EXCEPT !.pc = "callback_email"]]
    BY <1>1 DEF CallbackIdentity
  <2> DEFINE i == [NewSignIn EXCEPT !.id = c[1], !.email = c[2]]
             j == [i EXCEPT !.pc = "callback_org", !.user = identities[c[1]]]
             k == [i EXCEPT !.pc = "callback_email"]
  <2>2. /\ c[1] \in Identities /\ c[2] \in Emails
        /\ identities[c[1]] \in Emails \cup {None}
    BY ClaimsAssumption DEF LinkInv, RecordsOK
  <2>3. j \in SignIn /\ j.token = None /\ k \in SignIn /\ k.token = None
    BY <2>2 DEF NewSignIn, SignIn, SignInBusy, CallbackPCs
  <2>4. sign' = [sign EXCEPT ![s] = j] \/ sign' = [sign EXCEPT ![s] = k]
    BY <2>1
  <2> HIDE DEF j, k
  <2> QED BY <2>0, <2>3, <2>4, TokenMoves
<1>2. CASE CallbackEmail(s)
  <2>1. sign[s].pc = "callback_email" /\ UNCHANGED pending
    BY <1>2 DEF CallbackEmail
  <2>2. CASE Proceed(s, "callback_pend")
    BY <2>1, <2>2, TokenProceeds DEF SignInBusy, CallbackPCs, Cleared
  <2>3. CASE Answer(s, "signup_required")
    BY <2>1, <2>3, TokenAnswers DEF SignInEnded
  <2> QED BY <1>2, <2>2, <2>3 DEF CallbackEmail
<1>3. CASE CallbackPend(s)
  <2> DEFINE i == [NewSignIn EXCEPT !.pc = "link_required", !.id = sign[s].id,
                                    !.token = sign[s].token]
  <2>1. sign[s].pc = "callback_pend"
    BY <1>3 DEF CallbackPend
  <2>2. sign[s].token = None
    BY <1>0, <2>1 DEF TokenOK, CallbackPCs
  <2>3. i \in SignIn /\ i.token = None
    BY <1>0, <2>2 DEF SignIn, NewSignIn, SignInEnded
  <2>4. sign' = [sign EXCEPT ![s] = i]
    BY <1>3 DEF CallbackPend, Answer
  <2>5. \A t \in SignIns : TokenKept(t) /\ pending[t] = None =>
                               pending'[t] = None
    BY <1>3, <2>1 DEF CallbackPend, TokenKept, LinkInv, RecordsOK
  <2> HIDE DEF i
  <2> QED BY <2>1, <2>3, <2>4, <2>5, TokenMoves
<1>4. CASE CallbackOrg(s)
  BY <1>4, PickOrgTokens DEF CallbackOrg
<1> QED BY <1>1, <1>2, <1>3, <1>4 DEF Callback

LEMMA GrantTokens ==
  ASSUME LinkInv, TokensOK, NEW s \in SignIns, GrantSession(s) \/ GrantRecord(s)
  PROVE  TokensOK'
<1>1. CASE GrantSession(s)
  BY <1>1, TokenProceeds DEF GrantSession, Cleared, SignInBusy, CallbackPCs
<1>2. CASE GrantRecord(s)
  BY <1>2, TokenAnswers DEF GrantRecord, Cleared, SignInEnded
<1> QED BY <1>1, <1>2

LEMMA LinkTokens ==
  ASSUME LinkInv, TokensOK, NEW s \in SignIns, LinkWithPassword(s)
  PROVE  TokensOK'
<1> USE DEF SignInBusy, SignInEnded, CallbackPCs, LinkPCs, Cleared
<1>0. /\ sign[s] \in SignIn /\ TokenOK(s) /\ KnowsOK(sign[s])
      /\ sign \in [SignIns -> SignIn]
      /\ pending \in [SignIns -> PendingLink \cup {None}]
  BY DEF LinkInv, RecordsOK, TokensOK
<1>1. CASE LinkPending(s)
  <2>1. PICK t \in SignIns :
          /\ sign[t].pc = "link_required"
          /\ IF pending[t] # None /\ ~pending[t].expired
             THEN /\ sign' = [sign EXCEPT ![s] =
                        [NewSignIn EXCEPT !.pc = "link_password", !.token = t,
                                          !.id = pending[t].id,
                                          !.email = pending[t].email]]
                  /\ UNCHANGED pending
             ELSE /\ sign' = [sign EXCEPT ![s].pc = "refused"]
                  /\ pending' = [pending EXCEPT ![t] = None]
    BY <1>1 DEF LinkPending
  <2>2. sign[s].pc = "new"
    BY <1>1 DEF LinkPending, SignInArrives
  <2> DEFINE i == [NewSignIn EXCEPT !.pc = "link_password", !.token = t,
                                    !.id = pending[t].id,
                                    !.email = pending[t].email]
             j == [sign[s] EXCEPT !.pc = "refused"]
  <2>3. CASE pending[t] # None /\ ~pending[t].expired
    <3>1. pending[t].id \in Identities /\ pending[t].email \in Emails
      BY <1>0, <2>3 DEF PendingLink
    <3>2. i \in SignIn /\ i.pc = "link_password" /\ i.token = t
      BY <3>1 DEF SignIn, NewSignIn
    <3>3. sign' = [sign EXCEPT ![s] = i] /\ UNCHANGED pending
      BY <2>1, <2>3
    <3> HIDE DEF i
    <3> QED BY <2>1, <2>2, <3>2, <3>3, TokenMoves DEF TokenKept
  <2>4. CASE ~(pending[t] # None /\ ~pending[t].expired)
    <3>1. /\ j \in SignIn /\ j.pc = "refused" /\ j.token = sign[s].token
      BY <1>0 DEF SignIn
    <3>2. /\ sign' = [sign EXCEPT ![s] = j]
          /\ \A q \in SignIns : pending[q] = None => pending'[q] = None
      BY <1>0, <2>1, <2>4
    <3> HIDE DEF j
    <3> QED BY <1>0, <2>2, <3>1, <3>2, TokenMoves DEF TokenOK
  <2> QED BY <2>3, <2>4
<1>2. CASE LinkPassword(s)
  <2>1. sign[s].pc = "link_password" /\ UNCHANGED pending
    BY <1>2 DEF LinkPassword
  <2>2. ASSUME NEW u \in Emails,
               sign' = [sign EXCEPT ![s].pc = "link_totp", ![s].user = u]
        PROVE  TokensOK'
    <3> DEFINE i == [sign[s] EXCEPT !.pc = "link_totp", !.user = u]
    <3>1. i \in SignIn /\ i.pc = "link_totp" /\ i.token = sign[s].token
      BY <1>0 DEF SignIn
    <3>2. sign' = [sign EXCEPT ![s] = i]
      BY <1>0, <2>2
    <3> HIDE DEF i
    <3> QED BY <2>1, <3>1, <3>2, TokenStays
  <2>3. CASE Answer(s, "refused")
    BY <2>1, <2>3, TokenAnswers
  <2> QED BY <1>2, <2>2, <2>3 DEF LinkPassword, HoldersOf
<1>3. CASE LinkTOTP(s)
  BY <1>3, TokenProceeds DEF LinkTOTP
<1>4. CASE LinkCode(s)
  BY <1>4, TokenProceeds, TokenAnswers DEF LinkCode
<1>5. CASE LinkFind(s)
  BY <1>5, TokenProceeds, TokenAnswers DEF LinkFind
<1>6. CASE LinkIdentity(s)
  BY <1>6, TokenProceeds, TokenAnswers DEF LinkIdentity
<1>7. CASE LinkClear(s)
  <2> DEFINE i == [sign[s] EXCEPT !.pc = "link_org"]
  <2>1. /\ i \in SignIn /\ i.pc = "link_org" /\ i.token = sign[s].token
    BY <1>0 DEF SignIn
  <2>2. /\ sign' = [sign EXCEPT ![s] = i]
        /\ sign[s].pc = "link_clear"
        /\ pending' = [pending EXCEPT ![sign[s].token] = None]
    BY <1>7 DEF LinkClear, Proceed
  <2>3. sign[s].token \in SignIns /\ TokenKept(sign[s].token)
    BY <1>0, <2>2, NoSignInAssumption DEF KnowsOK, TokenOK
  <2>4. /\ pending'[sign[s].token] = None
        /\ \A t \in SignIns : pending[t] = None => pending'[t] = None
    BY <1>0, <2>2, <2>3
  <2> HIDE DEF i
  <2> QED BY <2>1, <2>2, <2>3, <2>4, TokenMoves
<1>8. CASE LinkOrg(s)
  BY <1>8, PickOrgTokens DEF LinkOrg
<1> QED
  BY <1>1, <1>2, <1>3, <1>4, <1>5, <1>6, <1>7, <1>8 DEF LinkWithPassword

LEMMA TokensStep == LinkInv /\ TokensOK /\ [LinkingNext]_allVars => TokensOK'
<1> SUFFICES ASSUME LinkInv, TokensOK, [LinkingNext]_allVars PROVE TokensOK'
  OBVIOUS
<1>1. CASE UNCHANGED <<pending, sign>>
  BY <1>1 DEF TokensOK, TokenOK, TokenKept
<1>2. ASSUME NEW t \in SignIns, PendingExpires(t) PROVE TokensOK'
  <2>1. UNCHANGED sign
    BY <1>2 DEF PendingExpires
  <2>2. \A q \in SignIns : pending[q] = None => pending'[q] = None
    BY <1>2 DEF PendingExpires, LinkInv, RecordsOK
  <2>3. \A q \in SignIns : sign[q].token \in SignIns \cup {None}
    BY DEF LinkInv, SignIn
  <2> QED BY <2>1, <2>2, <2>3 DEF TokensOK, TokenOK, TokenKept
<1>3. CASE LinkingRestart
  <2> SUFFICES ASSUME NEW s \in SignIns PROVE TokenOK(s)'
    BY DEF TokensOK
  <2>1. /\ sign[s] \in SignIn /\ TokenOK(s)
        /\ sign[s].token \in SignIns \cup {None}
    BY DEF LinkInv, TokensOK, SignIn
  <2>2. /\ sign'[s].token = sign[s].token
        /\ sign'[s].pc \notin CallbackPCs
    BY <1>3, <2>1 DEF LinkingRestart, NewSignIn, SignInBusy, SignIn, CallbackPCs
  <2>3. \A t \in SignIns : /\ pending'[t] = None
                           /\ TokenKept(t) => sign'[t].pc = "link_required"
    BY <1>3 DEF LinkingRestart, TokenKept, SignInBusy, CallbackPCs, LinkPCs
  <2> QED BY <2>1, <2>2, <2>3 DEF TokenOK, TokenKept
<1> QED
  BY <1>1, <1>2, <1>3, CallbackTokens, LinkTokens, GrantTokens
  DEF LinkingNext, allVars, signVars

(* Only a request with the cookie of a callback begins a linking.          *)
LEMMA OnlyPendingBegins ==
  ASSUME LinkInv, [LinkingNext]_allVars, NEW s \in SignIns,
         sign[s].pc = "new", sign'[s].pc = "link_password"
  PROVE  LinkPending(s)
<1>1. sign \in [SignIns -> SignIn] /\ sign'[s] # sign[s]
  BY DEF LinkInv
<1>2. PICK q \in SignIns : \/ Callback(q) \/ LinkWithPassword(q)
                           \/ GrantSession(q) \/ GrantRecord(q)
  <2>1. sign' # sign
    BY <1>1
  <2>2. ASSUME LinkingRestart PROVE FALSE
    <3>1. sign'[s] = sign[s]
      BY <1>1, <2>2 DEF LinkingRestart, SignInBusy, CallbackPCs, LinkPCs
    <3> QED BY <1>1, <3>1
  <2> QED
    BY <2>1, <2>2 DEF LinkingNext, allVars, signVars, PendingExpires
<1>3. q = s
  <2> SUFFICES ASSUME q # s PROVE sign'[s] = sign[s]
    BY <1>1
  <2>1. CASE Callback(q)
    BY <1>1, <2>1 DEF Callback, CallbackIdentity, CallbackEmail, CallbackPend,
                      CallbackOrg, PickOrg, Proceed, Answer
  <2>2. CASE LinkWithPassword(q)
    BY <1>1, <2>2 DEF LinkWithPassword, LinkPending, LinkPassword, LinkTOTP,
                      LinkCode, LinkFind, LinkIdentity, LinkClear, LinkOrg,
                      PickOrg, Proceed, Answer
  <2>3. CASE GrantSession(q) \/ GrantRecord(q)
    BY <1>1, <2>3 DEF GrantSession, GrantRecord, Proceed, Answer
  <2> QED BY <1>2, <2>1, <2>2, <2>3
<1>4. ~CallbackIdentity(s)
  BY <1>1 DEF CallbackIdentity, NewSignIn
<1> QED
  BY <1>2, <1>3, <1>4
  DEF Callback, CallbackEmail, CallbackPend, CallbackOrg, LinkWithPassword,
      LinkPassword, LinkTOTP, LinkCode, LinkFind, LinkIdentity, LinkClear,
      LinkOrg, PickOrg, GrantSession, GrantRecord

(* A pending link that somebody completed is never begun again, by however *)
(* many requests that carry its cookie: delPending comes before the answer *)
(* and the callback that made the token makes no other.                    *)
THEOREM TokensAreSpent == LinkingSpec => TokenSpent
<1>1. LinkingInit => TokensOK
  BY DEF LinkingInit, TokensOK, TokenOK, NewSignIn, CallbackPCs, Cleared
<1>2. LinkInv /\ TokensOK /\ [LinkingNext]_allVars =>
        [\A r, s \in SignIns :
            /\ sign[r].pc = "ok" /\ sign[s].pc = "new"
            /\ sign'[s].pc = "link_password"
            => sign'[s].token # sign[r].token]_sign
  <2> SUFFICES ASSUME LinkInv, TokensOK, [LinkingNext]_allVars,
                      NEW r \in SignIns, NEW s \in SignIns,
                      sign[r].pc = "ok", sign[s].pc = "new",
                      sign'[s].pc = "link_password"
               PROVE  sign'[s].token # sign[r].token
    OBVIOUS
  <2>1. LinkPending(s)
    BY OnlyPendingBegins
  <2>2. PICK t \in SignIns :
          IF pending[t] # None /\ ~pending[t].expired
             THEN sign' = [sign EXCEPT ![s] =
                     [NewSignIn EXCEPT !.pc = "link_password", !.token = t,
                                       !.id = pending[t].id,
                                       !.email = pending[t].email]]
             ELSE sign' = [sign EXCEPT ![s].pc = "refused"]
    BY <2>1 DEF LinkPending
  <2>3. sign \in [SignIns -> SignIn]
    BY DEF LinkInv
  <2>4. pending[t] # None /\ sign'[s].token = t
    BY <2>2, <2>3 DEF NewSignIn, SignIn
  <2>5. sign[r].token # None => pending[sign[r].token] = None
    BY DEF TokensOK, TokenOK, Cleared
  <2> QED BY <2>4, <2>5, NoSignInAssumption
<1> QED
  BY <1>1, <1>2, LinkInitInv, LinkStepInv, TokensStep, PTL
  DEF LinkingSpec, TokenSpent
=============================================================================
