--------------------------- MODULE RequestPipeline ---------------------------
(***************************************************************************)
(* The layers a request passes before its handler runs, as cmd/server and  *)
(* handlers.RegisterRoutes mount them: MFAEnforce, the rate limiter and    *)
(* the denylist around everything, then RequireAuth or RequireRole around  *)
(* single routes, next to the handlers that read the session themselves.   *)
(* Every layer reads the session or the database again, so what an earlier *)
(* one saw may be gone.  visit[v] is where request v is; when its endpoint *)
(* is one of Accounts, that module's handler takes over.                   *)
(*                                                                         *)
(* Left out: RequestID, logging and CORS, which look at no account, and    *)
(* the static pages.                                                       *)
(***************************************************************************)
EXTENDS Accounts

CONSTANTS Visits,         \* requests to the endpoints that are not Accounts'
          Routes,         \* those endpoints
          MaxVisits,      \* how many requests are between layers at a time
          LocalRequired   \* security.mfa.local_required

AccountRoutes == {"signup", "login", "invite", "accept", "password", "totp"}
ReadRoutes == {"me", "profile", "tables", "sessions", "projects"}

ASSUME RoutesAssumption == Kinds \subseteq AccountRoutes \cup {"logout"}
                           /\ Routes \subseteq ReadRoutes
ASSUME VisitsAssumption == Visits \cap Requests = {}

VARIABLE visit

pipelineVars == <<vars, visit>>

Everyone == Requests \cup Visits

(* The routes behind RequireAuth of those whose handlers are below.        *)
Guarded == {"tables", "sessions"}

(* The handlers of Accounts that read the session.                         *)
OfSession == {"invite", "password", "totp"}

(* What somebody who has to enrol may still ask for, the page to do it on  *)
(* apart.                                                                  *)
Allowed == {"totp"}

Layers == {"totp", "limit", "inner", "user"}
Handlers == {"handler", "serve", "profile", "update", "list_session",
             "list_role", "list"}
Answers == {"ok", "refused", "missing", "unauthorized", "mfa_required"}

Visit == [pc : {"new"} \cup Layers \cup Handlers \cup Answers,
          route : AccountRoutes \cup ReadRoutes \cup {None},
          cookie : Requests \cup {None},
          sess : Session \cup {None},   \* the copy of the session in use
          enrolled : BOOLEAN,           \* had TOTP when the request arrived
          failed : BOOLEAN]             \* turned away by a failing statement

NewVisit == [pc |-> "new", route |-> None, cookie |-> None, sess |-> None,
             enrolled |-> FALSE, failed |-> FALSE]

PipelineTypeOK == /\ TypeOK
                  /\ visit \in [Everyone -> Visit]

PipelineInit == Init /\ visit = [v \in Everyone |-> NewVisit]

-----------------------------------------------------------------------------
SessionOf(c) == IF c = None THEN None ELSE session[c]

(* ReadSession, by whatever layer or handler.                              *)
ReadSession(v) == SessionOf(visit[v].cookie)

Enter(v, pc) == visit' = [visit EXCEPT ![v].pc = pc]

EnterWith(v, pc, s) == visit' = [visit EXCEPT ![v].pc = pc, ![v].sess = s]

TurnAway(v, answer, failed) ==
    visit' = [visit EXCEPT ![v] = [NewVisit EXCEPT !.pc = answer,
                                                   !.failed = failed]]

Reply(v, answer) == TurnAway(v, answer, FALSE)

(* A layer, or a handler that only reads.                                  *)
LooksOn == UNCHANGED vars

-----------------------------------------------------------------------------
(* The layers around everything.                                           *)
RoutesOf(v) == IF v \in Visits THEN Routes ELSE Kinds \cap AccountRoutes

Inside == {v \in Everyone : visit[v].pc \in Layers \cup Handlers}

(* Mutant: MFAEnforce takes the session from the context, like Denylist,   *)
(* where no layer has put it yet.                                          *)
EnforcedInContext(s) == FALSE

(* Only local users have to enrol.                                         *)
Enforced(s) == LocalRequired /\ s # None /\ s.provider = "local"

MFAEnforce(v) ==
    /\ visit[v].pc = "new" /\ Cardinality(Inside) < MaxVisits
    /\ \E route \in RoutesOf(v), c \in Requests \cup {None} :
          LET s == SessionOf(c)
          IN /\ c # None => s # None
             /\ visit' = [visit EXCEPT ![v] =
                   [NewVisit EXCEPT
                       !.pc = IF Enforced(s) THEN "totp" ELSE "limit",
                       !.route = route, !.cookie = c, !.sess = s,
                       !.enrolled = s # None /\ UserHasTOTP(s.user)]]
    /\ LooksOn

(* Mutant: the path decides alone.                                         *)
MFAByPath(v) ==
    /\ visit[v].pc = "totp"
    /\ IF visit[v].route \in Allowed THEN Enter(v, "limit")
                                     ELSE Reply(v, "mfa_required")
    /\ LooksOn

(* UserHasTOTP, which answers FALSE when its query fails.                  *)
MFATOTP(v) ==
    LET has == UserHasTOTP(visit[v].sess.user)
    IN /\ visit[v].pc = "totp"
       /\ \/ /\ has \/ visit[v].route \in Allowed
             /\ Enter(v, "limit")
          \/ /\ ~has \/ Faults
             /\ visit[v].route \notin Allowed
             /\ TurnAway(v, "mfa_required", has)
       /\ LooksOn

(* RateLimitWith, whose buckets RateLimiter models, may refuse any request;*)
(* Denylist finds no session in the context and refuses none.              *)
RateLimitAndDenylist(v) ==
    /\ visit[v].pc = "limit"
    /\ EnterWith(v, "inner", None) \/ Reply(v, "refused")
    /\ LooksOn

-----------------------------------------------------------------------------
(* The layers around /tables, /users and /admin.                           *)

RequireAuth(v) ==
    /\ visit[v].pc = "inner" /\ visit[v].route \in Guarded
    /\ IF ReadSession(v) = None THEN Reply(v, "unauthorized")
                                ELSE EnterWith(v, "user", ReadSession(v))
    /\ LooksOn

(* GetUserByID: any error of it is "unauthorized".                         *)
RequireAuthUser(v) ==
    LET found == visit[v].sess.user \in users
    IN /\ visit[v].pc = "user"
       /\ \/ /\ found
             /\ Enter(v, IF visit[v].route = "tables" THEN "serve"
                                                      ELSE "list_session")
          \/ /\ ~found \/ Faults
             /\ TurnAway(v, "unauthorized", found)
       /\ LooksOn

(* /orgs/{slug}/projects has RequireRole without RequireAuth: there is     *)
(* never a session in the context.                                         *)
RequireRoleAlone(v) ==
    /\ visit[v].pc = "inner" /\ visit[v].route = "projects"
    /\ Reply(v, "unauthorized")
    /\ LooksOn

-----------------------------------------------------------------------------
(* The handlers.                                                           *)

(* /tables and /users: what they do to the tables is in UserTables and     *)
(* TableReads.                                                             *)
TablesHandler(v) ==
    /\ visit[v].pc = "serve"
    /\ Reply(v, "ok")
    /\ LooksOn

(* GET /admin/sessions reads the session once more, ...                    *)
ListSessions(v) ==
    /\ visit[v].pc = "list_session"
    /\ IF ReadSession(v) = None THEN Reply(v, "unauthorized")
                                ELSE EnterWith(v, "list_role", ReadSession(v))
    /\ LooksOn

(* ... then the role, ...                                                  *)
ListRole(v) ==
    LET staff == GetRole(visit[v].sess.org, visit[v].sess.user)
                    \in {"Admin", "Owner"}
    IN /\ visit[v].pc = "list_role"
       /\ \/ staff /\ Enter(v, "list")
          \/ (~staff \/ Faults) /\ Reply(v, "refused")
       /\ LooksOn

(* ... and then the store.                                                 *)
List(v) ==
    /\ visit[v].pc = "list"
    /\ Reply(v, "ok")
    /\ LooksOn

(* GET /auth/me and /auth/me/full, PUT /auth/profile.                      *)
ReadOwnSession(v) ==
    /\ visit[v].pc = "inner" /\ visit[v].route \in {"me", "profile"}
    /\ IF ReadSession(v) = None
         THEN Reply(v, "unauthorized")
         ELSE EnterWith(v, IF visit[v].route = "me" THEN "profile" ELSE "update",
                        ReadSession(v))
    /\ LooksOn

(* GetUserWithOrgAndRole finds the three in one statement; what is read    *)
(* after it may fail and is left out of the answer.                        *)
ProfileHandler(v) ==
    LET s == visit[v].sess
        found == s.user \in users /\ OrgExists(s.org)
                    /\ GetRole(s.org, s.user) # None
    IN /\ visit[v].pc = "profile"
       /\ \/ Reply(v, IF found THEN "ok" ELSE "missing")
          \/ Faults /\ Reply(v, "refused")
       /\ LooksOn

(* UpdateUserProfile writes nothing the tables of AccountsDB keep.         *)
UpdateProfileHandler(v) ==
    /\ visit[v].pc = "update"
    /\ Reply(v, "ok") \/ (Faults /\ Reply(v, "refused"))
    /\ LooksOn

-----------------------------------------------------------------------------
(* The handlers of Accounts, by what they do first.  One that reads the    *)
(* session reads that of its cookie, or has nobody to serve.               *)
Begins == [signup |-> SignupPCs, login |-> LoginPCs \cup {"refused"},
           invite |-> InvitePCs, accept |-> AcceptPCs \cup {"refused"},
           password |-> PasswordPCs, totp |-> {"totp_set"}]

AccountHandler(r) ==
    /\ visit[r].pc \in {"inner", "handler"}
    /\ Serve(r)
    /\ req[r].pc = "new" => req'[r].pc \in Begins[visit[r].route]
    /\ req[r].pc = "new" /\ visit[r].route \in OfSession =>
          /\ ReadSession(r) # None
          /\ req'[r].user = ReadSession(r).user
          /\ req'[r].cookie \in {None, visit[r].cookie}
    /\ IF req'[r].pc \in Ended THEN Reply(r, "ok")
       ELSE IF req[r].pc = "new" THEN EnterWith(r, "handler", ReadSession(r))
       ELSE UNCHANGED visit

AccountHandlerRefuses(r) ==
    /\ visit[r].pc = "inner" /\ visit[r].route \in OfSession
    /\ ReadSession(r) = None
    /\ Reply(r, "unauthorized")
    /\ LooksOn

(* A statement of a handler of Accounts fails.                             *)
AccountAbort(r) == Abort(r) /\ Reply(r, "refused")

PipelineRestart ==
    /\ Restart
    /\ visit' = [v \in Everyone |->
                   IF v \in Inside THEN [NewVisit EXCEPT !.pc = "refused"]
                                   ELSE visit[v]]

Layer(v) == MFAEnforce(v) \/ MFATOTP(v) \/ RateLimitAndDenylist(v)

Route(v) == \/ RequireAuth(v) \/ RequireAuthUser(v) \/ RequireRoleAlone(v)
            \/ TablesHandler(v) \/ ListSessions(v) \/ ListRole(v) \/ List(v)
            \/ ReadOwnSession(v) \/ ProfileHandler(v)
            \/ UpdateProfileHandler(v)

PipelineNext ==
    \/ \E v \in Everyone : Layer(v) \/ Route(v)
    \/ \E r \in Requests :
          \/ AccountHandler(r) \/ AccountHandlerRefuses(r) \/ AccountAbort(r)
          \/ (InviteExpires(r) \/ SessionEnds(r)) /\ UNCHANGED visit
    \/ PipelineRestart

PipelineSpec == PipelineInit /\ [][PipelineNext]_pipelineVars

-----------------------------------------------------------------------------
(* With local_required, whatever runs for the session of a local login     *)
(* runs for somebody who has enrolled, the enrolment itself apart: also    *)
(* when the session or TOTP are read once by MFAEnforce and again by the   *)
(* handler, and the look-up fails.                                         *)
SecondFactorFirst ==
    LocalRequired => \A v \in Everyone :
        /\ visit[v].pc \in Handlers /\ visit[v].route \notin Allowed
        /\ visit[v].sess # None /\ visit[v].sess.provider = "local"
        => UserHasTOTP(visit[v].sess.user)

(* Whoever has a session has a profile: GetUserWithOrgAndRole finds the    *)
(* user, the organisation and the role, whatever happened to them since    *)
(* the session was issued.                                                 *)
ProfileIsFound == \A v \in Everyone : visit[v].pc # "missing"

(* Somebody who had enrolled when the request arrived is not sent to enrol,*)
(* unless the look-up fails.                                               *)
EnrolledAreAdmitted ==
    [][\A v \in Everyone :
          /\ visit[v].pc = "totp" /\ visit'[v].pc = "mfa_required"
          /\ visit[v].enrolled
          => visit'[v].failed]_pipelineVars
=============================================================================
