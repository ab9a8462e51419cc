---------------------------- MODULE SessionStore ----------------------------
(***************************************************************************)
(* The in-memory session store, internal/session/store.go, with the        *)
(* callers that reach it: SetSessionCookie and ReadSession of              *)
(* internal/auth/session.go, the logout handler, the background sweeper    *)
(* and the admin listing.                                                  *)
(*                                                                         *)
(* Every critical section of the RWMutex is one step.  Between two of them *)
(* anything may happen: Store.Get releases the lock before it looks at the *)
(* clock and takes it again to delete, and the sweeper reads the clock     *)
(* before it waits for the lock.  The session's contents do not matter     *)
(* here, only its expiry does.                                             *)
(***************************************************************************)
EXTENDS Integers, FiniteSets

CONSTANTS Ids,        \* ids uuid.NewString can return
          Threads,    \* goroutines serving a request that carries a cookie
          NoId,       \* "no cookie"
          TTL,        \* lifetime of a session, 8 hours in the code
          MaxTime     \* bound of the clock, for TLC

ASSUME NoIdAssumption == NoId \notin Ids
ASSUME ClockAssumption == TTL \in Nat \ {0} /\ MaxTime \in Nat

VARIABLES now,        \* the wall clock
          present,    \* keys of Store.data
          expiry,     \* Expiry of every session ever stored
          issued,     \* ids already returned by Create
          get,        \* the ReadSession every thread is in
          sweeper     \* the sweeper goroutine

vars == <<now, present, expiry, issued, get, sweeper>>

GetRec == [pc : {"idle", "check", "delete", "recheck", "hit", "miss"},
           id : Ids \cup {NoId}, found : BOOLEAN, exp : Nat]

SweeperRec == [pc : {"wait", "sweep"}, now : Nat]

Idle == [pc |-> "idle", id |-> NoId, found |-> FALSE, exp |-> 0]
Waiting == [pc |-> "wait", now |-> 0]

TypeOK == /\ now \in Nat
          /\ issued \subseteq Ids
          /\ present \subseteq issued
          /\ expiry \in [Ids -> Nat]
          /\ get \in [Threads -> GetRec]
          /\ sweeper \in SweeperRec

Init == /\ now = 0
        /\ present = {}
        /\ expiry = [i \in Ids |-> 0]
        /\ issued = {}
        /\ get = [t \in Threads |-> Idle]
        /\ sweeper = Waiting

-----------------------------------------------------------------------------
(* sess.Expiry.Before(time.Now()); no caller stores a zero Expiry.         *)
Expired(e) == e < now

Live(i) == i \in present /\ ~Expired(expiry[i])

Tick == /\ now < MaxTime
        /\ now' = now + 1
        /\ UNCHANGED <<present, expiry, issued, get, sweeper>>

(* Mutant: an id can be handed out again once its session is gone.         *)
CreateReusingIds(i) == /\ i \notin present
                       /\ issued' = issued \cup {i}
                       /\ present' = present \cup {i}
                       /\ expiry' = [expiry EXCEPT ![i] = now + TTL]
                       /\ UNCHANGED <<now, get, sweeper>>

(* Mutant: a session is stored under an id that was never returned.        *)
CreateUnissued(i) == /\ i \notin issued
                     /\ present' = present \cup {i}
                     /\ expiry' = [expiry EXCEPT ![i] = now + TTL]
                     /\ UNCHANGED <<now, issued, get, sweeper>>

Create(i) == /\ i \notin issued
             /\ issued' = issued \cup {i}
             /\ present' = present \cup {i}
             /\ expiry' = [expiry EXCEPT ![i] = now + TTL]
             /\ UNCHANGED <<now, get, sweeper>>

Delete(i) == /\ i \in issued
             /\ present' = present \ {i}
             /\ UNCHANGED <<now, expiry, issued, get, sweeper>>

-----------------------------------------------------------------------------
(* The cookie's id is looked up under the read lock...                     *)
GetRead(t, i) ==
    /\ get[t].pc = "idle"
    /\ i \in issued
    /\ get' = [get EXCEPT ![t] = [pc |-> "check", id |-> i,
                                  found |-> i \in present, exp |-> expiry[i]]]
    /\ UNCHANGED <<now, present, expiry, issued, sweeper>>

(* ...its expiry is compared with the clock after the lock is released...  *)
GetCheck(t) ==
    /\ get[t].pc = "check"
    /\ get' = [get EXCEPT ![t].pc = IF ~get[t].found THEN "miss"
                                    ELSE IF Expired(get[t].exp) THEN "delete"
                                    ELSE "recheck"]
    /\ UNCHANGED <<now, present, expiry, issued, sweeper>>

(* ...and an expired one is deleted under the write lock.                  *)
GetDelete(t) ==
    /\ get[t].pc = "delete"
    /\ present' = present \ {get[t].id}
    /\ get' = [get EXCEPT ![t].pc = "miss"]
    /\ UNCHANGED <<now, expiry, issued, sweeper>>

(* Mutant: the verdict of Get is trusted however old it is.                *)
ReadWithoutRecheck(t) ==
    /\ get[t].pc = "recheck"
    /\ get' = [get EXCEPT ![t].pc = "hit"]
    /\ UNCHANGED <<now, present, expiry, issued, sweeper>>

(* ReadSession looks at the clock once more and hands out a copy.          *)
ReadRecheck(t) ==
    /\ get[t].pc = "recheck"
    /\ get' = [get EXCEPT ![t].pc = IF Expired(get[t].exp) THEN "miss"
                                                           ELSE "hit"]
    /\ UNCHANGED <<now, present, expiry, issued, sweeper>>

(* The handler answers the client: the copy it worked with is gone.        *)
Respond(t) ==
    /\ get[t].pc \in {"hit", "miss"}
    /\ get' = [get EXCEPT ![t] = Idle]
    /\ UNCHANGED <<now, present, expiry, issued, sweeper>>

-----------------------------------------------------------------------------
SweepTick == /\ sweeper.pc = "wait"
             /\ sweeper' = [pc |-> "sweep", now |-> now]
             /\ UNCHANGED <<now, present, expiry, issued, get>>

(* Mutant: After in place of Before.                                        *)
SweepAfter == /\ sweeper.pc = "sweep"
              /\ present' = {i \in present : ~(expiry[i] > sweeper.now)}
              /\ sweeper' = Waiting
              /\ UNCHANGED <<now, expiry, issued, get>>

Sweep == /\ sweeper.pc = "sweep"
         /\ present' = {i \in present : ~(expiry[i] < sweeper.now)}
         /\ sweeper' = Waiting
         /\ UNCHANGED <<now, expiry, issued, get>>

(* The store lives in memory: a restart of the server empties it, while    *)
(* browsers keep the cookies they were given.                              *)
Restart == /\ present' = {}
           /\ get' = [t \in Threads |-> Idle]
           /\ sweeper' = Waiting
           /\ UNCHANGED <<now, expiry, issued>>

-----------------------------------------------------------------------------
Next == \/ Tick
        \/ \E i \in Ids : Create(i) \/ Delete(i)
        \/ \E t \in Threads : \/ \E i \in Ids : GetRead(t, i)
                              \/ GetCheck(t)
                              \/ GetDelete(t)
                              \/ ReadRecheck(t)
                              \/ Respond(t)
        \/ SweepTick
        \/ Sweep
        \/ Restart

Spec == Init /\ [][Next]_vars

(* The ticker of StartSweeper fires for as long as the server runs; its    *)
(* context is never cancelled.  Nothing is assumed of clients.             *)
Fairness == WF_vars(SweepTick) /\ WF_vars(Sweep)

FairSpec == Spec /\ Fairness

-----------------------------------------------------------------------------
(* A live session leaves the store only when its user logs out or the      *)
(* server restarts: neither the lazy deletion of Get nor a sweep that read *)
(* the clock long ago evicts it.                                           *)
OnlyLogoutEndsLive ==
    [][\A i \in Ids : Live(i) /\ i \notin present' => Delete(i) \/ Restart]_vars

(* Once the store no longer serves a session it never serves it again:     *)
(* every lookup that starts later misses, whatever happens in between.     *)
DeadStaysDead ==
    [][\A i \in issued : ~Live(i) => ~Live(i)']_vars

(* A session that has expired leaves memory even if nobody presents its    *)
(* cookie again: the sweeper finds it.                                     *)
ExpiredAreSwept ==
    \A i \in Ids : i \in present /\ Expired(expiry[i]) ~> i \notin present

-----------------------------------------------------------------------------
(* The abstract store: a session is live while it is present and has not   *)
(* expired; a lookup may hit while its copy has not expired, and may miss  *)
(* once it has or the session is gone.                                     *)
StatusOf(i) == IF i \notin issued THEN "unused"
               ELSE IF Live(i) THEN "live" ELSE "dead"

PhaseOf(pc) == IF pc \in {"idle", "hit", "miss"} THEN pc ELSE "asked"

CallOf(g) ==
    LET asked == PhaseOf(g.pc) = "asked"
        hit == g.found /\ ~Expired(g.exp)
    IN [phase |-> PhaseOf(g.pc), id |-> g.id,
        mayHit |-> asked /\ hit,
        mayMiss |-> asked /\ (hit => g.id \notin present)]

Abstract == INSTANCE SessionSpec
                WITH status <- [i \in Ids |-> StatusOf(i)],
                     call <- [t \in Threads |-> CallOf(get[t])]

(* Every behaviour of the locked map is one of the abstract store: its     *)
(* lookups are linearizable up to the logouts that overlap them.           *)
Refines == Abstract!AbstractSpec
=============================================================================
