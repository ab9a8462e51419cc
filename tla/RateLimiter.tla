---------------------------- MODULE RateLimiter ----------------------------
(***************************************************************************)
(* The rate limiter: a token bucket for every client, found by a hash of   *)
(* its address and of a salt that is replaced when the day changes.  A     *)
(* request takes five steps, because the clock is read before each of the  *)
(* two locks is taken and the salt is copied under a third: another        *)
(* request may come in between with an earlier or a later reading.  No     *)
(* middleware before this one puts a session into the context, so the key  *)
(* never is that of a user.                                                *)
(*                                                                         *)
(* Tokens are counted in the time they take to be refilled: a request      *)
(* costs Period ticks, and one tick refills one.                           *)
(***************************************************************************)
EXTENDS Integers, FiniteSets

CONSTANTS IPs,          \* the clients' addresses
          Requests,     \* goroutines that serve requests
          Salts,        \* what time-based hashes can yield
          None,         \* nil
          Burst,        \* as configured; not positive means 1
          Period,       \* ticks in which one token is refilled
          DayLength,    \* ticks in a day
          MaxTime,      \* where a run ends
          WindowStart   \* the moment from which admissions are counted

ASSUME RateAssumption == /\ Burst \in Int
                         /\ Period \in Nat \ {0}
                         /\ DayLength \in Nat \ {0}
                         /\ WindowStart \in Nat

VARIABLES now, salt, rotDay, buckets, req,
          made,      \* history: the salts there have been
          taken      \* history: admissions since WindowStart, by key

vars == <<now, salt, rotDay, buckets, req, made, taken>>

Cap == (IF Burst > 0 THEN Burst ELSE 1) * Period
Day(t) == t \div DayLength + 1

Keys == Salts \X IPs

(* latest is history: the latest of the readings the bucket has seen.      *)
Bucket == [tokens : Int, lastRefill : Nat, latest : Nat]

ASSUME NilAssumption == None \notin Salts /\ None \notin Bucket

Request == [pc : {"new", "rotate", "copy", "clock", "lock", "admitted", "refused"},
            ip : IPs \cup {None}, day : Nat, key : Keys \cup {None}, at : Nat]

Idle == [pc |-> "new", ip |-> None, day |-> 0, key |-> None, at |-> 0]

TypeOK == /\ now \in Nat
          /\ salt \in Salts \cup {None}
          /\ rotDay \in Nat
          /\ made \subseteq Salts
          /\ buckets \in [Keys -> Bucket \cup {None}]
          /\ taken \in [Keys -> Nat]
          /\ req \in [Requests -> Request]
          /\ \A r \in Requests : req[r].pc \in {"clock", "lock"} => req[r].key \in Keys

Init == /\ now = 0
        /\ salt = None
        /\ rotDay = 0
        /\ made = {}
        /\ buckets = [k \in Keys |-> None]
        /\ taken = [k \in Keys |-> 0]
        /\ req = [r \in Requests |-> Idle]

-----------------------------------------------------------------------------
(* Mutant: the salt is not looked at before it is used.                    *)
ArriveUnsalted(r) ==
    /\ req[r].pc = "new"
    /\ \E ip \in IPs : req' = [req EXCEPT ![r] = [Idle EXCEPT !.pc = "copy", !.ip = ip]]
    /\ UNCHANGED <<now, salt, rotDay, buckets, made, taken>>

(* ipKey, and rotateSaltIfNeeded as far as the clock.                      *)
Arrive(r) ==
    /\ req[r].pc = "new"
    /\ \E ip \in IPs : req' = [req EXCEPT ![r] = [Idle EXCEPT !.pc = "rotate",
                                                    !.ip = ip, !.day = Day(now)]]
    /\ UNCHANGED <<now, salt, rotDay, buckets, made, taken>>

(* Under rotMu: a salt of another day is replaced.                         *)
Rotate(r) ==
    /\ req[r].pc = "rotate"
    /\ req' = [req EXCEPT ![r].pc = "copy", ![r].day = 0]
    /\ IF req[r].day # rotDay \/ salt = None
       THEN /\ rotDay' = req[r].day
            /\ \E s \in Salts \ made : salt' = s /\ made' = made \cup {s}
       ELSE UNCHANGED <<salt, rotDay, made>>
    /\ UNCHANGED <<now, buckets, taken>>

(* Under rotMu again: the salt is copied, and hashed with the address.     *)
CopySalt(r) ==
    /\ req[r].pc = "copy"
    /\ req' = [req EXCEPT ![r].pc = "clock", ![r].ip = None,
                           ![r].key = <<salt, req[r].ip>>]
    /\ UNCHANGED <<now, salt, rotDay, buckets, made, taken>>

(* allow, as far as the clock.                                             *)
ReadClock(r) ==
    /\ req[r].pc = "clock"
    /\ req' = [req EXCEPT ![r].pc = "lock", ![r].at = now]
    /\ UNCHANGED <<now, salt, rotDay, buckets, made, taken>>

Least(a, b) == IF a < b THEN a ELSE b
Latest(a, b) == IF a < b THEN b ELSE a

(* The bucket of a client that is new is full.                             *)
BucketAt(k, t) ==
    IF buckets[k] = None THEN [tokens |-> Cap, lastRefill |-> t, latest |-> t]
                         ELSE buckets[k]

(* Mutant: the bucket may hold more than its burst.                        *)
RefilledUncapped(b, t) ==
    [tokens |-> b.tokens + (t - b.lastRefill), lastRefill |-> t,
     latest |-> Latest(b.latest, t)]

(* Refilled at the reading t, which may be before the last one.            *)
Refilled(b, t) ==
    [tokens |-> Least(Cap, b.tokens + (t - b.lastRefill)), lastRefill |-> t,
     latest |-> Latest(b.latest, t)]

Answer(r, result) == req' = [req EXCEPT ![r] = [Idle EXCEPT !.pc = result]]

(* Mutant: the request that is refused is charged for as well.             *)
AllowChargesAlways(r) ==
    LET k == req[r].key
        b == Refilled(BucketAt(k, req[r].at), req[r].at)
    IN /\ req[r].pc = "lock"
       /\ buckets' = [buckets EXCEPT ![k] = [b EXCEPT !.tokens = @ - Period]]
       /\ IF b.tokens >= Period
          THEN /\ taken' = [taken EXCEPT ![k] =
                              IF req[r].at >= WindowStart THEN @ + 1 ELSE @]
               /\ Answer(r, "admitted")
          ELSE /\ Answer(r, "refused")
               /\ UNCHANGED taken
       /\ UNCHANGED <<now, salt, rotDay, made>>

(* allow, under mu.                                                        *)
Allow(r) ==
    LET k == req[r].key
        b == Refilled(BucketAt(k, req[r].at), req[r].at)
    IN /\ req[r].pc = "lock"
       /\ \/ /\ b.tokens >= Period
             /\ buckets' = [buckets EXCEPT ![k] = [b EXCEPT !.tokens = @ - Period]]
             /\ taken' = [taken EXCEPT ![k] =
                            IF req[r].at >= WindowStart THEN @ + 1 ELSE @]
             /\ Answer(r, "admitted")
          \/ /\ b.tokens < Period
             /\ buckets' = [buckets EXCEPT ![k] = b]
             /\ Answer(r, "refused")
             /\ UNCHANGED taken
       /\ UNCHANGED <<now, salt, rotDay, made>>

(* The goroutine is free for the next request.                             *)
Done(r) ==
    /\ req[r].pc \in {"admitted", "refused"}
    /\ req' = [req EXCEPT ![r] = Idle]
    /\ UNCHANGED <<now, salt, rotDay, buckets, made, taken>>

Tick == /\ now < MaxTime
        /\ now' = now + 1
        /\ UNCHANGED <<salt, rotDay, buckets, req, made, taken>>

Serve(r) == \/ Arrive(r) \/ Rotate(r) \/ CopySalt(r) \/ ReadClock(r)
            \/ Allow(r) \/ Done(r)

Next == Tick \/ \E r \in Requests : Serve(r)

Spec == Init /\ [][Next]_vars

-----------------------------------------------------------------------------
(* From whatever moment on, a client gets no more than a burst and what    *)
(* has been refilled since, although requests reach its bucket with the    *)
(* readings of their clocks out of order.                                  *)
WindowBound ==
    \A k \in Keys : taken[k] > 0 => taken[k] * Period <= Cap + (now - WindowStart)

(* A client that let the time of one token pass is not refused: neither    *)
(* the requests that were refused in between nor an old reading that       *)
(* reaches its bucket late cost it what has been refilled.                 *)
PatientAreAdmitted ==
    [][\A r \in Requests :
          req[r].pc = "lock" /\ req'[r].pc = "refused" =>
              /\ buckets[req[r].key] # None
              /\ req[r].at - buckets[req[r].key].latest < Period]_vars

(* The salt is replaced when the day changes and at no other time.         *)
SaltsAreDaily == Cardinality(made) <= Day(now)
=============================================================================
