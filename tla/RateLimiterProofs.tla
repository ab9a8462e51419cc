------------------------- MODULE RateLimiterProofs -------------------------
(***************************************************************************)
(* Theorems about RateLimiter, for any clients, numbers of requests, burst *)
(* and rate, and from any moment on.  Readings of the clock reach a bucket *)
(* out of order; what is refilled for the later one and taken back for the *)
(* earlier one cancels out, except at the capacity, where only the client  *)
(* loses.                                                                  *)
(***************************************************************************)
EXTENDS RateLimiter, TLAPS

(* What a handler has by the time it gets to a step.                       *)
HandlerOK(r) ==
    /\ req[r].pc \in {"rotate", "copy"} => req[r].ip \in IPs
    /\ req[r].pc = "copy" => salt # None
    /\ req[r].pc = "lock" => req[r].at <= now

(* The tokens of a bucket, with those that will be refilled until the      *)
(* latest reading, are not negative; with those taken in the window, they  *)
(* are no more than the window allows.                                     *)
FilledOK(b, n) ==
    /\ b.lastRefill <= b.latest /\ b.latest <= now
    /\ b.tokens <= Cap
    /\ b.tokens + (b.latest - b.lastRefill) >= 0
    /\ n > 0 => b.tokens + n * Period <= Cap + (b.lastRefill - WindowStart)

BucketOK(k) ==
    /\ buckets[k] = None => taken[k] = 0
    /\ buckets[k] # None => FilledOK(buckets[k], taken[k])

LimiterInv == /\ TypeOK
              /\ \A r \in Requests : HandlerOK(r)
              /\ \A k \in Keys : BucketOK(k)

-----------------------------------------------------------------------------
(* A full bucket holds at least one token.                                 *)
LEMMA CapHoldsOne == Cap \in Nat /\ Cap >= Period
<1> DEFINE n == IF Burst > 0 THEN Burst ELSE 1
<1>1. n \in Nat /\ n >= 1 /\ Period \in Nat
  BY RateAssumption
<1>2. \A m \in Nat : m >= 1 => m * Period \in Nat /\ m * Period >= Period
  BY <1>1
<1> HIDE DEF n
<1>3. n * Period \in Nat /\ n * Period >= Period
  BY <1>1, <1>2
<1> QED BY <1>3 DEF Cap, n

LEMMA DayIsNat == \A t \in Nat : Day(t) \in Nat
BY RateAssumption DEF Day

(* A bucket that is looked at with a reading t...                          *)
LEMMA RefilledOK ==
  ASSUME LimiterInv, NEW k \in Keys, NEW t \in Nat, t <= now
  PROVE  LET b == Refilled(BucketAt(k, t), t)
         IN /\ b \in Bucket /\ FilledOK(b, taken[k])
            /\ b.lastRefill = t
<1> DEFINE c == BucketAt(k, t)
           b == Refilled(c, t)
<1>1. /\ now \in Nat /\ taken[k] \in Nat /\ buckets[k] \in Bucket \cup {None}
      /\ Cap \in Nat /\ Period \in Nat /\ WindowStart \in Nat
  BY CapHoldsOne, RateAssumption DEF LimiterInv, TypeOK
<1>2. c \in Bucket /\ FilledOK(c, taken[k])
  <2>1. CASE buckets[k] = None
    <3>1. c = [tokens |-> Cap, lastRefill |-> t, latest |-> t]
      BY <2>1 DEF BucketAt
    <3>2. taken[k] = 0
      BY <2>1 DEF LimiterInv, BucketOK
    <3> QED BY <1>1, <3>1, <3>2 DEF Bucket, FilledOK
  <2>2. CASE buckets[k] # None
    BY <1>1, <2>2 DEF BucketAt, LimiterInv, BucketOK
  <2> QED BY <2>1, <2>2
<1> HIDE DEF c
<1>3. /\ c.tokens \in Int /\ c.lastRefill \in Nat /\ c.latest \in Nat
  BY <1>2 DEF Bucket
<1>4. /\ b.tokens = Least(Cap, c.tokens + (t - c.lastRefill))
      /\ b.lastRefill = t /\ b.latest = Latest(c.latest, t)
  BY DEF Refilled
<1>5. b \in Bucket
  BY <1>1, <1>3 DEF Refilled, Bucket, Least, Latest
<1> HIDE DEF b
<1>6. \A x \in Int : /\ c.tokens + x <= Cap + (c.lastRefill - WindowStart)
                     => b.tokens + x <= Cap + (t - WindowStart)
  BY <1>1, <1>3, <1>4 DEF Least
<1>7. taken[k] * Period \in Int
  BY <1>1
<1>8. taken[k] > 0 => b.tokens + taken[k] * Period <= Cap + (t - WindowStart)
  BY <1>2, <1>6, <1>7 DEF FilledOK
<1>9. /\ t <= b.latest /\ b.latest <= now /\ b.tokens <= Cap
      /\ b.tokens + (b.latest - t) >= 0
  BY <1>1, <1>2, <1>3, <1>4 DEF FilledOK, Least, Latest
<1>10. FilledOK(b, taken[k])
  BY <1>4, <1>8, <1>9 DEF FilledOK
<1> QED BY <1>4, <1>5, <1>10 DEF b, c

(* ...and from which a token may be taken.                                 *)
LEMMA AllowKeeps ==
  ASSUME LimiterInv, NEW r \in Requests, Allow(r)
  PROVE  LimiterInv'
<1> DEFINE k == req[r].key
           t == req[r].at
           b == Refilled(BucketAt(k, t), t)
           spent == [b EXCEPT !.tokens = @ - Period]
<1>1. /\ req[r] \in Request /\ k \in Keys /\ t \in Nat /\ t <= now
      /\ now \in Nat /\ taken[k] \in Nat
      /\ taken \in [Keys -> Nat] /\ buckets \in [Keys -> Bucket \cup {None}]
      /\ req \in [Requests -> Request]
  BY DEF LimiterInv, TypeOK, HandlerOK, Allow, Request
<1>2. /\ b \in Bucket /\ FilledOK(b, taken[k]) /\ b.lastRefill = t
  BY <1>1, RefilledOK
<1>3. /\ Cap \in Nat /\ Period \in Nat \ {0} /\ WindowStart \in Nat
  BY CapHoldsOne, RateAssumption
<1> DEFINE i(result) == [Idle EXCEPT !.pc = result]
<1>4. \A result \in {"admitted", "refused"} :
          i(result) \in Request /\ i(result).pc = result
  BY DEF Idle, Request
<1>5. /\ req' \in [Requests -> Request]
      /\ \A q \in Requests : req'[q] = req[q] \/ req'[q].pc \in {"admitted", "refused"}
  BY <1>1, <1>4 DEF Allow, Answer
<1>6. UNCHANGED <<now, salt, rotDay, made>>
  BY DEF Allow
<1>7. ASSUME buckets' \in [Keys -> Bucket \cup {None}], taken' \in [Keys -> Nat],
             \A q \in Keys \ {k} : buckets'[q] = buckets[q] /\ taken'[q] = taken[q],
             buckets'[k] \in Bucket, FilledOK(buckets'[k], taken'[k])
      PROVE  LimiterInv'
  <2>1. TypeOK'
    BY <1>5, <1>6, <1>7 DEF LimiterInv, TypeOK
  <2>2. \A q \in Requests : HandlerOK(q)'
    BY <1>5, <1>6 DEF LimiterInv, HandlerOK
  <2>3. \A q \in Keys : BucketOK(q)'
    BY <1>6, <1>7, NilAssumption DEF LimiterInv, BucketOK, FilledOK
  <2> QED BY <2>1, <2>2, <2>3 DEF LimiterInv
<1>8. CASE /\ b.tokens >= Period
           /\ buckets' = [buckets EXCEPT ![k] = spent]
           /\ taken' = [taken EXCEPT ![k] = IF t >= WindowStart THEN @ + 1 ELSE @]
  <2>1. /\ spent \in Bucket /\ spent.tokens = b.tokens - Period
        /\ spent.lastRefill = t /\ spent.latest = b.latest
    BY <1>2, <1>3 DEF Bucket
  <2>2. b.tokens \in Int /\ b.latest \in Nat
    BY <1>2 DEF Bucket
  <2>3. /\ taken' \in [Keys -> Nat]
        /\ taken'[k] = IF t >= WindowStart THEN taken[k] + 1 ELSE taken[k]
    BY <1>1, <1>3, <1>8
  <2>4. /\ (taken[k] + 1) * Period = taken[k] * Period + Period
        /\ taken[k] * Period \in Int
        /\ taken[k] = 0 => taken[k] * Period = 0
    BY <1>1, <1>3
  <2>5. taken'[k] > 0 =>
            spent.tokens + taken'[k] * Period <= Cap + (t - WindowStart)
    <3>1. CASE t >= WindowStart
      <4>1. b.tokens + taken[k] * Period <= Cap + (t - WindowStart)
        BY <1>1, <1>2, <1>3, <2>2, <2>4, <3>1 DEF FilledOK
      <4>2. taken'[k] * Period = taken[k] * Period + Period
        BY <2>3, <2>4, <3>1
      <4> QED BY <1>1, <1>3, <2>1, <2>2, <2>4, <4>1, <4>2
    <3>2. CASE ~(t >= WindowStart)
      <4>1. taken'[k] = taken[k]
        BY <2>3, <3>2
      <4>2. taken[k] > 0 => b.tokens + taken[k] * Period <= Cap + (t - WindowStart)
        BY <1>2 DEF FilledOK
      <4> HIDE DEF b
      <4> QED BY <1>1, <1>3, <2>1, <2>2, <2>4, <4>1, <4>2
    <3> QED BY <3>1, <3>2
  <2> HIDE DEF spent, b
  <2>6. FilledOK(spent, taken'[k])
    <3>1. /\ b.lastRefill <= b.latest /\ b.latest <= now /\ b.tokens <= Cap
          /\ b.lastRefill = t
      BY <1>2 DEF FilledOK
    <3>2. /\ spent.lastRefill <= spent.latest /\ spent.latest <= now
          /\ spent.tokens <= Cap
          /\ spent.tokens + (spent.latest - spent.lastRefill) >= 0
      BY <1>1, <1>3, <1>8, <2>1, <2>2, <3>1
    <3> QED BY <1>6, <2>1, <2>5, <3>2 DEF FilledOK
  <2>7. /\ buckets'[k] = spent
        /\ buckets' \in [Keys -> Bucket \cup {None}]
        /\ \A q \in Keys \ {k} : buckets'[q] = buckets[q] /\ taken'[q] = taken[q]
    BY <1>1, <1>8, <2>1
  <2> QED BY <1>7, <2>1, <2>3, <2>6, <2>7
<1>9. CASE buckets' = [buckets EXCEPT ![k] = b] /\ UNCHANGED taken
  <2> HIDE DEF b
  <2>1. /\ buckets'[k] = b
        /\ buckets' \in [Keys -> Bucket \cup {None}]
        /\ \A q \in Keys \ {k} : buckets'[q] = buckets[q]
    BY <1>1, <1>2, <1>9
  <2> QED BY <1>1, <1>2, <1>7, <1>9, <2>1
<1> QED BY <1>8, <1>9 DEF Allow

LEMMA LimiterInitInv == Init => LimiterInv
BY RateAssumption DEF Init, LimiterInv, TypeOK, HandlerOK, BucketOK, Idle, Request

LEMMA LimiterStepInv == LimiterInv /\ [Next]_vars => LimiterInv'
<1> SUFFICES ASSUME LimiterInv, [Next]_vars PROVE LimiterInv'
  OBVIOUS
<1>0. /\ TypeOK /\ \A r \in Requests : HandlerOK(r) /\ req[r] \in Request
  BY DEF LimiterInv, TypeOK
<1>1. ASSUME TypeOK', \A r \in Requests : HandlerOK(r)',
             UNCHANGED <<buckets, taken>>, now <= now'
      PROVE  LimiterInv'
  <2>1. ASSUME NEW k \in Keys PROVE BucketOK(k)'
    <3>1. BucketOK(k) /\ buckets[k] \in Bucket \cup {None}
      BY DEF LimiterInv, TypeOK
    <3>2. now \in Nat /\ now' \in Nat
      BY <1>0, <1>1 DEF TypeOK
    <3> QED BY <1>1, <3>1, <3>2 DEF BucketOK, FilledOK, Bucket
  <2> QED BY <1>1, <2>1 DEF LimiterInv
<1>2. CASE Tick
  <2>1. TypeOK'
    BY <1>0, <1>2 DEF Tick, TypeOK
  <2>2. ASSUME NEW r \in Requests PROVE HandlerOK(r)'
    BY <1>0, <1>2 DEF Tick, TypeOK, HandlerOK, Request
  <2> QED BY <1>0, <1>1, <1>2, <2>1, <2>2 DEF Tick, TypeOK
<1>3. ASSUME NEW r \in Requests, Arrive(r) PROVE LimiterInv'
  <2>1. PICK ip \in IPs :
          req' = [req EXCEPT ![r] = [Idle EXCEPT !.pc = "rotate", !.ip = ip,
                                                 !.day = Day(now)]]
    BY <1>3 DEF Arrive
  <2>2. UNCHANGED <<now, salt, rotDay, buckets, made, taken>>
    BY <1>3 DEF Arrive
  <2>3. Day(now) \in Nat
    BY <1>0, DayIsNat DEF TypeOK
  <2>4. TypeOK'
    BY <1>0, <2>1, <2>2, <2>3 DEF TypeOK, Idle, Request
  <2>5. ASSUME NEW q \in Requests PROVE HandlerOK(q)'
    BY <1>0, <2>1, <2>2 DEF TypeOK, HandlerOK, Idle
  <2> QED BY <1>0, <1>1, <2>2, <2>4, <2>5 DEF TypeOK
<1>4. ASSUME NEW r \in Requests, Rotate(r) PROVE LimiterInv'
  <2>1. /\ req' = [req EXCEPT ![r].pc = "copy", ![r].day = 0]
        /\ UNCHANGED <<now, buckets, taken>> /\ req[r].pc = "rotate"
    BY <1>4 DEF Rotate
  <2>2. /\ salt' \in Salts /\ rotDay' \in Nat /\ made' \subseteq Salts
    BY <1>0, <1>4 DEF Rotate, TypeOK, Request
  <2>3. req' \in [Requests -> Request]
    BY <1>0, <2>1 DEF TypeOK, Request
  <2>4. TypeOK'
    BY <1>0, <2>1, <2>2, <2>3 DEF TypeOK
  <2>5. ASSUME NEW q \in Requests PROVE HandlerOK(q)'
    BY <1>0, <2>1, <2>2, NilAssumption DEF TypeOK, HandlerOK
  <2> QED BY <1>0, <1>1, <2>1, <2>4, <2>5 DEF TypeOK
<1>5. ASSUME NEW r \in Requests, CopySalt(r) PROVE LimiterInv'
  <2>1. /\ req' = [req EXCEPT ![r].pc = "clock", ![r].ip = None,
                              ![r].key = <<salt, req[r].ip>>]
        /\ UNCHANGED <<now, salt, rotDay, buckets, made, taken>>
        /\ req[r].pc = "copy"
    BY <1>5 DEF CopySalt
  <2>2. <<salt, req[r].ip>> \in Keys
    BY <1>0, <2>1 DEF TypeOK, HandlerOK, Keys
  <2>3. TypeOK'
    <3> DEFINE i == [req[r] EXCEPT !.pc = "clock", !.ip = None,
                                   !.key = <<salt, req[r].ip>>]
    <3>1. i \in Request /\ i.key \in Keys
      BY <1>0, <2>2 DEF Request
    <3>2. req' = [req EXCEPT ![r] = i]
      BY <1>0, <2>1 DEF TypeOK
    <3> HIDE DEF i
    <3> QED BY <1>0, <2>1, <3>1, <3>2 DEF TypeOK
  <2>4. ASSUME NEW q \in Requests PROVE HandlerOK(q)'
    BY <1>0, <2>1 DEF TypeOK, HandlerOK
  <2> QED BY <1>0, <1>1, <2>1, <2>3, <2>4 DEF TypeOK
<1>6. ASSUME NEW r \in Requests, ReadClock(r) PROVE LimiterInv'
  <2>1. /\ req' = [req EXCEPT ![r].pc = "lock", ![r].at = now]
        /\ UNCHANGED <<now, salt, rotDay, buckets, made, taken>>
        /\ req[r].pc = "clock"
    BY <1>6 DEF ReadClock
  <2>2. TypeOK'
    BY <1>0, <2>1 DEF TypeOK, Request
  <2>3. ASSUME NEW q \in Requests PROVE HandlerOK(q)'
    BY <1>0, <2>1 DEF TypeOK, HandlerOK
  <2> QED BY <1>0, <1>1, <2>1, <2>2, <2>3 DEF TypeOK
<1>7. ASSUME NEW r \in Requests, Done(r) PROVE LimiterInv'
  <2>1. /\ req' = [req EXCEPT ![r] = Idle]
        /\ UNCHANGED <<now, salt, rotDay, buckets, made, taken>>
    BY <1>7 DEF Done
  <2>2. TypeOK'
    BY <1>0, <2>1 DEF TypeOK, Request, Idle
  <2>3. ASSUME NEW q \in Requests PROVE HandlerOK(q)'
    BY <1>0, <2>1 DEF TypeOK, HandlerOK, Idle
  <2> QED BY <1>0, <1>1, <2>1, <2>2, <2>3 DEF TypeOK
<1>8. CASE UNCHANGED vars
  <2>1. TypeOK' /\ \A r \in Requests : HandlerOK(r)'
    BY <1>0, <1>8 DEF vars, TypeOK, HandlerOK
  <2> QED BY <1>0, <1>1, <1>8, <2>1 DEF vars, TypeOK
<1> QED
  BY <1>2, <1>3, <1>4, <1>5, <1>6, <1>7, <1>8, AllowKeeps DEF Next, Serve

(* The invariant holds for every order in which readings reach a bucket.  *)
THEOREM LimiterInvHolds == Spec => []LimiterInv
BY LimiterInitInv, LimiterStepInv, PTL DEF Spec

(* Salts, buckets and requests keep their types; in particular no key is   *)
(* ever made without a salt, which would be the bare hash of an address.   *)
THEOREM LimiterTypeCorrect == Spec => []TypeOK
<1>1. LimiterInv => TypeOK
  BY DEF LimiterInv
<1> QED BY <1>1, LimiterInvHolds, PTL

(* Whatever the order in which readings of the clock reach a bucket, from  *)
(* any moment on it gives out no more than a burst and what has been       *)
(* refilled since.                                                         *)
THEOREM WindowIsBounded == Spec => []WindowBound
<1>1. LimiterInv => WindowBound
  <2> SUFFICES ASSUME LimiterInv, NEW k \in Keys, taken[k] > 0
               PROVE  taken[k] * Period <= Cap + (now - WindowStart)
    BY DEF WindowBound
  <2> DEFINE b == buckets[k]
  <2>1. b \in Bucket /\ FilledOK(b, taken[k])
    BY DEF LimiterInv, TypeOK, BucketOK
  <2>2. /\ b.tokens \in Int /\ b.lastRefill \in Nat /\ b.latest \in Nat
        /\ now \in Nat /\ taken[k] \in Nat /\ WindowStart \in Nat /\ Period \in Nat
        /\ Cap \in Nat
    BY <2>1, CapHoldsOne, RateAssumption DEF Bucket, LimiterInv, TypeOK
  <2>3. taken[k] * Period \in Int
    BY <2>2
  <2>4. /\ b.tokens + (b.latest - b.lastRefill) >= 0 /\ b.latest <= now
        /\ b.tokens + taken[k] * Period <= Cap + (b.lastRefill - WindowStart)
    BY <2>1 DEF FilledOK
  <2> HIDE DEF b
  <2> QED BY <2>2, <2>3, <2>4
<1> QED BY <1>1, LimiterInvHolds, PTL

(* A client that waits for as long as one token takes is admitted: stale   *)
(* readings and refused requests cost it nothing.                          *)
THEOREM PatienceIsRewarded == Spec => PatientAreAdmitted
<1> DEFINE A == \A r \in Requests :
                   req[r].pc = "lock" /\ req'[r].pc = "refused" =>
                      /\ buckets[req[r].key] # None
                      /\ req[r].at - buckets[req[r].key].latest < Period
<1>1. LimiterInv /\ [Next]_vars => [A]_vars
  <2> SUFFICES ASSUME LimiterInv, Next, NEW r \in Requests,
                      req[r].pc = "lock", req'[r].pc = "refused"
               PROVE  /\ buckets[req[r].key] # None
                      /\ req[r].at - buckets[req[r].key].latest < Period
    OBVIOUS
  <2> DEFINE k == req[r].key
             t == req[r].at
             b == Refilled(BucketAt(k, t), t)
  <2>1. /\ k \in Keys /\ t \in Nat /\ t <= now /\ req \in [Requests -> Request]
        /\ buckets[k] \in Bucket \cup {None}
    BY DEF LimiterInv, TypeOK, HandlerOK, Request
  <2>2. Allow(r) /\ b.tokens < Period
    <3>1. \A q \in Requests : ~Allow(q) /\ Serve(q) => req'[r].pc # "refused"
      BY <2>1 DEF Serve, Arrive, Rotate, CopySalt, ReadClock, Done, Idle
    <3>2. \A q \in Requests \ {r} : Allow(q) => req'[r].pc # "refused"
      BY <2>1 DEF Allow, Answer
    <3>3. Tick => req'[r].pc # "refused"
      BY DEF Tick
    <3>4. Allow(r)
      BY <3>1, <3>2, <3>3 DEF Next, Serve
    <3>5. Answer(r, "admitted") => req'[r].pc = "admitted"
      BY <2>1 DEF Answer, Idle
    <3> QED BY <3>4, <3>5 DEF Allow
  <2>3. /\ Cap \in Nat /\ Cap >= Period /\ Period \in Nat
    BY CapHoldsOne, RateAssumption
  <2>4. CASE buckets[k] = None
    <3>1. b.tokens = Least(Cap, Cap + (t - t))
      BY <2>4 DEF BucketAt, Refilled
    <3> HIDE DEF b
    <3> QED BY <2>1, <2>2, <2>3, <3>1 DEF Least
  <2>5. CASE buckets[k] # None
    <3>1. b.tokens = Least(Cap, buckets[k].tokens + (t - buckets[k].lastRefill))
      BY <2>5 DEF BucketAt, Refilled
    <3>2. /\ buckets[k].tokens \in Int /\ buckets[k].lastRefill \in Nat
          /\ buckets[k].latest \in Nat
          /\ buckets[k].tokens + (buckets[k].latest - buckets[k].lastRefill) >= 0
      BY <2>1, <2>5 DEF LimiterInv, BucketOK, FilledOK, Bucket
    <3> HIDE DEF b
    <3> QED BY <2>1, <2>2, <2>3, <2>5, <3>1, <3>2 DEF Least
  <2> QED BY <2>4, <2>5
<1> QED
  BY <1>1, LimiterInvHolds, PTL DEF Spec, PatientAreAdmitted
=============================================================================
