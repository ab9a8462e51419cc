------------------------- MODULE SessionStoreProofs -------------------------
(***************************************************************************)
(* Proofs about SessionStore, for every set of ids and threads, every      *)
(* lifetime and every bound of the clock.                                  *)
(***************************************************************************)
EXTENDS SessionStore, TLAPS

(* What a thread remembers between two critical sections is still true     *)
(* enough: ids are never reissued, so the expiry it copied is the expiry   *)
(* stored under its id, and it only deletes what has expired; the sweeper's *)
(* clock is never ahead.                                                   *)
CopiesFaithful ==
    /\ sweeper.now <= now
    /\ \A t \in Threads :
          \/ get[t] = Idle
          \/ /\ get[t].pc # "idle"
             /\ get[t].id \in issued
             /\ get[t].exp = expiry[get[t].id]
             /\ get[t].pc = "delete" => get[t].found /\ Expired(get[t].exp)
             /\ get[t].pc \in {"recheck", "hit"} => get[t].found

IInv == TypeOK /\ CopiesFaithful

(* The initial state satisfies the inductive invariant.                    *)
LEMMA InitInv == Init => IInv
<1> SUFFICES ASSUME Init PROVE IInv
  OBVIOUS
<1> USE DEF Init
<1>1. TypeOK
  BY DEF TypeOK, GetRec, SweeperRec, Idle, Waiting
<1>2. CopiesFaithful
  BY DEF CopiesFaithful, Waiting
<1> QED
  BY <1>1, <1>2 DEF IInv

(* A thread that only moves on, with its copy unchanged, keeps the         *)
(* invariant as long as its new place agrees with the copy.                *)
LEMMA PcStep ==
  ASSUME IInv, NEW t \in Threads,
         NEW pc \in {"miss", "delete", "recheck", "hit"},
         get[t].pc # "idle",
         get' = [get EXCEPT ![t].pc = pc],
         pc = "delete" => get[t].found /\ Expired(get[t].exp),
         pc \in {"recheck", "hit"} => get[t].found,
         present' \subseteq present,
         UNCHANGED <<now, expiry, issued, sweeper>>
  PROVE  IInv'
<1> USE DEF IInv, TypeOK, GetRec, SweeperRec
<1>1. TypeOK'
  OBVIOUS
<1>2. /\ get[t].id \in issued
      /\ get[t].exp = expiry[get[t].id]
  BY DEF CopiesFaithful, Idle
<1>3. /\ get'[t].pc = pc /\ get'[t].id = get[t].id
      /\ get'[t].exp = get[t].exp /\ get'[t].found = get[t].found
      /\ \A u \in Threads \ {t} : get'[u] = get[u]
  OBVIOUS
<1>4. CopiesFaithful'
  BY <1>2, <1>3 DEF CopiesFaithful, Expired
<1> QED
  BY <1>1, <1>4

(* Every step of the store preserves the inductive invariant.              *)
LEMMA StepInv == IInv /\ [Next]_vars => IInv'
<1> SUFFICES ASSUME IInv, [Next]_vars PROVE IInv'
  OBVIOUS
<1> USE NoIdAssumption, ClockAssumption
<1> USE DEF IInv, TypeOK, CopiesFaithful, Expired, GetRec, SweeperRec
<1>1. CASE Tick
  BY <1>1 DEF Tick
<1>2. ASSUME NEW i \in Ids, Create(i) PROVE IInv'
  BY <1>2 DEF Create
<1>3. ASSUME NEW i \in Ids, Delete(i) PROVE IInv'
  BY <1>3 DEF Delete
<1>4. ASSUME NEW t \in Threads, NEW i \in Ids, GetRead(t, i) PROVE IInv'
  BY <1>4 DEF GetRead
<1>5. ASSUME NEW t \in Threads, GetCheck(t) PROVE IInv'
  <2> DEFINE pc == IF ~get[t].found THEN "miss"
                   ELSE IF Expired(get[t].exp) THEN "delete" ELSE "recheck"
  <2>1. get' = [get EXCEPT ![t].pc = pc] /\ get[t].pc = "check"
    BY <1>5 DEF GetCheck
  <2> QED
    BY <1>5, <2>1, PcStep DEF GetCheck
<1>6. ASSUME NEW t \in Threads, GetDelete(t) PROVE IInv'
  BY <1>6, PcStep DEF GetDelete
<1>7. ASSUME NEW t \in Threads, ReadRecheck(t) PROVE IInv'
  <2> DEFINE pc == IF Expired(get[t].exp) THEN "miss" ELSE "hit"
  <2>1. get' = [get EXCEPT ![t].pc = pc] /\ get[t].pc = "recheck"
    BY <1>7 DEF ReadRecheck
  <2>2. get[t].found
    BY <2>1 DEF Idle
  <2> QED
    BY <1>7, <2>1, <2>2, PcStep DEF ReadRecheck
<1>8. ASSUME NEW t \in Threads, Respond(t) PROVE IInv'
  BY <1>8 DEF Respond, Idle
<1>9. CASE SweepTick
  BY <1>9 DEF SweepTick
<1>10. CASE Sweep
  BY <1>10 DEF Sweep, Waiting
<1>11. CASE Restart
  BY <1>11 DEF Restart, Waiting, Idle
<1>12. CASE UNCHANGED vars
  BY <1>12 DEF vars
<1> QED
  BY <1>1, <1>2, <1>3, <1>4, <1>5, <1>6, <1>7, <1>8, <1>9, <1>10, <1>11,
     <1>12 DEF Next

(* The store's variables keep their types and every goroutine's copy stays *)
(* faithful to the map, whatever the interleaving.                         *)
THEOREM InvHolds == Spec => []IInv
BY InitInv, StepInv, PTL DEF Spec

(* The variables of the store always have their types; in particular every *)
(* session in the map is under an id that was issued (Store.Create).       *)
THEOREM TypeCorrect == Spec => []TypeOK
<1>1. IInv => TypeOK
  BY DEF IInv
<1> QED
  BY InvHolds, <1>1, PTL

-----------------------------------------------------------------------------
(* A live session leaves the map only by a logout or a restart: the lazy   *)
(* deletion in Store.Get and the sweeper both delete what they saw expired *)
(* before, and an id is never issued twice.                                *)
THEOREM LiveOnlyEndsByLogout == Spec => OnlyLogoutEndsLive
<1> DEFINE A == \A i \in Ids : Live(i) /\ i \notin present' =>
                                  Delete(i) \/ Restart
<1>1. ASSUME IInv, [Next]_vars PROVE [A]_vars
  <2> SUFFICES ASSUME NEW i \in Ids, Live(i), i \notin present', Next
               PROVE  Delete(i) \/ Restart
    BY <1>1
  <2> USE <1>1, ClockAssumption
  <2> USE DEF IInv, TypeOK, CopiesFaithful, Expired, GetRec, SweeperRec, Live
  <2>1. CASE Tick
    BY <2>1 DEF Tick
  <2>2. ASSUME NEW j \in Ids, Create(j) PROVE FALSE
    BY <2>2 DEF Create
  <2>3. ASSUME NEW j \in Ids, Delete(j) PROVE Delete(i)
    BY <2>3 DEF Delete
  <2>4. ASSUME NEW t \in Threads, NEW j \in Ids, GetRead(t, j) PROVE FALSE
    BY <2>4 DEF GetRead
  <2>5. ASSUME NEW t \in Threads,
               GetCheck(t) \/ ReadRecheck(t) \/ Respond(t)
        PROVE  FALSE
    BY <2>5 DEF GetCheck, ReadRecheck, Respond
  <2>6. ASSUME NEW t \in Threads, GetDelete(t) PROVE FALSE
    BY <2>6 DEF GetDelete, Idle
  <2>7. CASE SweepTick
    BY <2>7 DEF SweepTick
  <2>8. CASE Sweep
    BY <2>8 DEF Sweep
  <2> QED
    BY <2>1, <2>2, <2>3, <2>4, <2>5, <2>6, <2>7, <2>8 DEF Next
<1> QED
  BY <1>1, InvHolds, PTL DEF Spec, OnlyLogoutEndsLive

(* A session the store has stopped serving is never served again, because  *)
(* Create takes a fresh id and the clock does not go back.                 *)
THEOREM NoResurrection == Spec => DeadStaysDead
<1> DEFINE A == \A i \in issued : ~Live(i) => ~Live(i)'
<1>1. ASSUME IInv, [Next]_vars PROVE [A]_vars
  <2> SUFFICES ASSUME NEW i \in issued, ~Live(i), Next
               PROVE  ~Live(i)'
    BY <1>1
  <2> USE <1>1, ClockAssumption
  <2> USE DEF IInv, TypeOK, Expired, SweeperRec, Live
  <2>1. CASE Tick
    BY <2>1 DEF Tick
  <2>2. ASSUME NEW j \in Ids, Create(j) PROVE ~Live(i)'
    BY <2>2 DEF Create
  <2>3. ASSUME NEW j \in Ids, Delete(j) PROVE ~Live(i)'
    BY <2>3 DEF Delete
  <2>4. ASSUME NEW t \in Threads,
               \/ \E j \in Ids : GetRead(t, j)
               \/ GetCheck(t) \/ GetDelete(t) \/ ReadRecheck(t) \/ Respond(t)
        PROVE  ~Live(i)'
    BY <2>4 DEF GetRead, GetCheck, GetDelete, ReadRecheck, Respond
  <2>5. CASE SweepTick \/ Sweep \/ Restart
    BY <2>5 DEF SweepTick, Sweep, Restart
  <2> QED
    BY <2>1, <2>2, <2>3, <2>4, <2>5 DEF Next
<1> QED
  BY <1>1, InvHolds, PTL DEF Spec, DeadStaysDead

-----------------------------------------------------------------------------
(* The refinement: which step of the abstract store every critical section *)
(* is.  CallOf, with the clock and the map it looks at.                    *)
CallAt(g, n, p) ==
    LET asked == PhaseOf(g.pc) = "asked"
        hit == g.found /\ ~(g.exp < n)
    IN [phase |-> PhaseOf(g.pc), id |-> g.id,
        mayHit |-> asked /\ hit,
        mayMiss |-> asked /\ (hit => g.id \notin p)]

LEMMA CallIsAt ==
  \A t \in Threads : /\ CallOf(get[t]) = CallAt(get[t], now, present)
                     /\ CallOf(get[t])' = CallAt(get'[t], now', present')
BY DEF CallOf, CallAt, Expired

(* A lookup that is under way, and what the end of its session makes of    *)
(* it: a revocation, and an expiry.                                        *)
Lookup(id, h, m) == [phase |-> "asked", id |-> id, mayHit |-> h, mayMiss |-> m]
MayMiss(c) == [c EXCEPT !.mayMiss = TRUE]
MustMiss(c) == [c EXCEPT !.mayHit = FALSE, !.mayMiss = TRUE]

LEMMA LookupEnds ==
  ASSUME NEW id, NEW h \in BOOLEAN, NEW m \in BOOLEAN
  PROVE  /\ MayMiss(Lookup(id, h, m)) = Lookup(id, h, TRUE)
         /\ MustMiss(Lookup(id, h, m)) = Lookup(id, FALSE, TRUE)
         /\ Lookup(id, h, m).phase = "asked" /\ Lookup(id, h, m).id = id
<1> DEFINE fields == {"phase", "id", "mayHit", "mayMiss"}
           c == Lookup(id, h, m)
           d == MayMiss(c)
           e == MustMiss(c)
           x == Lookup(id, h, TRUE)
           y == Lookup(id, FALSE, TRUE)
<1>1. /\ d = [f \in fields |-> d[f]] /\ e = [f \in fields |-> e[f]]
      /\ x = [f \in fields |-> x[f]] /\ y = [f \in fields |-> y[f]]
  BY DEF Lookup, MayMiss, MustMiss
<1>2. c.phase = "asked" /\ c.id = id /\ c.mayHit = h /\ c.mayMiss = m
  BY DEF Lookup
<1>3. /\ d.phase = "asked" /\ d.id = id /\ d.mayHit = h /\ d.mayMiss = TRUE
      /\ x.phase = "asked" /\ x.id = id /\ x.mayHit = h /\ x.mayMiss = TRUE
  BY DEF Lookup, MayMiss
<1>4. /\ e.phase = "asked" /\ e.id = id /\ e.mayHit = FALSE /\ e.mayMiss = TRUE
      /\ y.phase = "asked" /\ y.id = id /\ y.mayHit = FALSE /\ y.mayMiss = TRUE
  BY DEF Lookup, MustMiss
<1> HIDE DEF c, d, e, x, y
<1>5. \A f \in fields : d[f] = x[f] /\ e[f] = y[f]
  BY <1>3, <1>4
<1>6. d = x /\ e = y
  BY <1>1, <1>5
<1> QED BY <1>2, <1>6 DEF c, d, e, x, y

(* A lookup that is over, or none.                                         *)
Over(phase, id) == [phase |-> phase, id |-> id, mayHit |-> FALSE, mayMiss |-> FALSE]
Answered(phase, id) == [Abstract!NoCall EXCEPT !.phase = phase, !.id = id]

LEMMA AnsweredIsOver ==
  ASSUME NEW phase, NEW id
  PROVE  Answered(phase, id) = Over(phase, id)
<1> DEFINE fields == {"phase", "id", "mayHit", "mayMiss"}
           x == Answered(phase, id)
           y == Over(phase, id)
<1>1. x = [f \in fields |-> x[f]] /\ y = [f \in fields |-> y[f]]
  BY DEF Answered, Over, Abstract!NoCall
<1>2. x.phase = phase /\ x.id = id /\ x.mayHit = FALSE /\ x.mayMiss = FALSE
  BY DEF Answered, Abstract!NoCall
<1>3. y.phase = phase /\ y.id = id /\ y.mayHit = FALSE /\ y.mayMiss = FALSE
  BY DEF Over
<1> HIDE DEF x, y
<1>4. \A f \in fields : x[f] = y[f]
  BY <1>2, <1>3
<1>5. x = y
  BY <1>1, <1>4
<1> QED BY <1>5 DEF x, y

(* What a lookup may answer, by cases.                                     *)
LEMMA CallOver ==
  ASSUME NEW g, NEW n, NEW p, g.pc \in {"idle", "hit", "miss"}
  PROVE  CallAt(g, n, p) = Over(g.pc, g.id)
<1> DEFINE asked == PhaseOf(g.pc) = "asked"
           hit == g.found /\ ~(g.exp < n)
           miss == hit => g.id \notin p
<1>1. CallAt(g, n, p) = [phase |-> PhaseOf(g.pc), id |-> g.id,
                         mayHit |-> (asked /\ hit), mayMiss |-> (asked /\ miss)]
  BY DEF CallAt
<1>2. PhaseOf(g.pc) = g.pc /\ ~asked
  BY DEF PhaseOf
<1> HIDE DEF asked, hit, miss
<1>3. (asked /\ hit) = FALSE /\ (asked /\ miss) = FALSE
  BY <1>2
<1> QED BY <1>1, <1>2, <1>3, Zenon DEF Over

LEMMA CallAsked ==
  ASSUME NEW g, NEW n, NEW p, NEW h \in BOOLEAN, NEW m \in BOOLEAN,
         g.pc \notin {"idle", "hit", "miss"},
         h <=> g.found /\ ~(g.exp < n), m <=> (h => g.id \notin p)
  PROVE  CallAt(g, n, p) = Lookup(g.id, h, m)
<1> DEFINE asked == PhaseOf(g.pc) = "asked"
           hit == g.found /\ ~(g.exp < n)
           miss == hit => g.id \notin p
<1>1. CallAt(g, n, p) = [phase |-> PhaseOf(g.pc), id |-> g.id,
                         mayHit |-> (asked /\ hit), mayMiss |-> (asked /\ miss)]
  BY DEF CallAt
<1>2. PhaseOf(g.pc) = "asked" /\ asked
  BY DEF PhaseOf
<1>3. (hit <=> h) /\ (miss <=> m)
  OBVIOUS
<1> HIDE DEF asked, hit, miss
<1>4. (asked /\ hit) = h /\ (asked /\ miss) = m
  BY <1>2, <1>3
<1> QED BY <1>1, <1>2, <1>4, Zenon DEF Lookup

LEMMA IdleOver ==
  \A n, p : CallAt(Idle, n, p) = Over("idle", NoId)
<1>1. Idle.pc = "idle" /\ Idle.id = NoId
  BY DEF Idle
<1> QED BY <1>1, CallOver

LEMMA InitRefines == Init => Abstract!SpecInit
<1> SUFFICES ASSUME Init PROVE Abstract!SpecInit
  OBVIOUS
<1>1. \A t \in Threads : CallOf(get[t]) = Abstract!NoCall
  BY CallIsAt, IdleOver DEF Init, Abstract!NoCall, Over
<1>2. \A i \in Ids : StatusOf(i) = "unused"
  BY DEF Init, StatusOf
<1> QED BY <1>1, <1>2 DEF Abstract!SpecInit

(* What leaves a lookup as it is.                                          *)
LEMMA SameCall ==
  ASSUME NEW g \in GetRec, NEW n \in Nat, NEW m \in Nat, NEW p, NEW q,
         g # Idle => /\ g.exp < m <=> g.exp < n
                     /\ ~(g.exp < n) => (g.id \in q <=> g.id \in p)
  PROVE  CallAt(g, m, q) = CallAt(g, n, p)
<1>1. CASE g.pc \in {"idle", "hit", "miss"}
  <2>1. CallAt(g, n, p) = Over(g.pc, g.id)
    BY <1>1, CallOver
  <2>2. CallAt(g, m, q) = Over(g.pc, g.id)
    BY <1>1, CallOver
  <2> QED BY <2>1, <2>2
<1>2. CASE g.pc \notin {"idle", "hit", "miss"}
  <2>1. PICK h \in BOOLEAN : h <=> g.found /\ ~(g.exp < n)
    OBVIOUS
  <2>2. PICK x \in BOOLEAN : x <=> (h => g.id \notin p)
    OBVIOUS
  <2>3. g # Idle
    BY <1>2 DEF Idle
  <2>4. (h <=> g.found /\ ~(g.exp < m)) /\ (x <=> (h => g.id \notin q))
    BY <2>1, <2>2, <2>3
  <2>5. CallAt(g, n, p) = Lookup(g.id, h, x)
    BY <1>2, <2>1, <2>2, CallAsked
  <2>6. CallAt(g, m, q) = Lookup(g.id, h, x)
    BY <1>2, <2>4, CallAsked
  <2> QED BY <2>5, <2>6
<1> QED BY <1>1, <1>2

StatusMap == [i \in Ids |-> StatusOf(i)]
CallMap == [t \in Threads |-> CallOf(get[t])]

(* A lookup sees nothing of what happens to sessions that have expired.    *)
LEMMA OtherCalls ==
  ASSUME IInv, NEW u \in Threads, get'[u] = get[u], UNCHANGED now,
         \A i \in issued : ~Expired(expiry[i]) => (i \in present' <=> i \in present)
  PROVE  CallOf(get[u])' = CallOf(get[u])
<1>1. get[u] \in GetRec /\ now \in Nat
  BY DEF IInv, TypeOK
<1>2. get[u] # Idle => get[u].exp = expiry[get[u].id] /\ get[u].id \in issued
  BY DEF IInv, CopiesFaithful
<1>3. get[u] # Idle /\ ~(get[u].exp < now) =>
         (get[u].id \in present' <=> get[u].id \in present)
  BY <1>2 DEF Expired
<1>4. CallAt(get[u], now, present') = CallAt(get[u], now, present)
  BY <1>1, <1>3, SameCall
<1> QED BY <1>4, CallIsAt

(* Nor is a session that has expired any different without its entry.      *)
LEMMA SameStatus ==
  ASSUME IInv, UNCHANGED <<now, expiry, issued>>,
         \A i \in issued : ~Expired(expiry[i]) => (i \in present' <=> i \in present)
  PROVE  UNCHANGED StatusMap
<1>1. \A i \in Ids : StatusOf(i)' = StatusOf(i)
  BY DEF StatusOf, Live, Expired, IInv, TypeOK
<1> QED BY <1>1 DEF StatusMap

(* A step of one thread.                                                   *)
LEMMA OneCall ==
  ASSUME IInv, NEW t \in Threads, NEW g, get' = [get EXCEPT ![t] = g],
         NEW c, CallAt(g, now, present') = c,
         UNCHANGED <<now, expiry, issued>>,
         \A i \in issued : ~Expired(expiry[i]) => (i \in present' <=> i \in present)
  PROVE  CallMap' = [CallMap EXCEPT ![t] = c] /\ UNCHANGED StatusMap
<1>1. /\ get'[t] = g
      /\ \A u \in Threads \ {t} : get'[u] = get[u]
  BY DEF IInv, TypeOK
<1>2. CallOf(get[t])' = c
  BY <1>1, CallIsAt
<1>3. \A u \in Threads \ {t} : CallOf(get[u])' = CallOf(get[u])
  BY <1>1, OtherCalls
<1>4. CallMap' = [CallMap EXCEPT ![t] = c]
  BY <1>2, <1>3 DEF CallMap
<1> QED BY <1>4, SameStatus

-----------------------------------------------------------------------------
LEMMA CreateIssues ==
  ASSUME IInv, NEW i \in Ids, Create(i)
  PROVE  Abstract!Issue(i)
<1>1. StatusOf(i) = "unused" /\ StatusOf(i)' = "live"
  BY ClockAssumption DEF Create, StatusOf, Live, Expired, IInv, TypeOK
<1>2. \A j \in Ids \ {i} : StatusOf(j)' = StatusOf(j)
  BY DEF Create, StatusOf, Live, Expired, IInv, TypeOK
<1>3. \A u \in Threads : CallOf(get[u])' = CallOf(get[u])
  <2>1. \A j \in issued : j \in present' <=> j \in present
    BY DEF Create
  <2> QED BY <2>1, OtherCalls DEF Create
<1> QED BY <1>1, <1>2, <1>3 DEF Abstract!Issue

LEMMA DeleteRevokes ==
  ASSUME IInv, NEW i \in Ids, Delete(i)
  PROVE  Abstract!Revoke(i) \/ UNCHANGED <<StatusMap, CallMap>>
<1>1. CASE ~Live(i)
  <2>1. \A j \in issued :
           ~Expired(expiry[j]) => (j \in present' <=> j \in present)
    BY <1>1 DEF Delete, Live
  <2>2. \A u \in Threads : CallOf(get[u])' = CallOf(get[u])
    BY <2>1, OtherCalls DEF Delete
  <2> QED BY <2>1, <2>2, SameStatus DEF Delete, CallMap
<1>2. CASE Live(i)
  <2>1. StatusOf(i) = "live" /\ StatusOf(i)' = "dead"
    BY <1>2 DEF Delete, StatusOf, Live
  <2>2. \A j \in Ids \ {i} : StatusOf(j)' = StatusOf(j)
    BY DEF Delete, StatusOf, Live, Expired
  <2>3. ASSUME NEW u \in Threads
        PROVE  CallOf(get[u])' =
                  IF CallOf(get[u]).phase = "asked" /\ CallOf(get[u]).id = i
                  THEN MayMiss(CallOf(get[u]))
                  ELSE CallOf(get[u])
    <3>1. PICK g : g = get[u] /\ g = get'[u]
      BY DEF Delete
    <3>2. /\ CallOf(get[u]) = CallAt(g, now, present)
          /\ CallOf(get[u])' = CallAt(g, now, present')
      BY <3>1, CallIsAt DEF Delete
    <3>3. CASE g.pc \in {"idle", "hit", "miss"}
      <4>1. CallAt(g, now, present) = Over(g.pc, g.id)
        BY <3>3, CallOver
      <4>2. CallAt(g, now, present') = Over(g.pc, g.id)
        BY <3>3, CallOver
      <4>3. CallAt(g, now, present).phase # "asked"
        BY <3>3, <4>1 DEF Over
      <4> QED BY <3>2, <4>1, <4>2, <4>3
    <3>4. CASE g.pc \notin {"idle", "hit", "miss"}
      <4>1. PICK h \in BOOLEAN : h <=> g.found /\ ~(g.exp < now)
        OBVIOUS
      <4>2. PICK m \in BOOLEAN : m <=> (h => g.id \notin present)
        OBVIOUS
      <4>3. CallAt(g, now, present) = Lookup(g.id, h, m)
        BY <3>4, <4>1, <4>2, CallAsked
      <4>4. CASE g.id = i
        <5>1. TRUE <=> (h => g.id \notin present')
          BY <4>4 DEF Delete
        <5>2. CallAt(g, now, present') = Lookup(g.id, h, TRUE)
          BY <3>4, <4>1, <5>1, CallAsked
        <5>3. CallOf(get[u]) = Lookup(g.id, h, m)
              /\ CallOf(get[u])' = Lookup(g.id, h, TRUE)
          BY <3>2, <4>3, <5>2
        <5>4. /\ Lookup(g.id, h, m).phase = "asked"
              /\ Lookup(g.id, h, m).id = g.id
              /\ MayMiss(Lookup(g.id, h, m)) = Lookup(g.id, h, TRUE)
          BY LookupEnds
        <5> QED BY <4>4, <5>3, <5>4
      <4>5. CASE g.id # i
        <5>1. m <=> (h => g.id \notin present')
          BY <4>2, <4>5 DEF Delete
        <5>2. CallAt(g, now, present') = Lookup(g.id, h, m)
          BY <3>4, <4>1, <5>1, CallAsked
        <5>3. CallOf(get[u]) = Lookup(g.id, h, m)
              /\ CallOf(get[u])' = Lookup(g.id, h, m)
          BY <3>2, <4>3, <5>2
        <5>4. Lookup(g.id, h, m).id = g.id
          BY LookupEnds
        <5> QED BY <4>5, <5>3, <5>4
      <4> QED BY <4>4, <4>5
    <3> QED BY <3>3, <3>4
  <2> QED BY <2>1, <2>2, <2>3 DEF Abstract!Revoke, MayMiss
<1> QED BY <1>1, <1>2
LEMMA GetReadAsks ==
  ASSUME IInv, NEW t \in Threads, NEW i \in Ids, GetRead(t, i)
  PROVE  Abstract!Ask(t, i)
<1> DEFINE g == [pc |-> "check", id |-> i, found |-> i \in present,
                 exp |-> expiry[i]]
<1>1. get[t].pc = "idle" /\ i \in issued /\ get' = [get EXCEPT ![t] = g]
      /\ UNCHANGED <<now, present, expiry, issued>>
  BY DEF GetRead
<1>2. PICK h \in BOOLEAN : h <=> Live(i)
  OBVIOUS
<1>3. PICK m \in BOOLEAN : m <=> ~Live(i)
  OBVIOUS
<1>4. h <=> g.found /\ ~(g.exp < now)
  BY <1>2 DEF Live, Expired
<1>5. m <=> (h => g.id \notin present)
  BY <1>2, <1>3 DEF Live
<1>6. g.id = i /\ g.pc \notin {"idle", "hit", "miss"}
  OBVIOUS
<1> HIDE DEF g
<1>7. CallAt(g, now, present') = Lookup(i, h, m)
  BY <1>1, <1>4, <1>5, <1>6, CallAsked
<1>8. CallMap' = [CallMap EXCEPT ![t] = Lookup(i, h, m)] /\ UNCHANGED StatusMap
  BY <1>1, <1>7, OneCall
<1>9. StatusOf(i) # "unused" /\ (StatusOf(i) = "live") = h
                             /\ (StatusOf(i) # "live") = m
  BY <1>1, <1>2, <1>3 DEF StatusOf
<1>10. CallOf(get[t]).phase = "idle"
  <2>1. CallAt(get[t], now, present) = Over("idle", get[t].id)
    BY <1>1, CallOver
  <2> QED BY <2>1, CallIsAt DEF Over
<1> QED BY <1>8, <1>9, <1>10 DEF Abstract!Ask, Lookup, CallMap, StatusMap

(* A thread whose lookup answers.                                          *)
LEMMA Answers ==
  ASSUME IInv, NEW t \in Threads, NEW pc \in {"hit", "miss"},
         get[t].pc \in {"check", "delete", "recheck"},
         get' = [get EXCEPT ![t].pc = pc],
         UNCHANGED <<now, expiry, issued>>,
         \A i \in issued : ~Expired(expiry[i]) => (i \in present' <=> i \in present),
         pc = "hit" => get[t].found /\ ~Expired(get[t].exp),
         pc = "miss" => ~get[t].found \/ Expired(get[t].exp)
  PROVE  Abstract!Answer(t)
<1>1. PICK g : g.pc = pc /\ g.id = get[t].id /\ get' = [get EXCEPT ![t] = g]
  <2> DEFINE x == [get[t] EXCEPT !.pc = pc]
  <2>1. x.pc = pc /\ x.id = get[t].id /\ get' = [get EXCEPT ![t] = x]
    BY DEF IInv, TypeOK, GetRec
  <2> HIDE DEF x
  <2> QED BY <2>1
<1>2. CallAt(g, now, present') = Over(pc, g.id)
  BY <1>1, CallOver
<1>3. CallMap' = [CallMap EXCEPT ![t] = Over(pc, g.id)]
      /\ UNCHANGED StatusMap
  <2>1. PICK c : c = Over(pc, g.id)
    OBVIOUS
  <2>2. CallAt(g, now, present') = c
    BY <1>2, <2>1
  <2>3. CallMap' = [CallMap EXCEPT ![t] = c] /\ UNCHANGED StatusMap
    BY <1>1, <2>2, OneCall
  <2> QED BY <2>1, <2>3
<1>4. PICK h \in BOOLEAN : h <=> get[t].found /\ ~(get[t].exp < now)
  OBVIOUS
<1>5. PICK m \in BOOLEAN : m <=> (h => get[t].id \notin present)
  OBVIOUS
<1>6. CallAt(get[t], now, present) = Lookup(get[t].id, h, m)
  BY <1>4, <1>5, CallAsked
<1>7. CallMap[t] = Lookup(get[t].id, h, m)
  BY <1>6, CallIsAt DEF CallMap
<1>8. /\ CallMap[t].phase = "asked" /\ CallMap[t].id = get[t].id
      /\ CallMap[t].mayHit = h /\ CallMap[t].mayMiss = m
  BY <1>7 DEF Lookup
<1>9. (pc = "hit" /\ h) \/ (pc = "miss" /\ m)
  BY <1>4, <1>5 DEF Expired
<1>10. CallMap' = [CallMap EXCEPT ![t] = Answered(pc, CallMap[t].id)]
  BY <1>1, <1>3, <1>8, AnsweredIsOver
<1> QED
  BY <1>3, <1>8, <1>9, <1>10 DEF Abstract!Answer, Answered, CallMap, StatusMap

LEMMA GetCheckAnswers ==
  ASSUME IInv, NEW t \in Threads, GetCheck(t)
  PROVE  Abstract!Answer(t) \/ UNCHANGED <<StatusMap, CallMap>>
<1>1. get[t].pc = "check" /\ UNCHANGED <<now, present, expiry, issued>>
  BY DEF GetCheck
<1>2. CASE ~get[t].found
  <2>1. get' = [get EXCEPT ![t].pc = "miss"]
    BY <1>2 DEF GetCheck
  <2> QED BY <1>1, <1>2, <2>1, Answers
<1>3. CASE get[t].found
  <2>1. PICK pc \in {"delete", "recheck"} : get' = [get EXCEPT ![t].pc = pc]
    BY <1>3 DEF GetCheck
  <2>2. PICK g : /\ g.pc = pc /\ g.id = get[t].id /\ g.found = get[t].found
                 /\ g.exp = get[t].exp /\ get' = [get EXCEPT ![t] = g]
    <3> DEFINE x == [get[t] EXCEPT !.pc = pc]
    <3>1. /\ x.pc = pc /\ x.id = get[t].id /\ x.found = get[t].found
          /\ x.exp = get[t].exp /\ get' = [get EXCEPT ![t] = x]
      BY <2>1 DEF IInv, TypeOK, GetRec
    <3> HIDE DEF x
    <3> QED BY <3>1
  <2>3. PICK h \in BOOLEAN : h <=> get[t].found /\ ~(get[t].exp < now)
    OBVIOUS
  <2>4. PICK m \in BOOLEAN : m <=> (h => get[t].id \notin present)
    OBVIOUS
  <2>5. CallAt(get[t], now, present) = Lookup(get[t].id, h, m)
    BY <1>1, <2>3, <2>4, CallAsked
  <2>6. (h <=> g.found /\ ~(g.exp < now)) /\ (m <=> (h => g.id \notin present'))
    BY <1>1, <2>2, <2>3, <2>4
  <2>7. CallAt(g, now, present') = Lookup(g.id, h, m)
    BY <2>2, <2>6, CallAsked
  <2>8. /\ CallMap' = [CallMap EXCEPT ![t] = Lookup(g.id, h, m)]
        /\ UNCHANGED StatusMap
    <3>1. PICK c : c = Lookup(g.id, h, m)
      OBVIOUS
    <3>2. CallAt(g, now, present') = c
      BY <2>7, <3>1
    <3>3. CallMap' = [CallMap EXCEPT ![t] = c] /\ UNCHANGED StatusMap
      BY <1>1, <2>2, <3>2, OneCall
    <3> QED BY <3>1, <3>3
  <2>9. CallMap[t] = Lookup(g.id, h, m)
    BY <2>2, <2>5, CallIsAt DEF CallMap
  <2> QED BY <2>8, <2>9 DEF CallMap
<1> QED BY <1>2, <1>3

LEMMA GetDeleteAnswers ==
  ASSUME IInv, NEW t \in Threads, GetDelete(t)
  PROVE  Abstract!Answer(t)
<1>1. /\ get[t].pc = "delete" /\ get' = [get EXCEPT ![t].pc = "miss"]
      /\ present' = present \ {get[t].id} /\ UNCHANGED <<now, expiry, issued>>
  BY DEF GetDelete
<1>2. Expired(get[t].exp) /\ get[t].exp = expiry[get[t].id]
  BY <1>1 DEF IInv, CopiesFaithful, Idle
<1>3. \A i \in issued : ~Expired(expiry[i]) => (i \in present' <=> i \in present)
  BY <1>1, <1>2
<1> QED BY <1>1, <1>2, <1>3, Answers

LEMMA ReadRecheckAnswers ==
  ASSUME IInv, NEW t \in Threads, ReadRecheck(t)
  PROVE  Abstract!Answer(t)
<1> DEFINE pc == IF Expired(get[t].exp) THEN "miss" ELSE "hit"
<1>1. /\ get[t].pc = "recheck" /\ get' = [get EXCEPT ![t].pc = pc]
      /\ UNCHANGED <<now, present, expiry, issued>>
  BY DEF ReadRecheck
<1>2. get[t].found
  BY <1>1 DEF IInv, CopiesFaithful, Idle
<1> QED BY <1>1, <1>2, Answers

LEMMA RespondIsDone ==
  ASSUME IInv, NEW t \in Threads, Respond(t)
  PROVE  Abstract!Done(t)
<1>1. /\ get[t].pc \in {"hit", "miss"} /\ get' = [get EXCEPT ![t] = Idle]
      /\ UNCHANGED <<now, present, expiry, issued>>
  BY DEF Respond
<1>2. CallAt(Idle, now, present') = Over("idle", NoId)
  BY IdleOver
<1>3. CallMap' = [CallMap EXCEPT ![t] = Over("idle", NoId)] /\ UNCHANGED StatusMap
  BY <1>1, <1>2, OneCall
<1>4. CallAt(get[t], now, present) = Over(get[t].pc, get[t].id)
  BY <1>1, CallOver
<1>5. CallOf(get[t]).phase \in {"hit", "miss"}
  BY <1>1, <1>4, CallIsAt DEF Over
<1> QED
  BY <1>3, <1>5 DEF Abstract!Done, Abstract!NoCall, Over, CallMap, StatusMap
(* Time passes: the sessions whose expiry the clock passes end at once.    *)
LEMMA TickExpires ==
  ASSUME IInv, Tick
  PROVE  \E S \in SUBSET Ids : Abstract!Expire(S)
<1> DEFINE S == {i \in issued : expiry[i] = now}
<1>1. now' = now + 1 /\ now \in Nat /\ S \subseteq Ids
      /\ UNCHANGED <<present, expiry, issued, get>>
  BY DEF Tick, IInv, TypeOK
<1>2. \A i \in S : StatusOf(i) # "unused"
  BY DEF StatusOf
<1>3. \A i \in Ids : StatusOf(i)' = IF i \in S THEN "dead" ELSE StatusOf(i)
  <2>1. ASSUME NEW i \in Ids PROVE expiry[i] \in Nat
    BY DEF IInv, TypeOK
  <2> QED BY <1>1, <2>1 DEF StatusOf, Live, Expired
<1>4. ASSUME NEW u \in Threads
      PROVE  CallOf(get[u])' =
                IF CallOf(get[u]).phase = "asked" /\ CallOf(get[u]).id \in S
                THEN MustMiss(CallOf(get[u]))
                ELSE CallOf(get[u])
  <2>1. PICK g : g = get[u] /\ g = get'[u]
    BY <1>1
  <2>2. /\ CallOf(get[u]) = CallAt(g, now, present)
        /\ CallOf(get[u])' = CallAt(g, now', present)
    BY <1>1, <2>1, CallIsAt
  <2>3. g # Idle => g.exp = expiry[g.id] /\ g.id \in issued /\ g.exp \in Nat
    BY <2>1 DEF IInv, TypeOK, CopiesFaithful, GetRec
  <2>4. CASE g.pc \in {"idle", "hit", "miss"}
    <3>1. CallAt(g, now, present) = Over(g.pc, g.id)
      BY <2>4, CallOver
    <3>2. CallAt(g, now', present) = Over(g.pc, g.id)
      BY <2>4, CallOver
    <3>3. CallAt(g, now, present).phase # "asked"
      BY <2>4, <3>1 DEF Over
    <3> QED BY <2>2, <3>1, <3>2, <3>3
  <2>5. CASE g.pc \notin {"idle", "hit", "miss"}
    <3>1. PICK h \in BOOLEAN : h <=> g.found /\ ~(g.exp < now)
      OBVIOUS
    <3>2. PICK m \in BOOLEAN : m <=> (h => g.id \notin present)
      OBVIOUS
    <3>3. CallAt(g, now, present) = Lookup(g.id, h, m)
      BY <2>5, <3>1, <3>2, CallAsked
    <3>4. g # Idle
      BY <2>5 DEF Idle
    <3>5. /\ Lookup(g.id, h, m).phase = "asked"
          /\ Lookup(g.id, h, m).id = g.id
          /\ MustMiss(Lookup(g.id, h, m)) = Lookup(g.id, FALSE, TRUE)
      BY LookupEnds
    <3>6. CASE g.id \in S
      <4>1. g.exp < now'
        BY <1>1, <2>3, <3>4, <3>6
      <4>2. (FALSE <=> g.found /\ ~(g.exp < now'))
            /\ (TRUE <=> (FALSE => g.id \notin present))
        BY <4>1
      <4>3. CallAt(g, now', present) = Lookup(g.id, FALSE, TRUE)
        BY <2>5, <4>2, CallAsked
      <4> QED BY <2>2, <3>3, <3>5, <3>6, <4>3
    <3>7. CASE g.id \notin S
      <4>1. g.exp < now' <=> g.exp < now
        BY <1>1, <2>3, <3>4, <3>7
      <4>2. h <=> g.found /\ ~(g.exp < now')
        BY <3>1, <4>1
      <4>3. CallAt(g, now', present) = Lookup(g.id, h, m)
        BY <2>5, <3>2, <4>2, CallAsked
      <4> QED BY <2>2, <3>3, <3>5, <3>7, <4>3
    <3> QED BY <3>6, <3>7
  <2> QED BY <2>4, <2>5
<1> HIDE DEF S
<1>5. Abstract!Expire(S)
  <2>1. CallMap' = [t \in Threads |->
                      IF CallMap[t].phase = "asked" /\ CallMap[t].id \in S
                      THEN MustMiss(CallMap[t]) ELSE CallMap[t]]
    BY <1>4 DEF CallMap
  <2>2. StatusMap' = [i \in Ids |-> IF i \in S THEN "dead" ELSE StatusMap[i]]
    BY <1>3 DEF StatusMap
  <2>3. \A i \in S : StatusMap[i] # "unused"
    BY <1>1, <1>2 DEF StatusMap
  <2> QED
    BY <2>1, <2>2, <2>3, Zenon
    DEF Abstract!Expire, MustMiss, CallMap, StatusMap
<1> QED BY <1>1, <1>5

(* The sweeper only takes what has expired: nobody sees it.                *)
LEMMA SweepUnseen ==
  ASSUME IInv, SweepTick \/ Sweep
  PROVE  UNCHANGED <<StatusMap, CallMap>>
<1>1. UNCHANGED <<now, expiry, issued, get>>
  BY DEF SweepTick, Sweep
<1>2. \A i \in issued : ~Expired(expiry[i]) => (i \in present' <=> i \in present)
  BY DEF SweepTick, Sweep, IInv, TypeOK, SweeperRec, CopiesFaithful, Expired
<1>3. \A u \in Threads : CallOf(get[u])' = CallOf(get[u])
  BY <1>1, <1>2, OtherCalls
<1> QED BY <1>1, <1>2, <1>3, SameStatus DEF CallMap

LEMMA RestartResets ==
  ASSUME IInv, Restart
  PROVE  Abstract!Reset
<1>1. /\ present' = {} /\ UNCHANGED <<now, expiry, issued>>
      /\ get' = [t \in Threads |-> Idle]
  BY DEF Restart
<1>2. \A i \in Ids : StatusOf(i)' = IF StatusOf(i) = "live" THEN "dead"
                                                            ELSE StatusOf(i)
  BY <1>1 DEF StatusOf, Live
<1>3. \A t \in Threads : CallOf(get[t])' = Abstract!NoCall
  <2>1. \A t \in Threads : get'[t] = Idle
    BY <1>1
  <2> QED BY <2>1, CallIsAt, IdleOver DEF Abstract!NoCall, Over
<1> QED BY <1>2, <1>3 DEF Abstract!Reset

LEMMA StepRefines ==
  IInv /\ [Next]_vars => [Abstract!SpecNext]_(Abstract!specVars)
<1> SUFFICES ASSUME IInv, [Next]_vars
             PROVE  Abstract!SpecNext \/ UNCHANGED <<StatusMap, CallMap>>
  BY DEF Abstract!specVars, StatusMap, CallMap
<1>1. CASE Tick
  BY <1>1, TickExpires DEF Abstract!SpecNext
<1>2. ASSUME NEW i \in Ids, Create(i) PROVE Abstract!SpecNext
  BY <1>2, CreateIssues DEF Abstract!SpecNext
<1>3. ASSUME NEW i \in Ids, Delete(i)
      PROVE  Abstract!SpecNext \/ UNCHANGED <<StatusMap, CallMap>>
  BY <1>3, DeleteRevokes DEF Abstract!SpecNext
<1>4. ASSUME NEW t \in Threads, NEW i \in Ids, GetRead(t, i)
      PROVE  Abstract!SpecNext
  BY <1>4, GetReadAsks DEF Abstract!SpecNext
<1>5. ASSUME NEW t \in Threads, GetCheck(t)
      PROVE  Abstract!SpecNext \/ UNCHANGED <<StatusMap, CallMap>>
  BY <1>5, GetCheckAnswers DEF Abstract!SpecNext
<1>6. ASSUME NEW t \in Threads, GetDelete(t) \/ ReadRecheck(t) \/ Respond(t)
      PROVE  Abstract!SpecNext
  BY <1>6, GetDeleteAnswers, ReadRecheckAnswers, RespondIsDone
  DEF Abstract!SpecNext
<1>7. CASE SweepTick \/ Sweep
  BY <1>7, SweepUnseen
<1>8. CASE Restart
  BY <1>8, RestartResets DEF Abstract!SpecNext
<1>9. CASE UNCHANGED vars
  <2>1. \A i \in issued : i \in present' <=> i \in present
    BY <1>9 DEF vars
  <2>2. \A u \in Threads : CallOf(get[u])' = CallOf(get[u])
    BY <1>9, <2>1, OtherCalls DEF vars
  <2> QED BY <1>9, <2>1, <2>2, SameStatus DEF CallMap, vars
<1> QED
  BY <1>1, <1>2, <1>3, <1>4, <1>5, <1>6, <1>7, <1>8, <1>9 DEF Next

(* The locked map with its callers and its sweeper implements the abstract *)
(* store of one instant per operation: a lookup answers what was true at   *)
(* one moment of it, for any number of threads and sessions.               *)
THEOREM StoreRefines == Spec => Refines
BY InitRefines, StepRefines, InvHolds, PTL
DEF Spec, Refines, Abstract!AbstractSpec
=============================================================================
