---------------------------- MODULE SessionSpec ----------------------------
(***************************************************************************)
(* What the session store promises to the rest of the server, as one      *)
(* instant per operation.  A login issues a fresh id; a session then lives *)
(* until it expires or is revoked (logout, restart) and never comes back.  *)
(* A lookup takes time.  It may answer "hit" if the session was live when  *)
(* the lookup started and has not expired since, and "miss" if the session *)
(* was not live at some moment of the lookup.  So a logout that runs       *)
(* during a lookup allows both answers, and an expired session is never    *)
(* served.                                                                 *)
(***************************************************************************)
CONSTANTS Ids,       \* opaque session ids
          Threads,   \* request goroutines that look a session up
          NoId       \* "looks nothing up"

VARIABLES status,    \* the life of every id
          call       \* the lookup every thread has in progress

specVars == <<status, call>>

Status == {"unused", "live", "dead"}

Call == [phase : {"idle", "asked", "hit", "miss"}, id : Ids \cup {NoId},
         mayHit : BOOLEAN, mayMiss : BOOLEAN]

NoCall == [phase |-> "idle", id |-> NoId, mayHit |-> FALSE, mayMiss |-> FALSE]

SpecInit == /\ status = [i \in Ids |-> "unused"]
            /\ call = [t \in Threads |-> NoCall]

-----------------------------------------------------------------------------
Issue(i) == /\ status[i] = "unused"
            /\ status' = [status EXCEPT ![i] = "live"]
            /\ UNCHANGED call

(* The clock passes the expiry of a set of sessions, some of them perhaps  *)
(* revoked before: a lookup in progress can no longer be answered with any *)
(* of them.                                                                *)
Expire(S) ==
    /\ \A i \in S : status[i] # "unused"
    /\ status' = [i \in Ids |-> IF i \in S THEN "dead" ELSE status[i]]
    /\ call' = [t \in Threads |->
                  IF call[t].phase = "asked" /\ call[t].id \in S
                  THEN [call[t] EXCEPT !.mayHit = FALSE, !.mayMiss = TRUE]
                  ELSE call[t]]

(* A logout: lookups in progress may still answer with the session.        *)
Revoke(i) ==
    /\ status[i] = "live"
    /\ status' = [status EXCEPT ![i] = "dead"]
    /\ call' = [t \in Threads |->
                  IF call[t].phase = "asked" /\ call[t].id = i
                  THEN [call[t] EXCEPT !.mayMiss = TRUE]
                  ELSE call[t]]

(* A restart forgets every session and every request in progress.          *)
Reset == /\ status' = [i \in Ids |-> IF status[i] = "live" THEN "dead"
                                                          ELSE status[i]]
         /\ call' = [t \in Threads |-> NoCall]

Ask(t, i) ==
    /\ call[t].phase = "idle"
    /\ status[i] # "unused"
    /\ call' = [call EXCEPT ![t] = [phase |-> "asked", id |-> i,
                                    mayHit |-> status[i] = "live",
                                    mayMiss |-> status[i] # "live"]]
    /\ UNCHANGED status

Answer(t) ==
    /\ call[t].phase = "asked"
    /\ \/ /\ call[t].mayHit
          /\ call' = [call EXCEPT ![t] = [NoCall EXCEPT !.phase = "hit",
                                                        !.id = call[t].id]]
       \/ /\ call[t].mayMiss
          /\ call' = [call EXCEPT ![t] = [NoCall EXCEPT !.phase = "miss",
                                                        !.id = call[t].id]]
    /\ UNCHANGED status

Done(t) == /\ call[t].phase \in {"hit", "miss"}
           /\ call' = [call EXCEPT ![t] = NoCall]
           /\ UNCHANGED status

SpecNext ==
    \/ \E i \in Ids : Issue(i) \/ Revoke(i)
    \/ \E S \in SUBSET Ids : Expire(S)
    \/ Reset
    \/ \E t \in Threads : \/ \E i \in Ids : Ask(t, i)
                          \/ Answer(t)
                          \/ Done(t)

AbstractSpec == SpecInit /\ [][SpecNext]_specVars
=============================================================================
