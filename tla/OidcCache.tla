----------------------------- MODULE OidcCache -----------------------------
(***************************************************************************)
(* The discovery documents of the OIDC providers.  When the server starts, *)
(* one goroutine for every configured provider asks for its document,      *)
(* through a transport that answers from a file, one for every host, and   *)
(* writes the file when there is none; the first that fails ends the       *)
(* server.  Once it runs, another goroutine replaces the files, one host   *)
(* after the other, whatever is configured and whatever was answered.      *)
(* A file is cut to nothing before it is written.                          *)
(*                                                                         *)
(* GitHub has no such document and is not modelled.                        *)
(***************************************************************************)
EXTENDS Integers, Sequences

CONSTANTS RefreshOrder,  \* the hosts, in the order they are refreshed
          Issuers,       \* issuers; those of one host share its file
          Confs,         \* the settings a server is started with
          Refresher,     \* the goroutine that refreshes
          None,          \* no file, no document
          Page,          \* anything a host answers that is no document
          Cut,           \* a file that holds less than was to be written
          MaxVersion     \* bound on the documents of an issuer

Hosts == {RefreshOrder[i] : i \in DOMAIN RefreshOrder}
Conf == [enabled : SUBSET Hosts, issuer : [Hosts -> Issuers]]
Documents == [issuer : Issuers, version : 1..MaxVersion]
Contents == Documents \cup {Page, Cut}

ASSUME OidcAssumption == /\ RefreshOrder \in Seq(Hosts) /\ RefreshOrder # <<>>
                         /\ Refresher \notin Hosts
                         /\ Confs \subseteq Conf
                         /\ MaxVersion \in Nat \ {0}
                         /\ {None, Page, Cut} \cap Documents = {}
                         /\ None \notin {Page, Cut}

VARIABLES published,  \* the version an issuer serves now
          file,       \* the cache directory
          proc,       \* the server
          conf,       \* its settings
          task,       \* its goroutines
          turn,       \* the place of the refresher in its round
          providers,  \* what SetupProviders returns
          warm        \* history: every file needed was there at the start

vars == <<published, file, proc, conf, task, turn, providers, warm>>

Tasks == Hosts \cup {Refresher}
Task == [pc : {"off", "look", "ask", "open", "write", "check", "ok", "failed", "wait",
              "hung"},
         got : Contents \cup {None}]
At(pc) == [pc |-> pc, got |-> None]

OidcTypeOK == /\ published \in [Issuers -> 1..MaxVersion]
              /\ file \in [Hosts -> Contents \cup {None}]
              /\ proc \in {"down", "starting", "up"}
              /\ conf \in Conf
              /\ task \in [Tasks -> Task]
              /\ turn \in DOMAIN RefreshOrder
              /\ providers \in [Hosts -> Contents \cup {None}]
              /\ warm \in BOOLEAN

Init == /\ published = [i \in Issuers |-> 1]
        /\ file = [h \in Hosts |-> None]
        /\ proc = "down"
        /\ conf \in Confs
        /\ task = [t \in Tasks |-> At("off")]
        /\ turn = 1
        /\ providers = [h \in Hosts |-> None]
        /\ warm = FALSE

-----------------------------------------------------------------------------
HostOf(t) == IF t = Refresher THEN RefreshOrder[turn] ELSE t

(* What the URL of a goroutine names now.                                  *)
Current(t) == LET i == conf.issuer[HostOf(t)]
              IN [issuer |-> i, version |-> published[i]]

Genuine(c, i) == c \in Documents /\ c.issuer = i /\ c.version <= published[i]

(* An issuer replaces its document.                                        *)
Publish(i) == /\ published[i] < MaxVersion
              /\ published' = [published EXCEPT ![i] = @ + 1]
              /\ UNCHANGED <<file, proc, conf, task, turn, providers, warm>>

(* Mutant: the refresher begins before the providers are set up.           *)
BeginWithRefresher(c) ==
    /\ proc = "down"
    /\ proc' = "starting"
    /\ conf' = c
    /\ task' = [t \in Tasks |-> IF t \in c.enabled THEN At("look")
                                ELSE IF t = Refresher THEN At("wait") ELSE At("off")]
    /\ warm' = \A h \in c.enabled : Genuine(file[h], c.issuer[h])
    /\ UNCHANGED <<published, file, turn, providers>>

(* SetupProviders, as far as its goroutines.                               *)
Begin(c) ==
    /\ proc = "down"
    /\ proc' = "starting"
    /\ conf' = c
    /\ task' = [t \in Tasks |-> At(IF t \in c.enabled THEN "look" ELSE "off")]
    /\ warm' = \A h \in c.enabled : Genuine(file[h], c.issuer[h])
    /\ UNCHANGED <<published, file, turn, providers>>

(* The process is gone, whatever its goroutines were doing; files stay.    *)
Dies == /\ proc' = "down"
        /\ task' = [t \in Tasks |-> At("off")]
        /\ turn' = 1
        /\ providers' = [h \in Hosts |-> None]
        /\ warm' = FALSE
        /\ UNCHANGED <<published, file, conf>>

Crash == proc # "down" /\ Dies

-----------------------------------------------------------------------------
Goes(t, from, to) == task[t].pc = from /\ task' = [task EXCEPT ![t] = to]

OnlyTasks == UNCHANGED <<published, file, proc, conf, turn, providers, warm>>

(* RoundTrip: a file is served as it is, whatever it holds.                *)
Look(h) == /\ Goes(h, "look", IF file[h] = None THEN At("ask")
                              ELSE [pc |-> "check", got |-> file[h]])
           /\ OnlyTasks

(* fetchAndCache: the status of the answer is not looked at.               *)
Answered(t) == Goes(t, "ask", [pc |-> "open", got |-> Current(t)]) /\ OnlyTasks
AnsweredOtherwise(t) == Goes(t, "ask", [pc |-> "open", got |-> Page]) /\ OnlyTasks

(* Mutant: the round does not end with the last host.                      *)
ReturnsPastTheLast(t, from, pc) ==
    IF t # Refresher
    THEN Goes(t, from, [task[t] EXCEPT !.pc = pc]) /\ UNCHANGED turn
    ELSE Goes(t, from, At("ask")) /\ turn' = turn + 1

(* What follows fetchAndCache: the answer is examined, or the refresher    *)
(* goes on to the next host and, after the last, waits for its ticker.     *)
Returns(t, from, pc) ==
    IF t # Refresher
    THEN Goes(t, from, [task[t] EXCEPT !.pc = pc]) /\ UNCHANGED turn
    ELSE IF turn < Len(RefreshOrder)
         THEN Goes(t, from, At("ask")) /\ turn' = turn + 1
         ELSE Goes(t, from, At("wait")) /\ turn' = 1

(* Mutant: the goroutines of the start wait for an answer forever.         *)
NoAnswerIfRefreshing(t) ==
    /\ t = Refresher
    /\ Returns(t, "ask", "failed")
    /\ UNCHANGED <<published, file, proc, conf, providers, warm>>

(* The request fails or, at the start, outlasts the fifteen seconds.       *)
NoAnswer(t) == /\ Returns(t, "ask", "failed")
               /\ UNCHANGED <<published, file, proc, conf, providers, warm>>

(* A request of the refresher, which has no deadline, stays without an     *)
(* answer for ever, and so does the goroutine.                             *)
Hangs == Goes(Refresher, "ask", At("hung")) /\ OnlyTasks

(* os.WriteFile, which first empties the file; either half may fail, which *)
(* is logged.                                                              *)
OpenFile(t) == /\ Goes(t, "open", [task[t] EXCEPT !.pc = "write"])
               /\ file' = [file EXCEPT ![HostOf(t)] = Cut]
               /\ UNCHANGED <<published, proc, conf, turn, providers, warm>>

WriteFile(t) == /\ Returns(t, "write", "check")
                /\ file' = [file EXCEPT ![HostOf(t)] = task[t].got]
                /\ UNCHANGED <<published, proc, conf, providers, warm>>

FileFails(t) == /\ \E from \in {"open", "write"} : Returns(t, from, "check")
                /\ UNCHANGED <<published, file, proc, conf, providers, warm>>

(* oidc.NewProvider refuses what is no document of its issuer.             *)
NewProvider(h) ==
    /\ Goes(h, "check", IF task[h].got \in Documents /\ task[h].got.issuer = conf.issuer[h]
                        THEN [task[h] EXCEPT !.pc = "ok"] ELSE At("failed"))
    /\ OnlyTasks

-----------------------------------------------------------------------------
(* The results are collected.  Which of two comes first makes no           *)
(* difference: nothing happens before the last, and one error is enough.   *)
Collect(h) == /\ Goes(h, "ok", At("off"))
              /\ providers' = [providers EXCEPT ![h] = task[h].got]
              /\ UNCHANGED <<published, file, proc, conf, turn, warm>>

(* Mutant: the error is not the end of the server.                         *)
CollectErrorGoesOn(h) == Goes(h, "failed", At("off")) /\ OnlyTasks

CollectError(h) == task[h].pc = "failed" /\ Dies

(* SetupProviders returns, and has started the refresher.                  *)
Serve == /\ proc = "starting"
         /\ \A h \in conf.enabled : task[h].pc = "off"
         /\ proc' = "up"
         /\ task' = [task EXCEPT ![Refresher] = At("wait")]
         /\ UNCHANGED <<published, file, conf, turn, providers, warm>>

(* Mutant: the refresher asks through the cache, which has the file.       *)
TickThroughCache == /\ Goes(Refresher, "wait", At("wait"))
                    /\ \A h \in Hosts : file[h] # None
                    /\ OnlyTasks

(* ForceRefresh of the first host.  No deadline is set.                    *)
Tick == Goes(Refresher, "wait", At("ask")) /\ OnlyTasks

Files(t) == OpenFile(t) \/ WriteFile(t) \/ FileFails(t)

Fetch(t) == \/ Answered(t) \/ AnsweredOtherwise(t) \/ NoAnswer(t)
            \/ Files(t)

Starts(h) == \/ Look(h) \/ Fetch(h) \/ NewProvider(h)
             \/ Collect(h) \/ CollectError(h)

Next == \/ \E i \in Issuers : Publish(i)
        \/ \E c \in Confs : Begin(c)
        \/ \E h \in Hosts : Starts(h)
        \/ Serve
        \/ Tick
        \/ Fetch(Refresher)
        \/ Hangs
        \/ Crash

Spec == Init /\ [][Next]_vars

-----------------------------------------------------------------------------
(* The goroutines of a start are scheduled, and requests end, because the  *)
(* context has a deadline.                                                 *)
StartFairness == /\ \A h \in Hosts : WF_vars(\/ Look(h) \/ NewProvider(h)
                                             \/ Collect(h) \/ CollectError(h)
                                             \/ NoAnswer(h) \/ Files(h))
                 /\ WF_vars(Serve)

Kept(n) == turn = n /\ task[Refresher].got \in Documents

(* The refresher is scheduled and its ticker keeps firing.  About the      *)
(* world: of the requests to a host that end, if there are infinitely many,*)
(* infinitely many bring the document, and of these infinitely many are    *)
(* written.  That a request ends is not assumed: it may hang.              *)
RefreshFairness == /\ WF_vars(Tick)
                   /\ WF_vars(Files(Refresher))
                   /\ \A n \in DOMAIN RefreshOrder :
                        /\ SF_vars(turn = n /\ Answered(Refresher))
                        /\ SF_vars(Kept(n) /\ OpenFile(Refresher))
                        /\ SF_vars(Kept(n) /\ WriteFile(Refresher))

FairSpec == Spec /\ StartFairness /\ RefreshFairness

-----------------------------------------------------------------------------
(* A server that runs has, for every provider that is configured, a        *)
(* document which that issuer has published: not what another tenant left  *)
(* in the file, no error page and no file that was cut off.                *)
UpIsGenuine ==
    proc = "up" =>
        \A h \in conf.enabled : Genuine(providers[h], conf.issuer[h])

(* A server that finds the files it needs starts: nothing it does itself   *)
(* spoils them before they are read, and nobody has to be reached.         *)
CachedStartsSucceed ==
    proc = "starting" /\ warm => \A h \in Hosts : task[h].pc \notin {"ask", "failed"}

(* Every start ends, with a server or with a panic.                        *)
StartsEnd == proc = "starting" ~> proc # "starting"

(* Whatever an outage or a crash has left in the files, a server that      *)
(* keeps running replaces it with the document of the moment, again and    *)
(* again, and that for all hosts alike: a host that only fails, or a file  *)
(* that cannot be written for a while, stops no other.  One thing does: a  *)
(* request that hangs, since ForceRefresh sets no deadline, is the last of *)
(* the refresher, for every host.                                          *)
RefreshCatchesUp ==
    <>[](proc = "up") =>
        \/ <>[](task[Refresher].pc = "hung")
        \/ \A h \in Hosts : []<>(file[h] = Current(h))
=============================================================================
