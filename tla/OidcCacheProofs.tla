-------------------------- MODULE OidcCacheProofs ---------------------------
(***************************************************************************)
(* Theorems about OidcCache, for any hosts, issuers and settings and any   *)
(* number of documents, whatever the hosts answer and wherever the server  *)
(* dies.                                                                   *)
(***************************************************************************)
EXTENDS OidcCache, TLAPS

(* A document was published, whoever holds it.                             *)
Past(c) == c \in Documents => c.version <= published[c.issuer]

AllPast == /\ \A h \in Hosts : Past(file[h])
           /\ \A t \in Tasks : Past(task[t].got)

(* The goroutines of a start: there are some only while the server starts, *)
(* and only for what is configured; what they hand over, and what has been *)
(* collected, is genuine.                                                  *)
StartOK(h) ==
    /\ task[h].pc \notin {"wait", "hung"}
    /\ task[h].pc # "off" => proc = "starting" /\ h \in conf.enabled
    /\ task[h].pc = "ok" => Genuine(task[h].got, conf.issuer[h])
    /\ (proc # "down" /\ h \in conf.enabled /\ task[h].pc = "off") =>
          Genuine(providers[h], conf.issuer[h])

(* A start that found its files reads and examines them, no more.          *)
WarmOK(h) ==
    (proc = "starting" /\ warm) =>
        /\ task[h].pc \in {"off", "look", "check", "ok"}
        /\ task[h].pc = "look" => Genuine(file[h], conf.issuer[h])
        /\ task[h].pc = "check" => Genuine(task[h].got, conf.issuer[h])

(* The refresher is not there before the server is.                        *)
RefresherOK ==
    /\ task[Refresher].pc \in {"off", "wait", "ask", "open", "write", "hung"}
    /\ proc # "up" => task[Refresher].pc = "off"

CacheInv == /\ OidcTypeOK
            /\ AllPast
            /\ \A h \in Hosts : StartOK(h) /\ WarmOK(h)
            /\ RefresherOK

-----------------------------------------------------------------------------
(* The goroutine's URL is that of a host.                                  *)
LEMMA HostOfTask ==
  ASSUME OidcTypeOK, NEW t \in Tasks
  PROVE  /\ HostOf(t) \in Hosts
         /\ Current(t) \in Documents
         /\ Current(t).issuer = conf.issuer[HostOf(t)]
         /\ Current(t).version = published[Current(t).issuer]
<1>1. HostOf(t) \in Hosts
  BY DEF HostOf, Tasks, OidcTypeOK, Hosts
<1>2. conf.issuer[HostOf(t)] \in Issuers
  BY <1>1 DEF OidcTypeOK, Conf
<1> QED
  BY <1>1, <1>2 DEF Current, OidcTypeOK, Documents

(* No mark is taken for a document.                                        *)
LEMMA Marks == /\ {None, Page, Cut} \cap Documents = {}
               /\ Refresher \notin Hosts
               /\ Past(None) /\ Past(Page) /\ Past(Cut)
BY OidcAssumption DEF Past

(* The initial state satisfies the invariant.                              *)
LEMMA InitInv == Init => CacheInv
<1> SUFFICES ASSUME Init PROVE CacheInv
  OBVIOUS
<1>1. OidcTypeOK
  <2>1. 1 \in DOMAIN RefreshOrder
    BY OidcAssumption
  <2>2. published \in [Issuers -> 1..MaxVersion]
    BY OidcAssumption DEF Init
  <2>3. conf \in Conf
    BY OidcAssumption DEF Init
  <2>4. At("off") \in Task
    BY DEF At, Task
  <2>5. task \in [Tasks -> Task]
    BY <2>4 DEF Init
  <2> QED
    BY <2>1, <2>2, <2>3, <2>5 DEF Init, OidcTypeOK
<1>2. AllPast
  BY Marks DEF Init, AllPast, At
<1>3. ASSUME NEW h \in Hosts PROVE StartOK(h) /\ WarmOK(h)
  BY <1>3 DEF Init, StartOK, WarmOK, At, Tasks
<1>4. RefresherOK
  BY DEF Init, RefresherOK, At, Tasks
<1> QED
  BY <1>1, <1>2, <1>3, <1>4 DEF CacheInv

-----------------------------------------------------------------------------
(* A new version leaves what was published published.                      *)
LEMMA PublishInv ==
  ASSUME CacheInv, NEW i \in Issuers, Publish(i)
  PROVE  CacheInv'
<1> USE DEF Publish
<1>1. OidcTypeOK /\ OidcTypeOK'
  BY OidcAssumption DEF CacheInv, OidcTypeOK
<1>2. \A j \in Issuers : published[j] <= published'[j]
  BY <1>1 DEF OidcTypeOK
<1>3. \A c : Past(c) => Past(c)'
  <2> SUFFICES ASSUME NEW c, Past(c), c \in Documents
               PROVE  c.version <= published'[c.issuer]
    BY DEF Past
  <2>1. c.issuer \in Issuers /\ c.version \in Nat
    BY DEF Documents
  <2>2. published[c.issuer] \in Nat /\ published'[c.issuer] \in Nat
    BY <1>1, <2>1 DEF OidcTypeOK
  <2> QED
    BY <1>2, <2>1, <2>2 DEF Past
<1>4. \A c, j : Genuine(c, j) => Genuine(c, j)'
  BY <1>3 DEF Genuine, Past
<1> QED
  BY <1>1, <1>3, <1>4 DEF CacheInv, AllPast, StartOK, WarmOK, RefresherOK

(* A start asks for the documents of what is configured.                   *)
LEMMA BeginInv ==
  ASSUME CacheInv, NEW c \in Confs, Begin(c)
  PROVE  CacheInv'
<1> USE DEF Begin, At
<1>1. c \in Conf
  BY OidcAssumption
<1>2. OidcTypeOK'
  BY <1>1 DEF CacheInv, OidcTypeOK, Task
<1>3. AllPast'
  BY Marks DEF CacheInv, AllPast, Past
<1>4. ASSUME NEW h \in Hosts PROVE StartOK(h)' /\ WarmOK(h)'
  BY <1>4 DEF StartOK, WarmOK, Tasks, Genuine
<1>5. RefresherOK'
  BY Marks, <1>1 DEF RefresherOK, Tasks, Conf
<1> QED
  BY <1>2, <1>3, <1>4, <1>5 DEF CacheInv

(* After the end of the process there is nothing but files.                *)
LEMMA DiesInv == ASSUME CacheInv, Dies PROVE CacheInv'
<1> USE DEF Dies, At
<1>1. 1 \in DOMAIN RefreshOrder
  BY OidcAssumption
<1>2. OidcTypeOK'
  BY <1>1 DEF CacheInv, OidcTypeOK, Task
<1>3. AllPast'
  BY Marks DEF CacheInv, AllPast, Past
<1>4. ASSUME NEW h \in Hosts PROVE StartOK(h)' /\ WarmOK(h)'
  BY <1>4 DEF StartOK, WarmOK, Tasks
<1>5. RefresherOK'
  BY DEF RefresherOK, Tasks
<1> QED
  BY <1>2, <1>3, <1>4, <1>5 DEF CacheInv

-----------------------------------------------------------------------------
(* A step of one goroutine of a start that leaves its place and content in *)
(* order keeps the invariant, if it writes no file but its host's.         *)
LEMMA StartStep ==
  ASSUME CacheInv, NEW h \in Hosts, NEW to \in Task,
         task[h].pc # "off",
         task' = [task EXCEPT ![h] = to],
         UNCHANGED <<published, proc, conf, turn, warm>>,
         file' \in [Hosts -> Contents \cup {None}],
         \A g \in Hosts \ {h} : file'[g] = file[g],
         Past(file'[h]), Past(to.got),
         to.pc \notin {"wait", "hung"},
         to.pc = "ok" => Genuine(to.got, conf.issuer[h]),
         providers' \in [Hosts -> Contents \cup {None}],
         \A g \in Hosts \ {h} : providers'[g] = providers[g],
         to.pc = "off" => Genuine(providers'[h], conf.issuer[h]),
         warm => /\ to.pc \in {"off", "look", "check", "ok"}
                 /\ to.pc # "look"
                 /\ to.pc = "check" => Genuine(to.got, conf.issuer[h])
  PROVE  CacheInv'
<1>1. OidcTypeOK'
  BY DEF CacheInv, OidcTypeOK
<1>2. h \in Tasks /\ task \in [Tasks -> Task] /\ Refresher # h /\ Refresher \in Tasks
  BY Marks DEF CacheInv, OidcTypeOK, Tasks
<1>3. task'[h] = to /\ \A t \in Tasks \ {h} : task'[t] = task[t]
  BY <1>2
<1>4. AllPast'
  BY <1>3 DEF CacheInv, AllPast, Past
<1>5. ASSUME NEW g \in Hosts PROVE StartOK(g)' /\ WarmOK(g)'
  <2>1. CASE g = h
    BY <1>3, <2>1 DEF CacheInv, StartOK, WarmOK, Genuine
  <2>2. CASE g # h
    <3>1. task'[g] = task[g] /\ file'[g] = file[g] /\ providers'[g] = providers[g]
      BY <1>3, <2>2 DEF Tasks
    <3> QED
      BY <3>1 DEF CacheInv, StartOK, WarmOK, Genuine
  <2> QED
    BY <2>1, <2>2
<1>6. RefresherOK'
  BY <1>2, <1>3 DEF CacheInv, RefresherOK
<1> QED
  BY <1>1, <1>4, <1>5, <1>6 DEF CacheInv

(* So does a step of the refresher, which runs when no start does, even if *)
(* it does write a file.                                                   *)
LEMMA RefresherStep ==
  ASSUME CacheInv, NEW to \in Task,
         task[Refresher].pc # "off",
         task' = [task EXCEPT ![Refresher] = to],
         to.pc \in {"wait", "ask", "open", "write", "hung"},
         UNCHANGED <<published, proc, conf, providers, warm>>,
         turn' \in DOMAIN RefreshOrder,
         file' \in [Hosts -> Contents \cup {None}],
         \A h \in Hosts : Past(file'[h]),
         Past(to.got)
  PROVE  CacheInv'
<1>1. Refresher \in Tasks /\ Refresher \notin Hosts /\ task \in [Tasks -> Task]
  BY Marks DEF CacheInv, OidcTypeOK, Tasks
<1>2. proc = "up"
  BY DEF CacheInv, RefresherOK, OidcTypeOK
<1>3. task'[Refresher] = to /\ \A t \in Hosts : task'[t] = task[t]
  BY <1>1 DEF Tasks
<1>4. OidcTypeOK'
  BY <1>1 DEF CacheInv, OidcTypeOK
<1>5. AllPast'
  BY <1>3 DEF CacheInv, AllPast, Past, Tasks
<1>6. ASSUME NEW h \in Hosts PROVE StartOK(h)' /\ WarmOK(h)'
  BY <1>2, <1>3 DEF CacheInv, StartOK, WarmOK, Genuine
<1>7. RefresherOK'
  BY <1>2, <1>3 DEF RefresherOK
<1> QED
  BY <1>4, <1>5, <1>6, <1>7 DEF CacheInv

(* The record of a goroutine that moves on with what it got.               *)
LEMMA MovedOn ==
  ASSUME CacheInv, NEW t \in Tasks,
         NEW pc \in {"write", "check", "ok", "failed"}
  PROVE  LET to == [task[t] EXCEPT !.pc = pc]
         IN /\ to \in Task /\ to.pc = pc /\ to.got = task[t].got
            /\ to.got \in Contents \cup {None} /\ Past(to.got)
BY DEF CacheInv, OidcTypeOK, AllPast, Task

(* The document an issuer serves is one it has published.                  *)
LEMMA CurrentPast ==
  ASSUME CacheInv, NEW t \in Tasks
  PROVE  Current(t) \in Contents /\ Past(Current(t))
<1>1. /\ Current(t) \in Documents
      /\ Current(t).version = published[Current(t).issuer]
  BY HostOfTask DEF CacheInv
<1>2. Current(t).version \in Nat
  BY <1>1 DEF Documents
<1> QED
  BY <1>1, <1>2 DEF Past, Contents

(* Asking, and keeping the answer, at the start.                           *)
LEMMA StartFetch ==
  ASSUME CacheInv, NEW h \in Hosts, Fetch(h)
  PROVE  CacheInv'
<1>1. h \in Tasks /\ h # Refresher /\ HostOf(h) = h
  BY Marks DEF Tasks, HostOf
<1>2. /\ task[h].pc \in {"ask", "open", "write"}
      /\ ~warm
      /\ \A g \in Hosts : Past(file[g]) /\ file[g] \in Contents \cup {None}
  <2>1. task[h].pc \in {"ask", "open", "write"}
    BY <1>1 DEF Fetch, Files, Answered, AnsweredOtherwise, NoAnswer, OpenFile,
                WriteFile, FileFails, Returns, Goes
  <2> QED
    BY <2>1 DEF CacheInv, StartOK, WarmOK, AllPast, OidcTypeOK
<1>3. ASSUME NEW to \in Task, Goes(h, task[h].pc, to),
             UNCHANGED <<published, proc, conf, turn, providers, warm>>,
             file' \in [Hosts -> Contents \cup {None}], Past(file'[h]),
             \A g \in Hosts \ {h} : file'[g] = file[g],
             Past(to.got), to.pc \in {"open", "write", "check", "failed"}
      PROVE  CacheInv'
  BY <1>2, <1>3, StartStep DEF Goes, CacheInv, OidcTypeOK
<1>4. ASSUME UNCHANGED file
      PROVE  /\ file' \in [Hosts -> Contents \cup {None}] /\ Past(file'[h])
             /\ \A g \in Hosts \ {h} : file'[g] = file[g]
  BY <1>2, <1>4 DEF CacheInv, OidcTypeOK
<1>5. CASE Answered(h)
  <2> DEFINE to == [pc |-> "open", got |-> Current(h)]
  <2>1. to \in Task /\ Past(to.got) /\ to.pc = "open"
    BY <1>1, CurrentPast DEF Task
  <2> HIDE DEF to
  <2> QED
    BY <1>3, <1>4, <1>5, <2>1 DEF Answered, to, OnlyTasks, Goes
<1>6. CASE AnsweredOtherwise(h)
  <2> DEFINE to == [pc |-> "open", got |-> Page]
  <2>1. to \in Task /\ Past(to.got) /\ to.pc = "open"
    BY Marks DEF Task, Contents
  <2> QED
    BY <1>3, <1>4, <1>6, <2>1 DEF AnsweredOtherwise, OnlyTasks, Goes
<1>7. CASE NoAnswer(h)
  <2> DEFINE to == [task[h] EXCEPT !.pc = "failed"]
  <2>1. to \in Task /\ Past(to.got) /\ to.pc = "failed"
    BY <1>1, MovedOn
  <2>2. /\ Goes(h, task[h].pc, to)
        /\ UNCHANGED <<published, file, proc, conf, turn, providers, warm>>
    BY <1>1, <1>7 DEF NoAnswer, Returns, Goes
  <2> HIDE DEF to
  <2> QED
    BY <1>3, <1>4, <2>1, <2>2
<1>8. CASE OpenFile(h)
  <2> DEFINE to == [task[h] EXCEPT !.pc = "write"]
  <2>1. to \in Task /\ Past(to.got) /\ to.pc = "write"
    BY <1>1, MovedOn
  <2>2. /\ Goes(h, task[h].pc, to)
        /\ UNCHANGED <<published, proc, conf, turn, providers, warm>>
    BY <1>8 DEF OpenFile, Goes
  <2>3. /\ file' \in [Hosts -> Contents \cup {None}]
        /\ file'[h] = Cut /\ \A g \in Hosts \ {h} : file'[g] = file[g]
    BY <1>1, <1>2, <1>8 DEF OpenFile, CacheInv, OidcTypeOK, Contents
  <2> HIDE DEF to
  <2> QED
    BY <1>3, <2>1, <2>2, <2>3, Marks
<1>9. CASE WriteFile(h)
  <2> DEFINE to == [task[h] EXCEPT !.pc = "check"]
  <2>1. /\ to \in Task /\ Past(to.got) /\ to.pc = "check"
        /\ to.got = task[h].got /\ to.got \in Contents \cup {None}
    BY <1>1, MovedOn
  <2>2. /\ Goes(h, task[h].pc, to)
        /\ UNCHANGED <<published, proc, conf, turn, providers, warm>>
    BY <1>1, <1>9 DEF WriteFile, Returns, Goes
  <2> HIDE DEF to
  <2>3. /\ file' \in [Hosts -> Contents \cup {None}]
        /\ file'[h] = to.got /\ \A g \in Hosts \ {h} : file'[g] = file[g]
    BY <1>1, <1>2, <1>9, <2>1 DEF WriteFile, CacheInv, OidcTypeOK
  <2> QED
    BY <1>3, <2>1, <2>2, <2>3
<1>10. CASE FileFails(h)
  <2> DEFINE to == [task[h] EXCEPT !.pc = "check"]
  <2>1. to \in Task /\ Past(to.got) /\ to.pc = "check"
    BY <1>1, MovedOn
  <2>2. /\ Goes(h, task[h].pc, to)
        /\ UNCHANGED <<published, file, proc, conf, turn, providers, warm>>
    BY <1>1, <1>10 DEF FileFails, Returns, Goes
  <2> HIDE DEF to
  <2> QED
    BY <1>3, <1>4, <2>1, <2>2
<1> QED
  BY <1>5, <1>6, <1>7, <1>8, <1>9, <1>10 DEF Fetch, Files

(* The same for the refresher, whose host is the one whose turn it is.     *)
LEMMA RefresherFetch ==
  ASSUME CacheInv, Fetch(Refresher)
  PROVE  CacheInv'
<1>1. /\ Refresher \in Tasks /\ Refresher \notin Hosts
      /\ HostOf(Refresher) \in Hosts
      /\ turn \in DOMAIN RefreshOrder
      /\ 1 \in DOMAIN RefreshOrder
      /\ turn < Len(RefreshOrder) => turn + 1 \in DOMAIN RefreshOrder
  BY Marks, HostOfTask, OidcAssumption DEF Tasks, CacheInv, OidcTypeOK
<1>2. /\ task[Refresher].pc # "off"
      /\ \A h \in Hosts : Past(file[h]) /\ file[h] \in Contents \cup {None}
  <2>1. task[Refresher].pc \in {"ask", "open", "write"}
    BY DEF Fetch, Files, Answered, AnsweredOtherwise, NoAnswer, OpenFile,
           WriteFile, FileFails, Returns, Goes
  <2> QED
    BY <2>1 DEF CacheInv, AllPast, OidcTypeOK
<1>3. ASSUME NEW to \in Task, Goes(Refresher, task[Refresher].pc, to),
             UNCHANGED <<published, proc, conf, providers, warm>>,
             turn' \in DOMAIN RefreshOrder,
             file' \in [Hosts -> Contents \cup {None}],
             \A h \in Hosts : Past(file'[h]),
             Past(to.got), to.pc \in {"wait", "ask", "open", "write"}
      PROVE  CacheInv'
  BY <1>2, <1>3, RefresherStep DEF Goes
<1>4. ASSUME UNCHANGED file
      PROVE  file' \in [Hosts -> Contents \cup {None}] /\ \A h \in Hosts : Past(file'[h])
  BY <1>2, <1>4 DEF CacheInv, OidcTypeOK
<1>5. \A pc \in {"wait", "ask"} : At(pc) \in Task /\ At(pc).pc = pc /\ Past(At(pc).got)
  BY Marks DEF At, Task
<1>6. ASSUME NEW from, NEW pc, Returns(Refresher, from, pc)
      PROVE  /\ turn' \in DOMAIN RefreshOrder
             /\ \E next \in {"wait", "ask"} : Goes(Refresher, task[Refresher].pc, At(next))
  BY <1>1, <1>6 DEF Returns, Goes
<1>7. ASSUME NEW from, NEW pc, Returns(Refresher, from, pc),
             UNCHANGED <<published, proc, conf, providers, warm>>,
             file' \in [Hosts -> Contents \cup {None}],
             \A h \in Hosts : Past(file'[h])
      PROVE  CacheInv'
  BY <1>3, <1>5, <1>6, <1>7
<1>8. CASE Answered(Refresher)
  <2> DEFINE to == [pc |-> "open", got |-> Current(Refresher)]
  <2>1. to \in Task /\ Past(to.got) /\ to.pc = "open"
    BY <1>1, CurrentPast DEF Task
  <2>2. Goes(Refresher, task[Refresher].pc, to) /\ OnlyTasks
    BY <1>8 DEF Answered, Goes
  <2> HIDE DEF to
  <2> QED
    BY <1>1, <1>3, <1>4, <2>1, <2>2 DEF OnlyTasks
<1>9. CASE AnsweredOtherwise(Refresher)
  <2> DEFINE to == [pc |-> "open", got |-> Page]
  <2>1. to \in Task /\ Past(to.got) /\ to.pc = "open"
    BY Marks DEF Task, Contents
  <2>2. Goes(Refresher, task[Refresher].pc, to) /\ OnlyTasks
    BY <1>9 DEF AnsweredOtherwise, Goes
  <2> HIDE DEF to
  <2> QED
    BY <1>1, <1>3, <1>4, <2>1, <2>2 DEF OnlyTasks
<1>10. CASE NoAnswer(Refresher)
  BY <1>4, <1>7, <1>10 DEF NoAnswer
<1>11. CASE OpenFile(Refresher)
  <2> DEFINE to == [task[Refresher] EXCEPT !.pc = "write"]
  <2>1. to \in Task /\ Past(to.got) /\ to.pc = "write"
    BY <1>1, MovedOn
  <2>2. /\ Goes(Refresher, task[Refresher].pc, to)
        /\ UNCHANGED <<published, proc, conf, turn, providers, warm>>
    BY <1>11 DEF OpenFile, Goes
  <2>3. /\ file' \in [Hosts -> Contents \cup {None}]
        /\ \A h \in Hosts : Past(file'[h])
    BY <1>1, <1>2, <1>11, Marks DEF OpenFile, CacheInv, OidcTypeOK, Contents
  <2> HIDE DEF to
  <2> QED
    BY <1>1, <1>3, <2>1, <2>2, <2>3
<1>12. CASE WriteFile(Refresher)
  <2>1. task[Refresher].got \in Contents \cup {None} /\ Past(task[Refresher].got)
    BY <1>1 DEF CacheInv, OidcTypeOK, AllPast, Task
  <2>2. /\ file' \in [Hosts -> Contents \cup {None}]
        /\ \A h \in Hosts : Past(file'[h])
    BY <1>1, <1>2, <1>12, <2>1 DEF WriteFile, CacheInv, OidcTypeOK
  <2> QED
    BY <1>7, <1>12, <2>2 DEF WriteFile
<1>13. CASE FileFails(Refresher)
  BY <1>4, <1>7, <1>13 DEF FileFails
<1> QED
  BY <1>8, <1>9, <1>10, <1>11, <1>12, <1>13 DEF Fetch, Files

(* The other steps of a start.                                             *)
LEMMA StartInv ==
  ASSUME CacheInv, NEW h \in Hosts, Starts(h)
  PROVE  CacheInv'
<1>1. h \in Tasks /\ h # Refresher
  BY Marks DEF Tasks
<1>2. /\ OidcTypeOK /\ StartOK(h) /\ WarmOK(h)
      /\ Past(file[h]) /\ file[h] \in Contents \cup {None}
      /\ Past(task[h].got) /\ task[h].got \in Contents \cup {None}
  BY <1>1 DEF CacheInv, AllPast, OidcTypeOK, Task
<1>3. ASSUME NEW to \in Task, Goes(h, task[h].pc, to), task[h].pc # "off", OnlyTasks,
             Past(to.got),
             to.pc \in {"ask", "check", "ok", "failed"},
             to.pc = "ok" => Genuine(to.got, conf.issuer[h]),
             warm => /\ to.pc \in {"check", "ok"}
                     /\ to.pc = "check" => Genuine(to.got, conf.issuer[h])
      PROVE  CacheInv'
  BY <1>2, <1>3, StartStep DEF Goes, OnlyTasks, OidcTypeOK
<1>4. CASE Look(h)
  <2> DEFINE to == IF file[h] = None THEN At("ask")
                   ELSE [pc |-> "check", got |-> file[h]]
  <2>1. to \in Task /\ Past(to.got) /\ to.pc \in {"ask", "check"}
    BY <1>2, Marks DEF Task, At
  <2>2. Goes(h, task[h].pc, to) /\ task[h].pc = "look" /\ OnlyTasks
    BY <1>4 DEF Look, Goes
  <2>3. warm => to.pc = "check" /\ Genuine(to.got, conf.issuer[h])
    BY <1>2, <2>2, Marks DEF WarmOK, StartOK, Genuine
  <2> HIDE DEF to
  <2> QED
    BY <1>3, <2>1, <2>2, <2>3
<1>5. CASE Fetch(h)
  BY <1>5, StartFetch
<1>6. CASE NewProvider(h)
  <2> DEFINE fits == task[h].got \in Documents /\ task[h].got.issuer = conf.issuer[h]
             to == IF fits THEN [task[h] EXCEPT !.pc = "ok"] ELSE At("failed")
  <2>1. /\ task[h].pc = "check"
        /\ task' = [task EXCEPT ![h] = to] /\ OnlyTasks
    BY <1>6 DEF NewProvider, Goes
  <2>2. CASE fits
    <3>1. to \in Task /\ to.pc = "ok" /\ to.got = task[h].got /\ Past(to.got)
      BY <1>1, <2>2, MovedOn
    <3>2. Genuine(to.got, conf.issuer[h])
      BY <1>2, <2>2, <3>1 DEF Genuine, Past
    <3> HIDE DEF to
    <3> QED
      BY <1>3, <2>1, <3>1, <3>2 DEF Goes
  <2>3. CASE ~fits
    <3>1. to \in Task /\ to.pc = "failed" /\ Past(to.got)
      BY <2>3, Marks DEF At, Task
    <3>2. ~warm
      BY <1>2, <2>1, <2>3 DEF WarmOK, StartOK, Genuine
    <3> HIDE DEF to
    <3> QED
      BY <1>3, <2>1, <3>1, <3>2 DEF Goes
  <2> QED
    BY <2>2, <2>3
<1>7. CASE Collect(h)
  <2>1. At("off") \in Task /\ At("off").pc = "off" /\ Past(At("off").got)
    BY Marks DEF At, Task
  <2>2. /\ task[h].pc = "ok" /\ task' = [task EXCEPT ![h] = At("off")]
        /\ UNCHANGED <<published, file, proc, conf, turn, warm>>
        /\ providers' = [providers EXCEPT ![h] = task[h].got]
    BY <1>7 DEF Collect, Goes
  <2>3. /\ providers' \in [Hosts -> Contents \cup {None}]
        /\ providers'[h] = task[h].got
        /\ \A g \in Hosts \ {h} : providers'[g] = providers[g]
    BY <1>2, <2>2 DEF OidcTypeOK
  <2>4. Genuine(providers'[h], conf.issuer[h])
    BY <1>2, <2>2, <2>3 DEF StartOK
  <2> QED
    BY <1>2, <2>1, <2>2, <2>3, <2>4, StartStep DEF OidcTypeOK
<1>8. CASE CollectError(h)
  BY <1>8, DiesInv DEF CollectError
<1> QED
  BY <1>4, <1>5, <1>6, <1>7, <1>8 DEF Starts

-----------------------------------------------------------------------------
(* Every step keeps the invariant.                                         *)
LEMMA StepInv == CacheInv /\ [Next]_vars => CacheInv'
<1> SUFFICES ASSUME CacheInv, [Next]_vars PROVE CacheInv'
  OBVIOUS
<1>1. ASSUME NEW i \in Issuers, Publish(i) PROVE CacheInv'
  BY <1>1, PublishInv
<1>2. ASSUME NEW c \in Confs, Begin(c) PROVE CacheInv'
  BY <1>2, BeginInv
<1>3. ASSUME NEW h \in Hosts, Starts(h) PROVE CacheInv'
  BY <1>3, StartInv
<1>4. CASE Serve
  <2> USE <1>4 DEF Serve
  <2>1. At("wait") \in Task /\ At("wait").pc = "wait" /\ Past(At("wait").got)
    BY Marks DEF At, Task
  <2>2. /\ task'[Refresher] = At("wait")
        /\ \A h \in Hosts : task'[h] = task[h]
        /\ task' \in [Tasks -> Task]
    BY <2>1, Marks DEF CacheInv, OidcTypeOK, Tasks
  <2>3. OidcTypeOK'
    BY <2>2 DEF CacheInv, OidcTypeOK
  <2>4. AllPast'
    BY <2>1, <2>2 DEF CacheInv, AllPast, Past, Tasks
  <2>5. ASSUME NEW h \in Hosts PROVE StartOK(h)' /\ WarmOK(h)'
    <3>1. task[h].pc = "off"
      BY DEF CacheInv, StartOK
    <3> QED
      BY <2>2, <3>1 DEF CacheInv, StartOK, WarmOK, Genuine
  <2>6. RefresherOK'
    BY <2>1, <2>2 DEF RefresherOK
  <2> QED
    BY <2>3, <2>4, <2>5, <2>6 DEF CacheInv
<1>5. CASE Tick
  <2>1. At("ask") \in Task /\ At("ask").pc = "ask" /\ Past(At("ask").got)
    BY Marks DEF At, Task
  <2> QED
    BY <1>5, <2>1, RefresherStep DEF Tick, Goes, OnlyTasks, CacheInv, OidcTypeOK, AllPast
<1>6. CASE Fetch(Refresher)
  BY <1>6, RefresherFetch
<1>7. CASE Hangs
  <2>1. At("hung") \in Task /\ At("hung").pc = "hung" /\ Past(At("hung").got)
    BY Marks DEF At, Task
  <2> QED
    BY <1>7, <2>1, RefresherStep DEF Hangs, Goes, OnlyTasks, CacheInv, OidcTypeOK, AllPast
<1>8. CASE Crash
  BY <1>8, DiesInv DEF Crash
<1>9. CASE UNCHANGED vars
  BY <1>9 DEF vars, CacheInv, OidcTypeOK, AllPast, Past, StartOK, WarmOK, RefresherOK,
              Genuine
<1> QED
  BY <1>1, <1>2, <1>3, <1>4, <1>5, <1>6, <1>7, <1>8, <1>9 DEF Next

(* The invariant holds in every behaviour.                                 *)
LEMMA CacheCorrect == Spec => []CacheInv
BY InitInv, StepInv, PTL DEF Spec

(* Every state of the cache and of the server is well formed.              *)
THEOREM CacheTyped == Spec => []OidcTypeOK
<1>1. CacheInv => OidcTypeOK
  BY DEF CacheInv
<1> QED
  BY <1>1, CacheCorrect, PTL

(* However many hosts, tenants and starts there are, and whatever was left *)
(* in the files: a server that runs has genuine documents.                 *)
THEOREM RunningIsGenuine == Spec => []UpIsGenuine
<1>1. CacheInv => UpIsGenuine
  <2> SUFFICES ASSUME CacheInv, proc = "up", NEW h \in conf.enabled
               PROVE  Genuine(providers[h], conf.issuer[h])
    BY DEF UpIsGenuine
  <2>1. h \in Hosts
    BY DEF CacheInv, OidcTypeOK, Conf
  <2> QED
    BY <2>1 DEF CacheInv, StartOK
<1> QED
  BY <1>1, CacheCorrect, PTL

(* A server that finds its files starts without asking anybody.            *)
THEOREM StartsFromFiles == Spec => []CachedStartsSucceed
<1>1. CacheInv => CachedStartsSucceed
  BY DEF CacheInv, WarmOK, CachedStartsSucceed
<1> QED
  BY <1>1, CacheCorrect, PTL
=============================================================================
