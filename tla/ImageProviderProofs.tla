-------------------------- MODULE ImageProviderProofs --------------------------
(***************************************************************************)
(* Theorems about ImageProvider, for any clients, ports and output files,  *)
(* any number of accepting tasks and of streams.                           *)
(***************************************************************************)
EXTENDS ImageProvider, TLAPS

(* What the accepting tasks know: a client whose second connection one has  *)
(* accepted is one that was told a port, and no other task accepts it.      *)
SetupInv ==
  /\ \A t \in Client : task[t] = "paired" => peer[t] \in Client
  /\ \A t \in Client : peer[t] \in Client =>
       task[t] \in {"paired", "ended"} /\ dial[peer[t]] \in {"open", "over"}
  /\ \A t, s \in Client : peer[t] \in Client /\ peer[t] = peer[s] => t = s

ListInv ==
  /\ contexts \subseteq ends /\ todo \subseteq ends
  /\ \A c \in ends : \E t \in Client : peer[t] = c /\ task[t] = "ended"
  /\ up => Running \subseteq contexts

(* A file holds the secret of a request to that file.  When a request that  *)
(* has written its file finds another one's secret in it, both ran at the   *)
(* same time.                                                               *)
FileInv ==
  /\ \A p \in Path : file[p] \in Client => OutputPath[file[p]] = p
  /\ \A c, d \in Running : c # d /\ OutputPath[c] = OutputPath[d] => c \in clash
  /\ \A c \in Client :
       call[c] = "written" /\ file[OutputPath[c]] \in Client
         => file[OutputPath[c]] = c \/ {c, file[OutputPath[c]]} \subseteq clash
  /\ OwnImage

Inv == TypeOK /\ SetupInv /\ ListInv /\ FileInv

LEMMA Paths == \A c \in Client : OutputPath[c] \in Path
  BY DEF Path

-------------------------------------------------------------------------------
(* The sets and functions of the types, by the group of variables.          *)
LoopTypes == /\ up \in BOOLEAN /\ leading \in BOOLEAN
             /\ serving \in {"idle", "pass", "pause", "stopped", "dropping"}
SetupTypes ==
  /\ acceptors \in 0 .. MaxAcceptors
  /\ dial \in [Client -> {"new", "dialing", "connected", "told", "open", "over"}]
  /\ task \in [Client -> {"none", "taken", "picked", "sent", "listening",
                          "paired", "ended"}]
  /\ port \in [Client -> Port \cup {NoPort}]
  /\ peer \in [Client -> Client \cup {NoClient}]
ListTypes ==
  /\ ends \subseteq Client /\ contexts \subseteq Client /\ todo \subseteq Client
  /\ looks \in [Client -> 0 .. UniStreams]
JobTypes ==
  /\ call \in [Client -> {"none", "sent", "writing", "written", "answered", "lost"}]
  /\ file \in [Path -> Client \cup {Torn, Missing}]
  /\ image \in [Client -> Client \cup {NoClient}]
  /\ clash \subseteq Client

LEMMA TypesAre == TypeOK <=> LoopTypes /\ SetupTypes /\ ListTypes /\ JobTypes
  BY DEF TypeOK, LoopTypes, SetupTypes, ListTypes, JobTypes

LEMMA TypesAreNext == TypeOK' <=> LoopTypes' /\ SetupTypes' /\ ListTypes' /\ JobTypes'
  BY DEF TypeOK, LoopTypes, SetupTypes, ListTypes, JobTypes

LEMMA SameTypes ==
  /\ UNCHANGED <<up, loops>> /\ LoopTypes => LoopTypes'
  /\ UNCHANGED setup /\ SetupTypes => SetupTypes'
  /\ UNCHANGED list /\ ListTypes => ListTypes'
  /\ UNCHANGED jobs /\ JobTypes => JobTypes'
  BY DEF loops, setup, list, jobs, LoopTypes, SetupTypes, ListTypes, JobTypes

LEMMA SameInvs ==
  /\ UNCHANGED setup /\ SetupInv => SetupInv'
  /\ UNCHANGED <<up, peer, task, list, call>> /\ ListInv => ListInv'
  /\ UNCHANGED jobs /\ FileInv => FileInv'
  <1>1. UNCHANGED setup /\ SetupInv => SetupInv'
    BY DEF setup, SetupInv
  <1>2. UNCHANGED <<up, peer, task, list, call>> /\ ListInv => ListInv'
    BY DEF list, ListInv, Running
  <1>3. UNCHANGED jobs /\ FileInv => FileInv'
    BY DEF jobs, FileInv, Running, OwnImage
  <1> QED
    BY <1>1, <1>2, <1>3
LEMMA InitInv == Init => Inv
  <1> SUFFICES ASSUME Init PROVE Inv
    OBVIOUS
  <1>1. Running = {}
    BY DEF Init, Running
  <1>2. TypeOK
    <2>1. 0 \in 0 .. MaxAcceptors /\ 0 \in 0 .. UniStreams
      BY ProviderAssumption
    <2>2. LoopTypes /\ JobTypes
      BY DEF Init, LoopTypes, JobTypes
    <2>3. SetupTypes
      BY <2>1 DEF Init, SetupTypes
    <2>4. ListTypes
      BY <2>1 DEF Init, ListTypes
    <2> QED
      BY <2>2, <2>3, <2>4, TypesAre
  <1>3. SetupInv
    BY ProviderAssumption DEF Init, SetupInv
  <1>4. ListInv
    BY <1>1 DEF Init, ListInv
  <1>5. FileInv
    BY <1>1, ProviderAssumption, Paths DEF Init, FileInv, OwnImage
  <1> QED
    BY <1>2, <1>3, <1>4, <1>5 DEF Inv
-------------------------------------------------------------------------------
(* The client's own steps.                                                  *)
LEMMA ClientInv ==
  ASSUME Inv, NEW c \in Client, Dial(c) \/ GiveUp(c) \/ CloseConnection(c)
  PROVE  Inv'
  <1>1. PICK x \in {"dialing", "over"} :
          /\ dial' = [dial EXCEPT ![c] = x]
          /\ dial[c] \in {"open", "over"} => x = "over"
          /\ UNCHANGED <<up, loops, acceptors, task, port, peer, list, jobs>>
    BY DEF Dial, GiveUp, CloseConnection
  <1>2. SetupTypes'
    BY <1>1, TypesAre DEF Inv, SetupTypes
  <1>3. SetupInv'
    BY <1>1, TypesAre DEF Inv, SetupInv, SetupTypes
  <1>4. UNCHANGED <<up, peer, task, list, call>> /\ UNCHANGED jobs /\ UNCHANGED <<up, loops>>
    BY <1>1 DEF jobs
  <1>5. UNCHANGED list
    BY <1>1
  <1> QED
    BY <1>2, <1>3, <1>4, <1>5, SameTypes, SameInvs, TypesAre, TypesAreNext DEF Inv

(* The steps of the accepting tasks that neither pair nor push.             *)
LEMMA SetupStep ==
  ASSUME Inv, NEW t \in Client, task[t] \notin {"paired", "ended"},
         task' \in [Client -> {"none", "taken", "picked", "sent", "listening",
                               "paired", "ended"}],
         task'[t] # "paired", \A s \in Client \ {t} : task'[s] = task[s],
         dial' \in [Client -> {"new", "dialing", "connected", "told", "open", "over"}],
         \A c \in Client : dial[c] \in {"open", "over"} => dial'[c] = dial[c],
         acceptors' \in 0 .. MaxAcceptors, port' \in [Client -> Port \cup {NoPort}],
         UNCHANGED <<up, loops, peer, list, jobs>>
  PROVE  Inv'
  <1>1. SetupTypes'
    BY TypesAre DEF Inv, SetupTypes
  <1>2. SetupInv'
    BY TypesAre DEF Inv, SetupInv, SetupTypes
  <1>3. ListInv'
    <2>1. \A s \in Client : task[s] = "ended" => task'[s] = "ended"
      OBVIOUS
    <2> QED
      BY <2>1 DEF Inv, ListInv, list, jobs, Running
  <1>4. UNCHANGED <<up, loops>> /\ UNCHANGED list /\ UNCHANGED jobs
    OBVIOUS
  <1> QED
    BY <1>1, <1>2, <1>3, <1>4, SameTypes, SameInvs, TypesAre, TypesAreNext DEF Inv

LEMMA AcceptInv ==
  ASSUME Inv, NEW c \in Client, Accept(c)
  PROVE  Inv'
  <1>1. acceptors' \in 0 .. MaxAcceptors
    BY ProviderAssumption DEF Inv, TypeOK, Accept
  <1>2. task[c] = "none" /\ UNCHANGED <<up, loops, port, peer, list, jobs>>
    BY DEF Accept
  <1>3. PICK x \in {"taken", "ended"} : task' = [task EXCEPT ![c] = x]
    BY DEF Accept
  <1>4. /\ dial' \in [Client -> {"new", "dialing", "connected", "told", "open", "over"}]
        /\ \A d \in Client : dial[d] \in {"open", "over"} => dial'[d] = dial[d]
    BY DEF Inv, TypeOK, Accept
  <1>5. /\ task' \in [Client -> {"none", "taken", "picked", "sent", "listening",
                                 "paired", "ended"}]
        /\ task'[c] # "paired" /\ \A s \in Client \ {c} : task'[s] = task[s]
    BY <1>3 DEF Inv, TypeOK
  <1>6. port' \in [Client -> Port \cup {NoPort}]
    BY <1>2 DEF Inv, TypeOK
  <1> QED
    BY <1>1, <1>2, <1>4, <1>5, <1>6, SetupStep

LEMMA PrepareInv ==
  ASSUME Inv, NEW t \in Client, PickPort(t) \/ SendAddress(t) \/ Listen(t)
  PROVE  Inv'
  <1>1. /\ task[t] \in {"taken", "picked", "sent"}
        /\ UNCHANGED <<up, loops, acceptors, peer, list, jobs>>
    BY DEF PickPort, SendAddress, Listen
  <1>2. PICK x \in {"picked", "sent", "listening", "ended"} : task' = [task EXCEPT ![t] = x]
    BY DEF PickPort, SendAddress, Listen
  <1>3. /\ dial' \in [Client -> {"new", "dialing", "connected", "told", "open", "over"}]
        /\ \A d \in Client : dial[d] \in {"open", "over"} => dial'[d] = dial[d]
    BY DEF Inv, TypeOK, PickPort, SendAddress, Listen
  <1>4. /\ task' \in [Client -> {"none", "taken", "picked", "sent", "listening",
                                 "paired", "ended"}]
        /\ task'[t] # "paired" /\ \A s \in Client \ {t} : task'[s] = task[s]
    BY <1>2 DEF Inv, TypeOK
  <1>5. port' \in [Client -> Port \cup {NoPort}]
    BY DEF Inv, TypeOK, PickPort, SendAddress, Listen
  <1>6. acceptors' \in 0 .. MaxAcceptors
    BY <1>1 DEF Inv, TypeOK
  <1> QED
    BY <1>1, <1>3, <1>4, <1>5, <1>6, SetupStep

LEMMA PairFailsInv ==
  ASSUME Inv, NEW t \in Client, NEW c \in Client, PairFails(t, c)
  PROVE  Inv'
  <1>1. /\ task[t] = "listening" /\ task' = [task EXCEPT ![t] = "ended"]
        /\ UNCHANGED <<up, loops, acceptors, dial, port, peer, list, jobs>>
    BY DEF PairFails
  <1>2. /\ task' \in [Client -> {"none", "taken", "picked", "sent", "listening",
                                 "paired", "ended"}]
        /\ task'[t] # "paired" /\ \A s \in Client \ {t} : task'[s] = task[s]
    BY <1>1 DEF Inv, TypeOK
  <1>3. /\ dial' \in [Client -> {"new", "dialing", "connected", "told", "open", "over"}]
        /\ acceptors' \in 0 .. MaxAcceptors /\ port' \in [Client -> Port \cup {NoPort}]
    BY <1>1 DEF Inv, TypeOK
  <1> QED
    BY <1>1, <1>2, <1>3, SetupStep

(* A task accepts a client that none has accepted yet.                      *)
LEMMA PairInv ==
  ASSUME Inv, NEW t \in Client, NEW c \in Client, Pair(t, c)
  PROVE  Inv'
  <1>1. /\ task[t] = "listening" /\ dial[c] = "told"
        /\ task' = [task EXCEPT ![t] = "paired"] /\ peer' = [peer EXCEPT ![t] = c]
        /\ dial' = [dial EXCEPT ![c] = "open"] /\ call' = [call EXCEPT ![c] = "sent"]
        /\ UNCHANGED <<up, loops, acceptors, port, list, file, image, clash>>
    BY DEF Pair
  <1>2. SetupTypes' /\ JobTypes'
    BY <1>1, TypesAre DEF Inv, SetupTypes, JobTypes
  <1>3. SetupInv'
    <2>1. \A s \in Client : peer[s] # c
      BY <1>1 DEF Inv, SetupInv
    <2>2. \A s \in Client : peer'[s] = IF s = t THEN c ELSE peer[s]
      BY <1>1, TypesAre DEF Inv, SetupTypes
    <2>3. \A s \in Client : task'[s] = IF s = t THEN "paired" ELSE task[s]
      BY <1>1, TypesAre DEF Inv, SetupTypes
    <2>4. \A d \in Client : dial'[d] = IF d = c THEN "open" ELSE dial[d]
      BY <1>1, TypesAre DEF Inv, SetupTypes
    <2> QED
      BY <2>1, <2>2, <2>3, <2>4, ProviderAssumption DEF Inv, SetupInv
  <1>4. Running' \subseteq Running
    BY <1>1, TypesAre DEF Inv, JobTypes, Running
  <1>5. ListInv'
    <2>1. \A s \in Client : task[s] = "ended" => task'[s] = "ended" /\ peer'[s] = peer[s]
      BY <1>1, TypesAre DEF Inv, SetupTypes
    <2> QED
      BY <1>1, <1>4, <2>1 DEF Inv, ListInv, list
  <1>6. FileInv'
    <2>1. \A d \in Client : call'[d] = "written" => call[d] = "written"
      BY <1>1, TypesAre DEF Inv, JobTypes
    <2> QED
      BY <1>1, <1>4, <2>1 DEF Inv, FileInv, OwnImage
  <1> QED
    BY <1>1, <1>2, <1>3, <1>5, <1>6, SameTypes, TypesAre, TypesAreNext DEF Inv

LEMMA PushInv ==
  ASSUME Inv, NEW t \in Client, Push(t)
  PROVE  Inv'
  <1>1. /\ task[t] = "paired" /\ ends' = ends \cup {peer[t]}
        /\ task' = [task EXCEPT ![t] = "ended"] /\ peer[t] \in Client
        /\ UNCHANGED <<up, loops, acceptors, dial, port, peer, contexts, looks, todo, jobs>>
    BY DEF Push, Inv, SetupInv
  <1>2. SetupTypes' /\ ListTypes'
    BY <1>1, TypesAre DEF Inv, SetupTypes, ListTypes
  <1>3. \A s \in Client : task'[s] = IF s = t THEN "ended" ELSE task[s]
    BY <1>1, TypesAre DEF Inv, SetupTypes
  <1>4. SetupInv'
    BY <1>1, <1>3 DEF Inv, SetupInv
  <1>5. ListInv'
    BY <1>1, <1>3 DEF Inv, ListInv, jobs, Running
  <1> QED
    BY <1>1, <1>2, <1>4, <1>5, SameTypes, SameInvs, TypesAre, TypesAreNext DEF Inv
-------------------------------------------------------------------------------
LEMMA LoopsInv ==
  ASSUME Inv, \/ SpawnAcceptor \/ AcceptorTimesOut \/ BeginPass \/ EndPass
              \/ Wake \/ CtrlC \/ ChangeLeader
  PROVE  Inv'
  <1>1. UNCHANGED <<up, dial, task, port, peer, ends, contexts, looks, jobs>>
    BY DEF SpawnAcceptor, AcceptorTimesOut, BeginPass, EndPass, Wake, CtrlC,
           ChangeLeader, loops, setup, list
  <1>2. LoopTypes'
    BY <1>1, TypesAre DEF Inv, LoopTypes, SpawnAcceptor, AcceptorTimesOut, BeginPass,
           EndPass, Wake, CtrlC, ChangeLeader, loops
  <1>3. todo' \in {todo, ends}
    BY DEF SpawnAcceptor, AcceptorTimesOut, BeginPass, EndPass, Wake, CtrlC,
           ChangeLeader, list
  <1>4. acceptors' \in 0 .. MaxAcceptors
    BY ProviderAssumption DEF Inv, TypeOK, SpawnAcceptor, AcceptorTimesOut, BeginPass,
           EndPass, Wake, CtrlC, ChangeLeader, setup
  <1>5. SetupTypes' /\ ListTypes'
    BY <1>1, <1>3, <1>4, TypesAre DEF Inv, SetupTypes, ListTypes
  <1>6. SetupInv'
    BY <1>1 DEF Inv, SetupInv
  <1>7. ListInv'
    BY <1>1, <1>3 DEF Inv, ListInv, jobs, Running
  <1> QED
    BY <1>1, <1>2, <1>5, <1>6, <1>7, SameTypes, SameInvs, TypesAre, TypesAreNext DEF Inv

LEMMA KeepInv ==
  ASSUME Inv, NEW c \in Client, Keep(c)
  PROVE  Inv'
  <1>1. /\ c \in todo /\ looks[c] < UniStreams /\ looks' = [looks EXCEPT ![c] = @ + 1]
        /\ contexts' = contexts \cup {c} /\ todo' = todo \ {c}
        /\ UNCHANGED <<up, loops, setup, ends, jobs>>
    BY DEF Keep, IsActive
  <1>2. ListTypes'
    BY <1>1, TypesAre, ProviderAssumption DEF Inv, ListTypes
  <1>3. ListInv'
    BY <1>1 DEF Inv, ListInv, setup, jobs, Running
  <1>4. UNCHANGED <<up, loops>> /\ UNCHANGED setup /\ UNCHANGED jobs
    BY <1>1
  <1> QED
    BY <1>2, <1>3, <1>4, SameTypes, SameInvs, TypesAre, TypesAreNext DEF Inv

LEMMA RemoveInv ==
  ASSUME Inv, NEW c \in Client, Remove(c)
  PROVE  Inv'
  <1>1. /\ c \in contexts => c \notin Running
        /\ ends' = ends \ {c} /\ contexts' = contexts \ {c} /\ todo' = todo \ {c}
        /\ dial' = [dial EXCEPT ![c] = "over"]
        /\ UNCHANGED <<up, loops, acceptors, task, port, peer, looks, jobs>>
    BY DEF Remove
  <1>2. SetupTypes' /\ ListTypes'
    BY <1>1, TypesAre DEF Inv, SetupTypes, ListTypes
  <1>3. SetupInv'
    BY <1>1, TypesAre DEF Inv, SetupInv, SetupTypes
  <1>4. Running' = Running
    BY <1>1 DEF jobs, Running
  <1>5. ListInv'
    BY <1>1, <1>4 DEF Inv, ListInv
  <1> QED
    BY <1>1, <1>2, <1>3, <1>5, SameTypes, SameInvs, TypesAre, TypesAreNext DEF Inv

LEMMA DropContextInv ==
  ASSUME Inv, NEW c \in Client, DropContext(c)
  PROVE  Inv'
  <1>1. /\ c \notin Running /\ contexts' = contexts \ {c}
        /\ dial' = [dial EXCEPT ![c] = "over"]
        /\ UNCHANGED <<up, loops, acceptors, task, port, peer, ends, looks, todo, jobs>>
    BY DEF DropContext
  <1>2. SetupTypes' /\ ListTypes'
    BY <1>1, TypesAre DEF Inv, SetupTypes, ListTypes
  <1>3. SetupInv'
    BY <1>1, TypesAre DEF Inv, SetupInv, SetupTypes
  <1>4. Running' = Running
    BY <1>1 DEF jobs, Running
  <1>5. ListInv'
    BY <1>1, <1>4 DEF Inv, ListInv
  <1> QED
    BY <1>1, <1>2, <1>3, <1>5, SameTypes, SameInvs, TypesAre, TypesAreNext DEF Inv

LEMMA AbortInv ==
  ASSUME Inv, NEW c \in Client, Abort(c)
  PROVE  Inv'
  <1>1. /\ up' = FALSE /\ acceptors' = 0
        /\ dial' = [d \in Client |-> IF dial[d] = "new" THEN "new" ELSE "over"]
        /\ task' = [t \in Client |-> IF task[t] = "none" THEN "none" ELSE "ended"]
        /\ ends' = {} /\ contexts' = {} /\ todo' = {}
        /\ call' = [d \in Client |-> IF d \in Running THEN "lost" ELSE call[d]]
        /\ UNCHANGED <<loops, port, peer, looks, file, image, clash>>
    BY DEF Abort
  <1>2. LoopTypes' /\ ListTypes'
    BY <1>1, TypesAre DEF Inv, LoopTypes, ListTypes, loops
  <1>3. SetupTypes'
    BY <1>1, TypesAre, ProviderAssumption DEF Inv, SetupTypes
  <1>4. JobTypes'
    BY <1>1, TypesAre DEF Inv, JobTypes
  <1>5. SetupInv'
    BY <1>1, TypesAre DEF Inv, SetupInv, SetupTypes
  <1>6. ListInv'
    BY <1>1 DEF ListInv
  <1>7. \A d \in Client : call'[d] \notin {"writing", "written"}
    BY <1>1 DEF Running
  <1>8. Running' = {}
    BY <1>7 DEF Running
  <1>9. FileInv'
    BY <1>1, <1>7, <1>8 DEF Inv, FileInv, OwnImage
  <1> QED
    BY <1>2, <1>3, <1>4, <1>5, <1>6, <1>9, TypesAreNext DEF Inv
-------------------------------------------------------------------------------
(* A step of a request, which touches nothing but the request and its file. *)
LEMMA JobStep ==
  ASSUME Inv, UNCHANGED <<up, loops, setup, list>>, JobTypes', FileInv',
         up => Running' \subseteq contexts
  PROVE  Inv'
  <1>1. ListInv'
    BY DEF Inv, ListInv, setup, list
  <1>2. UNCHANGED <<up, loops>> /\ UNCHANGED setup /\ UNCHANGED list
    OBVIOUS
  <1> QED
    BY <1>1, <1>2, SameTypes, SameInvs, TypesAre, TypesAreNext DEF Inv

LEMMA BeginWriteInv ==
  ASSUME Inv, NEW c \in Client, BeginWrite(c)
  PROVE  Inv'
  <1>1. /\ up /\ c \in contexts /\ call[c] = "sent"
        /\ call' = [call EXCEPT ![c] = "writing"]
        /\ file' = [file EXCEPT ![OutputPath[c]] = Torn]
        /\ clash' = IF Same(c) = {} THEN clash ELSE clash \cup Same(c) \cup {c}
        /\ UNCHANGED <<up, loops, setup, list, image>>
    BY DEF BeginWrite
  <1>2. Running' = Running \cup {c} /\ c \notin Running
    BY <1>1, TypesAre DEF Inv, JobTypes, Running
  <1>3. JobTypes'
    BY <1>1, TypesAre DEF Inv, JobTypes, Same, Running
  <1>4. FileInv'
    <2>1. clash \subseteq clash'
      BY <1>1
    <2>2. \A p \in Path : file'[p] = IF p = OutputPath[c] THEN Torn ELSE file[p]
      BY <1>1, TypesAre DEF Inv, JobTypes
    <2>3. \A p \in Path : file'[p] \in Client => file'[p] = file[p]
      BY <2>2, ProviderAssumption
    <2>4. \A p \in Path : file'[p] \in Client => OutputPath[file'[p]] = p
      BY <2>3 DEF Inv, FileInv
    <2>5. \A d \in Running : OutputPath[c] = OutputPath[d] => {c, d} \subseteq clash'
      BY <1>1, <1>2 DEF Same
    <2>6. \A d, e \in Running' : d # e /\ OutputPath[d] = OutputPath[e] => d \in clash'
      BY <1>2, <2>1, <2>5 DEF Inv, FileInv
    <2>7. \A d \in Client : call'[d] = "written" => call[d] = "written"
      BY <1>1, TypesAre DEF Inv, JobTypes
    <2>8. \A d \in Client :
            call'[d] = "written" /\ file'[OutputPath[d]] \in Client
              => file'[OutputPath[d]] = d \/ {d, file'[OutputPath[d]]} \subseteq clash'
      BY <2>1, <2>3, <2>7, Paths DEF Inv, FileInv
    <2>9. OwnImage'
      BY <1>1, <2>1 DEF Inv, FileInv, OwnImage
    <2> QED
      BY <2>4, <2>6, <2>8, <2>9 DEF FileInv
  <1>5. up => Running' \subseteq contexts
    BY <1>1, <1>2 DEF Inv, ListInv
  <1> QED
    BY <1>1, <1>3, <1>4, <1>5, JobStep

LEMMA EndWriteInv ==
  ASSUME Inv, NEW c \in Client, EndWrite(c)
  PROVE  Inv'
  <1>1. /\ call[c] = "writing" /\ call' = [call EXCEPT ![c] = "written"]
        /\ file' = [file EXCEPT ![OutputPath[c]] = c]
        /\ UNCHANGED <<up, loops, setup, list, image, clash>>
    BY DEF EndWrite
  <1>2. Running' = Running /\ c \in Running
    BY <1>1, TypesAre DEF Inv, JobTypes, Running
  <1>3. JobTypes'
    BY <1>1, TypesAre DEF Inv, JobTypes
  <1>4. FileInv'
    <2>1. \A p \in Path : file'[p] = IF p = OutputPath[c] THEN c ELSE file[p]
      BY <1>1, TypesAre DEF Inv, JobTypes
    <2>2. \A p \in Path : file'[p] \in Client => OutputPath[file'[p]] = p
      BY <2>1 DEF Inv, FileInv
    <2>3. \A d, e \in Running' : d # e /\ OutputPath[d] = OutputPath[e] => d \in clash'
      BY <1>1, <1>2 DEF Inv, FileInv
    <2>4. \A d \in Client : call'[d] = "written" /\ d # c => call[d] = "written" /\ d \in Running
      BY <1>1, TypesAre DEF Inv, JobTypes, Running
    <2>5. ASSUME NEW d \in Client, call'[d] = "written", file'[OutputPath[d]] \in Client
          PROVE  file'[OutputPath[d]] = d \/ {d, file'[OutputPath[d]]} \subseteq clash'
      <3>1. CASE d = c
        BY <2>1, <3>1, Paths
      <3>2. CASE d # c /\ OutputPath[d] = OutputPath[c]
        BY <1>1, <1>2, <2>1, <2>4, <2>5, <3>2, Paths DEF Inv, FileInv
      <3>3. CASE d # c /\ OutputPath[d] # OutputPath[c]
        BY <1>1, <2>1, <2>4, <2>5, <3>3, Paths DEF Inv, FileInv
      <3> QED
        BY <3>1, <3>2, <3>3
    <2>6. OwnImage'
      BY <1>1 DEF Inv, FileInv, OwnImage
    <2> QED
      BY <2>2, <2>3, <2>5, <2>6 DEF FileInv
  <1> QED
    BY <1>1, <1>2, <1>3, <1>4, JobStep DEF Inv, ListInv

LEMMA ReadBackInv ==
  ASSUME Inv, NEW c \in Client, ReadBack(c)
  PROVE  Inv'
  <1>1. /\ call[c] = "written" /\ UNCHANGED <<up, loops, setup, list, file, clash>>
    BY DEF ReadBack
  <1>2. PICK x \in {"answered", "lost"} : call' = [call EXCEPT ![c] = x]
    BY DEF ReadBack
  <1>3. \/ /\ file[OutputPath[c]] \in Client
           /\ image' = [image EXCEPT ![c] = file[OutputPath[c]]]
        \/ UNCHANGED image
    BY DEF ReadBack
  <1>4. Running' \subseteq Running
    BY <1>2, TypesAre DEF Inv, JobTypes, Running
  <1>5. JobTypes'
    BY <1>1, <1>2, <1>3, TypesAre DEF Inv, JobTypes
  <1>6. OwnImage'
    <2>1. ASSUME file[OutputPath[c]] \in Client,
                 image' = [image EXCEPT ![c] = file[OutputPath[c]]]
          PROVE  OwnImage'
      <3>1. \A d \in Client : image'[d] = IF d = c THEN file[OutputPath[c]] ELSE image[d]
        BY <2>1, TypesAre DEF Inv, JobTypes
      <3>2. /\ OutputPath[file[OutputPath[c]]] = OutputPath[c]
            /\ \/ file[OutputPath[c]] = c
               \/ {c, file[OutputPath[c]]} \subseteq clash
        BY <1>1, <2>1, Paths DEF Inv, FileInv
      <3> QED
        BY <1>1, <3>1, <3>2 DEF Inv, FileInv, OwnImage
    <2>2. CASE UNCHANGED image
      BY <1>1, <2>2 DEF Inv, FileInv, OwnImage
    <2> QED
      BY <1>3, <2>1, <2>2
  <1>7. \A d \in Client : call'[d] = "written" => call[d] = "written"
    BY <1>2, TypesAre DEF Inv, JobTypes
  <1>8. FileInv'
    BY <1>1, <1>4, <1>6, <1>7 DEF Inv, FileInv
  <1> QED
    BY <1>1, <1>4, <1>5, <1>8, JobStep DEF Inv, ListInv

LEMMA FailureInv ==
  ASSUME Inv, NEW c \in Client, NoCarrier(c) \/ HidePanics(c) \/ EncodeFails(c)
  PROVE  Inv'
  <1>1. PICK x \in {"answered", "lost"} :
          /\ call' = [call EXCEPT ![c] = x]
          /\ UNCHANGED <<up, loops, setup, list, file, image, clash>>
    BY DEF NoCarrier, HidePanics, EncodeFails
  <1>2. JobTypes'
    BY <1>1, TypesAre DEF Inv, JobTypes
  <1>3. Running' \subseteq Running
    BY <1>1, TypesAre DEF Inv, JobTypes, Running
  <1>4. \A d \in Client : call'[d] = "written" => call[d] = "written"
    BY <1>1, TypesAre DEF Inv, JobTypes
  <1>5. FileInv'
    BY <1>1, <1>3, <1>4 DEF Inv, FileInv, OwnImage
  <1> QED
    BY <1>1, <1>2, <1>3, <1>5, JobStep DEF Inv, ListInv
-------------------------------------------------------------------------------
LEMMA NextInv == Inv /\ [Next]_vars => Inv'
  <1> SUFFICES ASSUME Inv, [Next]_vars PROVE Inv'
    OBVIOUS
  <1>1. CASE UNCHANGED vars
    <2>1. /\ UNCHANGED <<up, loops>> /\ UNCHANGED setup /\ UNCHANGED list /\ UNCHANGED jobs
          /\ UNCHANGED <<up, peer, task, list, call>>
      BY <1>1 DEF vars, setup, jobs
    <2> QED
      BY <2>1, SameTypes, SameInvs, TypesAre, TypesAreNext DEF Inv
  <1>2. ASSUME NEW c \in Client, Setup(c) PROVE Inv'
    BY <1>2, PrepareInv, PairInv, PairFailsInv DEF Setup
  <1>3. ASSUME NEW c \in Client, Visit(c) PROVE Inv'
    BY <1>3, KeepInv, RemoveInv, AbortInv DEF Visit
  <1>4. ASSUME NEW c \in Client, Job(c) PROVE Inv'
    BY <1>4, BeginWriteInv, EndWriteInv, ReadBackInv, FailureInv DEF Job
  <1> QED
    BY <1>1, <1>2, <1>3, <1>4, LoopsInv, ClientInv, AcceptInv, PushInv,
       DropContextInv DEF Next

LEMMA Invariance == Spec => []Inv
  BY InitInv, NextInv, PTL DEF Spec
-------------------------------------------------------------------------------
(* Every variable keeps its type: no accepting task is left without a       *)
(* client to push, and is_active never opens more streams than there are.   *)
THEOREM TypeCorrect == Spec => []TypeOK
  <1>1. Inv => TypeOK
    BY DEF Inv
  <1> QED
    BY <1>1, Invariance, PTL

(* Connections, accepting tasks and contexts correspond, and no request     *)
(* runs outside a context, whichever ports are handed out twice.            *)
THEOREM ContextsAreTracked == Spec => []ContextsTracked
  <1>1. Inv => ContextsTracked
    BY DEF Inv, SetupInv, ListInv, ContextsTracked
  <1> QED
    BY <1>1, Invariance, PTL

(* An answer hides the secret of its own request or of one to the same      *)
(* output file that ran at the same time.                                   *)
THEOREM ImagesAreOwn == Spec => []OwnImage
  <1>1. Inv => OwnImage
    BY DEF Inv, FileInv
  <1> QED
    BY <1>1, Invariance, PTL

(* When no two requests name the same output file, every answer hides the   *)
(* secret of its own request.                                               *)
THEOREM DistinctFilesSuffice ==
  ASSUME \A c, d \in Client : OutputPath[c] = OutputPath[d] => c = d
  PROVE  Spec => [](\A c \in Client : image[c] \in {c, NoClient})
  <1>1. Inv => \A c \in Client : image[c] \in {c, NoClient}
    BY DEF Inv, TypeOK, FileInv, OwnImage
  <1> QED
    BY <1>1, Invariance, PTL
===============================================================================
