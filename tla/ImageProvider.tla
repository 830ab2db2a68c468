----------------------------- MODULE ImageProvider -----------------------------
(***************************************************************************)
(* The image service of a provider node (src/service_provider/src): how a  *)
(* client's connection is set up (main.rs, transport.rs), how the provider *)
(* looks after its connections and the contexts that serve them (main.rs), *)
(* and what one request to encode an image does (image_steganographer.rs). *)
(*                                                                         *)
(* A connection is set up twice: the client dials the well-known address;  *)
(* an accepting task picks a free port, tells it over that connection and  *)
(* listens there; the client dials the port, and the second connection is  *)
(* the one that is put into the list of transport ends.  Every few seconds *)
(* the serving loop goes through the list, makes a context for every live  *)
(* connection that has none, and removes the dead ones.                    *)
(*                                                                         *)
(* Whether the node leads comes from the election and may change at any    *)
(* time; both loops only work while it does.  An operator's Ctrl-C may end  *)
(* them, and the next one drops the contexts.  Every attempt of a client is a member of Client: one that    *)
(* tries again is another one.                                             *)
(***************************************************************************)
EXTENDS Integers, FiniteSets

CONSTANTS Client,        (* the attempts of clients to get an image encoded  *)
          NoClient,
          Port,          (* the UDP ports the system hands out               *)
          NoPort,
          OutputPath,    (* OutputPath[c]: the file the client asks for      *)
          MayPanic,      (* the requests whose encoding may panic            *)
          MaxAcceptors,  (* bound on the accepting tasks at any one time     *)
          UniStreams     (* the streams a client lets the provider open (100)*)

Torn == "torn"           (* a file that is being written                     *)
Missing == "missing"

ASSUME ProviderAssumption ==
  /\ NoClient \notin Client /\ NoPort \notin Port
  /\ Torn \notin Client /\ Missing \notin Client
  /\ MaxAcceptors \in Nat /\ UniStreams \in Nat

VARIABLES
  up,         (* whether the process lives                                   *)
  leading,    (* CURRENT_LEADER_ID = my_id                                   *)
  serving,    (* the loop of steg_handle: it holds both locks in a "pass"    *)
  acceptors,  (* the accepting tasks that wait at the endpoint               *)
  dial,       (* how far each client is, as its connections show the provider*)
  task,       (* the accepting task that took the client, in create()        *)
  port,       (* the port that task picked                                   *)
  peer,       (* peer[t]: the client whose second connection t accepted      *)
  ends,       (* transport_ends_vec                                          *)
  contexts,   (* the keys of contexts                                        *)
  looks,      (* the streams is_active has opened on each connection         *)
  todo,       (* what retain has still to visit in this pass                 *)
  call,       (* the client's request to encode                              *)
  file,       (* the output files                                            *)
  image,      (* the image each request got back: whose secret it hides      *)
  clash       (* history: requests that ran while one to the same file ran   *)

loops == <<leading, serving>>
setup == <<acceptors, dial, task, port, peer>>
list == <<ends, contexts, looks, todo>>
jobs == <<call, file, image, clash>>
vars == <<up, loops, setup, list, jobs>>

Path == {OutputPath[c] : c \in Client}
Running == {c \in Client : call[c] \in {"writing", "written"}}

TypeOK ==
  /\ up \in BOOLEAN /\ leading \in BOOLEAN
  /\ serving \in {"idle", "pass", "pause", "stopped", "dropping"}
  /\ acceptors \in 0 .. MaxAcceptors
  /\ dial \in [Client -> {"new", "dialing", "connected", "told", "open", "over"}]
  /\ task \in [Client -> {"none", "taken", "picked", "sent", "listening",
                          "paired", "ended"}]
  /\ port \in [Client -> Port \cup {NoPort}]
  /\ peer \in [Client -> Client \cup {NoClient}]
  /\ ends \subseteq Client /\ contexts \subseteq Client /\ todo \subseteq Client
  /\ looks \in [Client -> 0 .. UniStreams]
  /\ call \in [Client -> {"none", "sent", "writing", "written",
                          "answered", "lost"}]
  /\ file \in [Path -> Client \cup {Torn, Missing}]
  /\ image \in [Client -> Client \cup {NoClient}]
  /\ clash \subseteq Client

Init ==
  /\ up = TRUE /\ leading = FALSE
  /\ serving = "idle"
  /\ acceptors = 0
  /\ dial = [c \in Client |-> "new"] /\ task = [c \in Client |-> "none"]
  /\ port = [c \in Client |-> NoPort] /\ peer = [c \in Client |-> NoClient]
  /\ ends = {} /\ contexts = {} /\ todo = {}
  /\ looks = [c \in Client |-> 0]
  /\ call = [c \in Client |-> "none"]
  /\ file = [p \in Path |-> Missing]
  /\ image = [c \in Client |-> NoClient]
  /\ clash = {}
-------------------------------------------------------------------------------
(* The client's half of the set-up: create() of src/client/src/transport.rs,*)
(* which the client gives ten seconds.                                      *)

Dial(c) ==
  /\ dial[c] = "new"
  /\ dial' = [dial EXCEPT ![c] = "dialing"]
  /\ UNCHANGED <<up, loops, acceptors, task, port, peer, list, jobs>>

(* A failed step, the time-out, or the end of the client's process.         *)
GiveUp(c) ==
  /\ dial[c] \in {"dialing", "connected", "told"}
  /\ dial' = [dial EXCEPT ![c] = "over"]
  /\ UNCHANGED <<up, loops, acceptors, task, port, peer, list, jobs>>

(* The client drops its context, or dies and is found to have died.         *)
CloseConnection(c) ==
  /\ dial[c] = "open"
  /\ dial' = [dial EXCEPT ![c] = "over"]
  /\ UNCHANGED <<up, loops, acceptors, task, port, peer, list, jobs>>
-------------------------------------------------------------------------------
(* The accepting loop.  The permit of its semaphore lives no longer than    *)
(* the match that tries to acquire it, so there always is one, and the      *)
(* queue of endpoints that found none stays empty.  After Ctrl-C the loop   *)
(* ends and spawns no more; nothing obliges it to spawn any before.         *)

SpawnAcceptor ==
  /\ up /\ leading
  /\ acceptors < MaxAcceptors
  /\ acceptors' = acceptors + 1
  /\ UNCHANGED <<up, loops, dial, task, port, peer, list, jobs>>

(* endpoint.accept() had no client for a thousand seconds.                  *)
AcceptorTimesOut ==
  /\ up /\ acceptors > 0
  /\ acceptors' = acceptors - 1
  /\ UNCHANGED <<up, loops, dial, task, port, peer, list, jobs>>

(* incoming.await fails for a client that is gone, and the task ends.       *)
Accept(c) ==
  /\ up /\ acceptors > 0 /\ task[c] = "none"
  /\ acceptors' = acceptors - 1
  /\ \/ /\ dial[c] = "dialing"
        /\ dial' = [dial EXCEPT ![c] = "connected"]
        /\ task' = [task EXCEPT ![c] = "taken"]
     \/ /\ dial[c] = "over"
        /\ task' = [task EXCEPT ![c] = "ended"]
        /\ UNCHANGED dial
  /\ UNCHANGED <<up, loops, port, peer, list, jobs>>
-------------------------------------------------------------------------------
(* create(): t is the client whose first connection the task accepted.      *)

(* An endpoint keeps its port while it listens and while its connection     *)
(* lives.                                                                   *)
Bound == {port[t] : t \in {s \in Client :
            \/ task[s] = "listening"
            \/ peer[s] \in Client /\ dial[peer[s]] = "open"}}

(* A socket is bound to port 0 for the sake of its number, and dropped.     *)
PickPort(t) ==
  /\ up /\ task[t] = "taken"
  /\ \/ \E p \in Port \ Bound :
          /\ port' = [port EXCEPT ![t] = p]
          /\ task' = [task EXCEPT ![t] = "picked"]
     \/ /\ Port \subseteq Bound
        /\ task' = [task EXCEPT ![t] = "ended"]
        /\ UNCHANGED port
  /\ UNCHANGED <<up, loops, acceptors, dial, peer, list, jobs>>

(* open_bi, write_all and finish: they may succeed although the client has  *)
(* gone, or fail and end the task.                                          *)
SendAddress(t) ==
  /\ up /\ task[t] = "picked"
  /\ \/ /\ task' = [task EXCEPT ![t] = "sent"]
        /\ dial' = [dial EXCEPT ![t] = IF @ = "connected" THEN "told" ELSE @]
     \/ /\ dial[t] = "over"
        /\ task' = [task EXCEPT ![t] = "ended"]
        /\ UNCHANGED dial
  /\ UNCHANGED <<up, loops, acceptors, port, peer, list, jobs>>

(* make_server_endpoint(actual_addr).unwrap(): the task panics if another   *)
(* one has bound the port in the meantime.                                  *)
Listen(t) ==
  /\ up /\ task[t] = "sent"
  /\ task' = [task EXCEPT ![t] = IF port[t] \in Bound THEN "ended" ELSE "listening"]
  /\ UNCHANGED <<up, loops, acceptors, dial, port, peer, list, jobs>>

(* endpoint.accept().await: any client that was told this port.  The client *)
(* sends its request as soon as it is connected.                            *)
Pair(t, c) ==
  /\ up /\ task[t] = "listening"
  /\ dial[c] = "told" /\ port[c] = port[t]
  /\ task' = [task EXCEPT ![t] = "paired"]
  /\ peer' = [peer EXCEPT ![t] = c]
  /\ dial' = [dial EXCEPT ![c] = "open"]
  /\ call' = [call EXCEPT ![c] = "sent"]
  /\ UNCHANGED <<up, loops, acceptors, port, list, file, image, clash>>

(* The client dialled and was gone before the handshake ended.              *)
PairFails(t, c) ==
  /\ up /\ task[t] = "listening"
  /\ dial[c] = "over" /\ port[c] = port[t]
  /\ task' = [task EXCEPT ![t] = "ended"]
  /\ UNCHANGED <<up, loops, acceptors, dial, port, peer, list, jobs>>

(* transport_ends_vec.lock().await, push.                                   *)
Push(t) ==
  /\ up /\ task[t] = "paired"
  /\ serving # "pass"
  /\ ends' = ends \cup {peer[t]}
  /\ task' = [task EXCEPT ![t] = "ended"]
  /\ UNCHANGED <<up, loops, acceptors, dial, port, peer, contexts, looks, todo, jobs>>
-------------------------------------------------------------------------------
(* The serving loop: vec.retain(..) with both locks held.                   *)

BeginPass ==
  /\ up /\ leading /\ serving = "idle"
  /\ serving' = "pass"
  /\ todo' = ends
  /\ UNCHANGED <<up, leading, setup, ends, contexts, looks, jobs>>

(* is_active opens a stream; the client never accepts one, so none is ever  *)
(* given back.                                                              *)
MutIsActive(c) == dial[c] = "open" /\ looks[c] <= UniStreams
IsActive(c) == dial[c] = "open" /\ looks[c] < UniStreams

Keep(c) ==
  /\ up /\ c \in todo /\ IsActive(c)
  /\ looks' = [looks EXCEPT ![c] = @ + 1]
  /\ contexts' = contexts \cup {c}
  /\ todo' = todo \ {c}
  /\ UNCHANGED <<up, loops, setup, ends, jobs>>

(* Mutants of Remove: the context stays; a connection without one stays.    *)
MutKeepContext(c) ==
  /\ up /\ c \in todo /\ ~IsActive(c)
  /\ c \in contexts => c \notin Running /\ call[c] # "lost"
  /\ ends' = ends \ {c} /\ todo' = todo \ {c}
  /\ dial' = [dial EXCEPT ![c] = "over"]
  /\ UNCHANGED <<up, loops, acceptors, task, port, peer, contexts, looks, jobs>>

MutOnlyServed(c) ==
  /\ up /\ c \in todo /\ ~IsActive(c)
  /\ c \in contexts => c \notin Running /\ call[c] # "lost"
  /\ ends' = ends \ ({c} \cap contexts)
  /\ contexts' = contexts \ {c} /\ todo' = todo \ {c}
  /\ dial' = [dial EXCEPT ![c] = "over"]
  /\ UNCHANGED <<up, loops, acceptors, task, port, peer, looks, jobs>>

(* Dropping the context closes the connection and waits for the request     *)
(* that runs in it.                                                         *)
Remove(c) ==
  /\ up /\ c \in todo /\ ~IsActive(c)
  /\ c \in contexts => c \notin Running /\ call[c] # "lost"
  /\ ends' = ends \ {c}
  /\ contexts' = contexts \ {c}
  /\ todo' = todo \ {c}
  /\ dial' = [dial EXCEPT ![c] = "over"]
  /\ UNCHANGED <<up, loops, acceptors, task, port, peer, looks, jobs>>

(* Removed from the list, or dropped with the map.                          *)
Dropped(c) == (c \in todo /\ ~IsActive(c)) \/ serving = "dropping"

(* It waits half a second.  Then Server::shutdown panics, and the assertion *)
(* in Server::drop panics while that one unwinds: the process aborts.       *)
Abort(c) ==
  /\ up /\ Dropped(c)
  /\ c \in contexts /\ (c \in Running \/ call[c] = "lost")
  /\ up' = FALSE
  /\ acceptors' = 0
  /\ dial' = [d \in Client |-> IF dial[d] = "new" THEN "new" ELSE "over"]
  /\ task' = [t \in Client |-> IF task[t] = "none" THEN "none" ELSE "ended"]
  /\ ends' = {} /\ contexts' = {} /\ todo' = {}
  /\ call' = [d \in Client |-> IF d \in Running THEN "lost" ELSE call[d]]
  /\ UNCHANGED <<loops, port, peer, looks, file, image, clash>>

EndPass ==
  /\ up /\ serving = "pass" /\ todo = {}
  /\ serving' = "pause"
  /\ UNCHANGED <<up, leading, setup, list, jobs>>

(* The loop waits a second for Ctrl-C, then sleeps.                         *)
Wake ==
  /\ up /\ serving = "pause"
  /\ serving' = "idle"
  /\ UNCHANGED <<up, leading, setup, list, jobs>>

(* Ctrl-C ends the loop.  The process lives on, its contexts with it: main  *)
(* also waits for the node's task, which never ends.  The loop's task waits *)
(* for another Ctrl-C, and returns; the map goes, with its contexts.        *)
CtrlC ==
  /\ up
  /\ \/ serving = "pause" /\ serving' = "stopped"
     \/ serving = "stopped" /\ serving' = "dropping"
  /\ UNCHANGED <<up, leading, setup, list, jobs>>

DropContext(c) ==
  /\ up /\ serving = "dropping"
  /\ c \in contexts \ Running /\ call[c] # "lost"
  /\ contexts' = contexts \ {c}
  /\ dial' = [dial EXCEPT ![c] = "over"]
  /\ UNCHANGED <<up, loops, acceptors, task, port, peer, ends, looks, todo, jobs>>

(* The election (LeaderElection.tla).                                       *)
ChangeLeader ==
  /\ up
  /\ leading' = ~leading
  /\ UNCHANGED <<up, serving, setup, list, jobs>>
-------------------------------------------------------------------------------
(* A request: SomeImageSteganographer::encode, on a thread of the context.  *)
(* Another request to the same output file may run at the same time.        *)

Same(c) == {d \in Running \ {c} : OutputPath[d] = OutputPath[c]}

(* The secret is saved in a file with a name of its own, and hide() begins  *)
(* to write the output file; the last one to end has written it.            *)
BeginWrite(c) ==
  /\ up /\ c \in contexts /\ call[c] = "sent"
  /\ call' = [call EXCEPT ![c] = "writing"]
  /\ file' = [file EXCEPT ![OutputPath[c]] = Torn]
  /\ clash' = IF Same(c) = {} THEN clash ELSE clash \cup Same(c) \cup {c}
  /\ UNCHANGED <<up, loops, setup, list, image>>

EndWrite(c) ==
  /\ up /\ call[c] = "writing"
  /\ call' = [call EXCEPT ![c] = "written"]
  /\ file' = [file EXCEPT ![OutputPath[c]] = c]
  /\ UNCHANGED <<up, loops, setup, list, image, clash>>

(* Mutant of ReadBack: the file is read before it is written.               *)
MutReadFirst(c) ==
  /\ up /\ c \in contexts /\ call[c] = "sent"
  /\ file[OutputPath[c]] \in Client
  /\ image' = [image EXCEPT ![c] = file[OutputPath[c]]]
  /\ call' = [call EXCEPT ![c] = "answered"]
  /\ UNCHANGED <<up, loops, setup, list, file, clash>>

(* image::open(output_path).unwrap().                                       *)
ReadBack(c) ==
  /\ up /\ call[c] = "written"
  /\ \/ /\ file[OutputPath[c]] \in Client
        /\ image' = [image EXCEPT ![c] = file[OutputPath[c]]]
        /\ call' = [call EXCEPT ![c] = "answered"]
     \/ /\ file[OutputPath[c]] \notin Client
        /\ call' = [call EXCEPT ![c] = "lost"]
        /\ UNCHANGED image
  /\ UNCHANGED <<up, loops, setup, list, file, clash>>

(* use_media(carrier).unwrap().  No answer is sent, and the request is      *)
(* never counted down (RemoteCall.tla, Panic).                              *)
NoCarrier(c) ==
  /\ up /\ c \in contexts /\ call[c] = "sent" /\ c \in MayPanic
  /\ call' = [call EXCEPT ![c] = "lost"]
  /\ UNCHANGED <<up, loops, setup, list, file, image, clash>>

(* hide() panics, and leaves the file as it is.                             *)
HidePanics(c) ==
  /\ up /\ call[c] = "writing" /\ c \in MayPanic
  /\ call' = [call EXCEPT ![c] = "lost"]
  /\ UNCHANGED <<up, loops, setup, list, file, image, clash>>

(* encode returns Err, which is an answer, too: the secret cannot be saved, *)
(* or the image that was read cannot be encoded or the secret be removed.   *)
EncodeFails(c) ==
  /\ up
  /\ \/ c \in contexts /\ call[c] = "sent"
     \/ call[c] = "written" /\ file[OutputPath[c]] \in Client
  /\ call' = [call EXCEPT ![c] = "answered"]
  /\ UNCHANGED <<up, loops, setup, list, file, image, clash>>
-------------------------------------------------------------------------------
Job(c) ==
  \/ BeginWrite(c) \/ EndWrite(c) \/ ReadBack(c) \/ NoCarrier(c)
  \/ HidePanics(c) \/ EncodeFails(c)

Setup(t) ==
  \/ PickPort(t) \/ SendAddress(t) \/ Listen(t)
  \/ \E c \in Client : Pair(t, c) \/ PairFails(t, c)

Visit(c) == Keep(c) \/ Remove(c) \/ Abort(c)

Next ==
  \/ SpawnAcceptor \/ AcceptorTimesOut
  \/ BeginPass \/ EndPass \/ Wake \/ CtrlC \/ ChangeLeader
  \/ \E c \in Client :
       \/ Dial(c) \/ GiveUp(c) \/ CloseConnection(c)
       \/ Accept(c) \/ Setup(c) \/ Push(c) \/ Visit(c) \/ Job(c)
       \/ DropContext(c)

Spec == Init /\ [][Next]_vars

(* The loops and the threads of the contexts go on.  tokio's Mutex serves   *)
(* its waiters in order, so a task that waits for the list while passes     *)
(* come and go gets it.  Nothing is assumed of clients, of the election, of *)
(* the operator, or of accepting.                                           *)
Fairness ==
  /\ WF_vars(BeginPass) /\ WF_vars(EndPass) /\ WF_vars(Wake)
  /\ \A c \in Client : WF_vars(Visit(c)) /\ WF_vars(Job(c)) /\ SF_vars(Push(c))

FairSpec == Spec /\ Fairness
-------------------------------------------------------------------------------
(* Properties. *)

(* The list and the contexts stay together, although tasks push, the loop   *)
(* removes, and ports are handed out twice: every connection in the list is *)
(* the second one of exactly one accepting task, every context belongs to a *)
(* connection in the list, and no request runs outside a context, so that   *)
(* the process never serves a client it has forgotten.                      *)
ContextsTracked ==
  /\ contexts \subseteq ends
  /\ \A c \in ends : \E t \in Client : peer[t] = c /\ task[t] = "ended"
  /\ \A t, s \in Client : peer[t] \in Client /\ peer[t] = peer[s] => t = s
  /\ up => Running \subseteq contexts

(* The image a request gets back hides its own secret, unless another       *)
(* request to the same output file ran while it ran; and then nothing but   *)
(* the secret of such a request.                                            *)
OwnImage ==
  \A c \in Client :
    image[c] # NoClient =>
      \/ image[c] = c
      \/ {c, image[c]} \subseteq clash /\ OutputPath[image[c]] = OutputPath[c]

Idle == ~up \/ ~leading \/ serving \in {"stopped", "dropping"}

(* As long as the node leads and the serving loop runs, a request on an     *)
(* admitted connection is executed, and a dead connection is forgotten.     *)
LookedAfter ==
  \A c \in Client :
    /\ call[c] = "sent" ~> call[c] \in {"answered", "lost"} \/ dial[c] = "over" \/ Idle
    /\ (c \in ends /\ dial[c] = "over") ~> (c \notin ends \/ Idle)
===============================================================================
