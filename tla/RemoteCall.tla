------------------------------ MODULE RemoteCall ------------------------------
(***************************************************************************)
(* Method calls over one remote-trait-object connection: the two ends of   *)
(* src/client/remote-trait-object/src, each with a client (port/client.rs),*)
(* a server (port/server.rs), a multiplexer (transport/multiplex.rs) and a *)
(* thread pool.                                                            *)
(*                                                                         *)
(* A caller takes a call slot from a blocking queue, writes its number     *)
(* into the request and waits at the slot's own channel for the response.  *)
(* The other end's multiplexer hands the request to the server, which      *)
(* counts it and gives it to the thread pool; the response carries the     *)
(* slot number back, the request bit removed, and the first end's          *)
(* multiplexer and client put it into the channel of that slot.            *)
(*                                                                         *)
(* Methods may call back over the same connection while they run; a method *)
(* may panic; and the connection may close at any time.                    *)
(***************************************************************************)
EXTENDS Integers, Sequences, FiniteSets, Functions

CONSTANTS Call,       (* the method calls                                   *)
          NoCall,
          From,       (* From[c]: the end that makes the call, 1 or 2       *)
          Parent,     (* Parent[c]: the call whose method makes c, or NoCall*)
          MayPanic,   (* the calls whose method may panic                   *)
          MayClose,   (* whether the connection may close                   *)
          CallSlots,  (* Config.call_slots (512)                            *)
          PoolSize,   (* threads of Config.thread_pool (8)                  *)
          Indicator   (* SLOT_CALL_OR_RETURN_INDICATOR (2^31)               *)

End == {1, 2}
Other(e) == 3 - e
To(c) == Other(From[c])

ASSUME CallAssumption ==
  /\ NoCall \notin Call
  /\ From \in [Call -> End]
  /\ Parent \in [Call -> Call \cup {NoCall}]
  /\ \A c \in Call : Parent[c] # NoCall => From[c] = To(Parent[c])
  /\ MayPanic \subseteq Call
  /\ MayClose \in BOOLEAN
  /\ CallSlots \in Nat /\ PoolSize \in Nat /\ Indicator \in Nat
  /\ CallSlots <= Indicator

(* No call is nested in itself, at any depth: among finitely many calls one *)
(* is not the parent of any other.                                          *)
ASSUME NestingAssumption ==
  \A calls \in SUBSET Call :
    calls # {} /\ IsFiniteSet(calls) => \E c \in calls : \A d \in calls : Parent[d] # c
-------------------------------------------------------------------------------
(* Slots and packets.  Of a packet the slot field is kept, and the call it  *)
(* is about, which stands for the object, method, arguments and result.     *)

Slot == 0 .. CallSlots - 1
NoSlot == -1

Packet == [slot : 0 .. CallSlots + Indicator - 1, call : Call]

(* SlotId::into_request, change_to_response and get_type.                   *)
IntoRequest(s) == s + Indicator
MutOffByOne(s) == s - Indicator - 1
ChangeToResponse(s) == s - Indicator
IsRequest(p) == p.slot >= Indicator

Response(p) == [p EXCEPT !.slot = ChangeToResponse(@)]
-------------------------------------------------------------------------------
VARIABLES
  pc,          (* where the caller of each call is in Client::call           *)
  slot,        (* the call slot it holds, or NoSlot                          *)
  got,         (* the call whose response it has got, or NoCall              *)
  callSlots,   (* Client.call_slots of each end: a queue of free slots       *)
  reply,       (* reply[e][s]: the channel of slot s, of capacity 1          *)
  up,          (* whether the transport of each end still sends              *)
  wire,        (* wire[e]: the packets on their way to end e                 *)
  mux,         (* the thread of receiver_loop of each end                    *)
  requests,    (* its channel to the server, of capacity 1                   *)
  responses,   (* its channel to the client, of capacity 1                   *)
  server,      (* the thread of receiver of each end                         *)
  count,       (* the counter that thread shares with its jobs               *)
  jobs,        (* the thread pool's queue                                    *)
  running,     (* the requests whose method a pool thread is executing       *)
  leaving,     (* the requests answered but still to be counted down         *)
  client,      (* the thread of receive_loop of each end                     *)
  place        (* history: how far each call has got                         *)

callers == <<pc, slot, got, callSlots>>
channels == <<requests, responses, reply>>
pool == <<count, jobs, running, leaving>>
threads == <<mux, server, client>>
vars == <<callers, channels, up, wire, pool, threads, place>>

Place == {"none", "requestWire", "requestChannel", "jobQueue", "running",
          "responseWire", "responseChannel", "reply", "taken", "unsent",
          "panicked"}

TypeOK ==
  /\ pc \in [Call -> {"new", "slot", "waiting", "returned", "failed"}]
  /\ slot \in [Call -> Slot \cup {NoSlot}]
  /\ got \in [Call -> Call \cup {NoCall}]
  /\ callSlots \in [End -> Seq(Slot)]
  /\ reply \in [End -> [Slot -> Seq(Packet)]]
  /\ up \in [End -> BOOLEAN]
  /\ wire \in [End -> Seq(Packet)]
  /\ mux \in [End -> {"open", "closed"}]
  /\ requests \in [End -> Seq(Packet)]
  /\ responses \in [End -> Seq(Packet)]
  /\ server \in [End -> {"open", "draining", "done"}]
  /\ count \in [End -> Int]
  /\ jobs \in [End -> Seq(Packet)]
  /\ running \in [End -> SUBSET Packet]
  /\ leaving \in [End -> SUBSET Packet]
  /\ client \in [End -> {"open", "done"}]
  /\ place \in [Call -> Place]
-------------------------------------------------------------------------------
(* A call is made by a thread of the user or by the thread that executes    *)
(* another call's method, which makes one call after another and unwinds    *)
(* when one of them fails.                                                  *)
Siblings(c) == {d \in Call \ {c} : Parent[d] = Parent[c]}

MayCall(c) ==
  \/ Parent[c] = NoCall
  \/ /\ \E p \in running[From[c]] : p.call = Parent[c]
     /\ \A d \in Siblings(c) : pc[d] \in {"new", "returned"}

Children(c) == {d \in Call : Parent[d] = c}

Reached(c, where) == place' = [place EXCEPT ![c] = where]
-------------------------------------------------------------------------------
(* Client::call                                                             *)

(* call_slots.pop: take the slot that has been free for longest...          *)
TakeSlot(c) ==
  /\ pc[c] = "new" /\ MayCall(c)
  /\ callSlots[From[c]] # <<>>
  /\ slot' = [slot EXCEPT ![c] = Head(callSlots[From[c]])]
  /\ callSlots' = [callSlots EXCEPT ![From[c]] = Tail(@)]
  /\ pc' = [pc EXCEPT ![c] = "slot"]
  /\ UNCHANGED <<got, channels, up, wire, pool, threads, place>>

(* ... or panic when none becomes free within call_timeout.                 *)
TooManyCalls(c) ==
  /\ pc[c] = "new" /\ MayCall(c)
  /\ callSlots[From[c]] = <<>>
  /\ pc' = [pc EXCEPT ![c] = "failed"]
  /\ UNCHANGED <<slot, got, callSlots, channels, up, wire, pool, threads, place>>

(* transport_send.send: each packet is a QUIC stream, and streams are       *)
(* accepted in the order in which they were opened.                         *)
SendRequest(c) ==
  /\ pc[c] = "slot" /\ up[From[c]]
  /\ wire' = [wire EXCEPT ![To(c)] =
                Append(@, [slot |-> IntoRequest(slot[c]), call |-> c])]
  /\ pc' = [pc EXCEPT ![c] = "waiting"]
  /\ Reached(c, "requestWire")
  /\ UNCHANGED <<slot, got, callSlots, channels, up, pool, threads>>

(* On a closed connection send fails; the caller panics and its slot is     *)
(* dropped with it.                                                         *)
SendFails(c) ==
  /\ pc[c] = "slot" /\ ~ up[From[c]]
  /\ pc' = [pc EXCEPT ![c] = "failed"]
  /\ UNCHANGED <<slot, got, callSlots, channels, up, wire, pool, threads, place>>

(* slot.response.recv, without a timeout, then give the slot back.          *)
Return(c) ==
  LET e == From[c] s == slot[c] IN
  /\ pc[c] = "waiting" /\ reply[e][s] # <<>>
  /\ got' = [got EXCEPT ![c] = Head(reply[e][s]).call]
  /\ reply' = [reply EXCEPT ![e][s] = Tail(@)]
  /\ callSlots' = [callSlots EXCEPT ![e] = Append(@, s)]
  /\ slot' = [slot EXCEPT ![c] = NoSlot]
  /\ pc' = [pc EXCEPT ![c] = "returned"]
  /\ Reached(Head(reply[e][s]).call, "taken")
  /\ UNCHANGED <<requests, responses, up, wire, pool, threads>>

(* What a response timeout would do that drops the slot, or gives it back.  *)
MutTimeOutLosesSlot(c) ==
  /\ pc[c] = "waiting" /\ reply[From[c]][slot[c]] = <<>>
  /\ pc' = [pc EXCEPT ![c] = "failed"]
  /\ UNCHANGED <<slot, got, callSlots, channels, up, wire, pool, threads, place>>
MutTimeOut(c) ==
  /\ pc[c] = "waiting" /\ reply[From[c]][slot[c]] = <<>>
  /\ pc' = [pc EXCEPT ![c] = "failed"]
  /\ slot' = [slot EXCEPT ![c] = NoSlot]
  /\ callSlots' = [callSlots EXCEPT ![From[c]] = Append(@, slot[c])]
  /\ UNCHANGED <<got, channels, up, wire, pool, threads, place>>

(* The other ends of the slot channels are dropped when receive_loop ends:  *)
(* the caller panics.                                                       *)
Abort(c) ==
  /\ pc[c] = "waiting" /\ reply[From[c]][slot[c]] = <<>>
  /\ client[From[c]] = "done"
  /\ pc' = [pc EXCEPT ![c] = "failed"]
  /\ UNCHANGED <<slot, got, callSlots, channels, up, wire, pool, threads, place>>
-------------------------------------------------------------------------------
(* receiver_loop of the multiplexer: forward each packet, in order, and     *)
(* block while the channel it belongs to is full.                           *)
MutHasRoom(channel) == TRUE
HasRoom(channel) == channel = <<>>

Forward(e) ==
  LET p == Head(wire[e]) IN
  /\ mux[e] = "open" /\ wire[e] # <<>>
  /\ wire' = [wire EXCEPT ![e] = Tail(@)]
  /\ \/ /\ IsRequest(p) /\ HasRoom(requests[e])
        /\ requests' = [requests EXCEPT ![e] = <<p>>]
        /\ UNCHANGED responses
        /\ Reached(p.call, "requestChannel")
     \/ /\ ~ IsRequest(p) /\ HasRoom(responses[e])
        /\ responses' = [responses EXCEPT ![e] = <<p>>]
        /\ UNCHANGED requests
        /\ Reached(p.call, "responseChannel")
  /\ UNCHANGED <<callers, reply, up, pool, threads>>

(* The transport of an end is closed: by its own terminator, or because the *)
(* connection is lost or closed by the other end.                           *)
Close(e) ==
  /\ MayClose /\ up[e]
  /\ up' = [up EXCEPT ![e] = FALSE]
  /\ UNCHANGED <<callers, channels, wire, pool, threads, place>>

(* Packets received before may still be forwarded; then recv fails, the     *)
(* rest is lost, and the error goes to both channels, the server's first.   *)
MuxEnds(e) ==
  /\ mux[e] = "open" /\ ~ up[e]
  /\ mux' = [mux EXCEPT ![e] = "closed"]
  /\ wire' = [wire EXCEPT ![e] = <<>>]
  /\ UNCHANGED <<callers, channels, up, pool, server, client, place>>
-------------------------------------------------------------------------------
(* receiver of the server and the jobs of its thread pool.                  *)

CountUp(e) == count' = [count EXCEPT ![e] = @ + 1]

ReceiveRequest(e) ==
  /\ server[e] = "open" /\ requests[e] # <<>>
  /\ requests' = [requests EXCEPT ![e] = Tail(@)]
  /\ CountUp(e)
  /\ jobs' = [jobs EXCEPT ![e] = Append(@, Head(requests[e]))]
  /\ Reached(Head(requests[e]).call, "jobQueue")
  /\ UNCHANGED <<callers, responses, reply, up, wire, running, leaving, threads>>

(* A free thread of the pool takes the oldest job.                          *)
StartJob(e) ==
  /\ jobs[e] # <<>>
  /\ Cardinality(running[e] \cup leaving[e]) < PoolSize
  /\ jobs' = [jobs EXCEPT ![e] = Tail(@)]
  /\ running' = [running EXCEPT ![e] = @ \cup {Head(jobs[e])}]
  /\ Reached(Head(jobs[e]).call, "running")
  /\ UNCHANGED <<callers, channels, up, wire, count, leaving, threads>>

(* handle_single_call: the method is over and its response is sent, or      *)
(* cannot be sent because the connection is closed.                         *)
MutRespondEarly(e, p) ==
  /\ p \in running[e]
  /\ running' = [running EXCEPT ![e] = @ \ {p}]
  /\ leaving' = [leaving EXCEPT ![e] = @ \cup {p}]
  /\ \/ /\ up[e]
        /\ wire' = [wire EXCEPT ![Other(e)] = Append(@, Response(p))]
        /\ Reached(p.call, "responseWire")
     \/ /\ ~ up[e]
        /\ UNCHANGED wire
        /\ Reached(p.call, "unsent")
  /\ UNCHANGED <<callers, channels, up, count, jobs, threads>>
Respond(e, p) ==
  /\ p \in running[e]
  /\ \A d \in Children(p.call) : pc[d] \in {"new", "returned"}
  /\ running' = [running EXCEPT ![e] = @ \ {p}]
  /\ leaving' = [leaving EXCEPT ![e] = @ \cup {p}]
  /\ \/ /\ up[e]
        /\ wire' = [wire EXCEPT ![Other(e)] = Append(@, Response(p))]
        /\ Reached(p.call, "responseWire")
     \/ /\ ~ up[e]
        /\ UNCHANGED wire
        /\ Reached(p.call, "unsent")
  /\ UNCHANGED <<callers, channels, up, count, jobs, threads>>

MutCountIfSent(e) == count' = [count EXCEPT ![e] = IF up[e] THEN @ - 1 ELSE @]
CountDown(e) == count' = [count EXCEPT ![e] = @ - 1]

Leave(e, p) ==
  /\ p \in leaving[e]
  /\ leaving' = [leaving EXCEPT ![e] = @ \ {p}]
  /\ CountDown(e)
  /\ UNCHANGED <<callers, channels, up, wire, jobs, running, threads, place>>

(* The method panics, of itself or because a call it made has failed.  The  *)
(* pool replaces the thread; nothing is sent and the count stays.           *)
Panic(e, p) ==
  /\ p \in running[e]
  /\ \A d \in Children(p.call) : pc[d] \in {"new", "returned", "failed"}
  /\ p.call \in MayPanic \/ \E d \in Children(p.call) : pc[d] = "failed"
  /\ running' = [running EXCEPT ![e] = @ \ {p}]
  /\ Reached(p.call, "panicked")
  /\ UNCHANGED <<callers, channels, up, wire, count, jobs, leaving, threads>>

(* The error of the multiplexer is behind all requests in the channel.      *)
ServerBreaks(e) ==
  /\ server[e] = "open" /\ mux[e] = "closed" /\ requests[e] = <<>>
  /\ server' = [server EXCEPT ![e] = "draining"]
  /\ UNCHANGED <<callers, channels, up, wire, pool, mux, client, place>>

MutNoDrain(e) ==
  /\ server[e] = "draining"
  /\ server' = [server EXCEPT ![e] = "done"]
  /\ UNCHANGED <<callers, channels, up, wire, pool, mux, client, place>>
ServerEnds(e) ==
  /\ server[e] = "draining" /\ count[e] = 0
  /\ server' = [server EXCEPT ![e] = "done"]
  /\ UNCHANGED <<callers, channels, up, wire, pool, mux, client, place>>
-------------------------------------------------------------------------------
(* receive_loop of the client: put each response into its slot's channel,   *)
(* which blocks while that channel is full.                                 *)
ReceiveResponse(e) ==
  LET p == Head(responses[e]) IN
  /\ client[e] = "open" /\ responses[e] # <<>>
  /\ reply[e][p.slot] = <<>>
  /\ responses' = [responses EXCEPT ![e] = Tail(@)]
  /\ reply' = [reply EXCEPT ![e][p.slot] = <<p>>]
  /\ Reached(p.call, "reply")
  /\ UNCHANGED <<callers, requests, up, wire, pool, threads>>

MutErrorIgnored(e) == FALSE
ClientEnds(e) ==
  /\ client[e] = "open" /\ mux[e] = "closed"
  /\ requests[e] = <<>> /\ responses[e] = <<>>
  /\ client' = [client EXCEPT ![e] = "done"]
  /\ UNCHANGED <<callers, channels, up, wire, pool, mux, server, place>>
-------------------------------------------------------------------------------
Init ==
  /\ pc = [c \in Call |-> "new"]
  /\ slot = [c \in Call |-> NoSlot]
  /\ got = [c \in Call |-> NoCall]
  /\ callSlots = [e \in End |-> [i \in 1 .. CallSlots |-> i - 1]]
  /\ reply = [e \in End |-> [s \in Slot |-> <<>>]]
  /\ up = [e \in End |-> TRUE]
  /\ wire = [e \in End |-> <<>>]
  /\ mux = [e \in End |-> "open"]
  /\ requests = [e \in End |-> <<>>]
  /\ responses = [e \in End |-> <<>>]
  /\ server = [e \in End |-> "open"]
  /\ count = [e \in End |-> 0]
  /\ jobs = [e \in End |-> <<>>]
  /\ running = [e \in End |-> {}]
  /\ leaving = [e \in End |-> {}]
  /\ client = [e \in End |-> "open"]
  /\ place = [c \in Call |-> "none"]

Next ==
  \/ \E c \in Call :
       \/ TakeSlot(c) \/ TooManyCalls(c) \/ SendRequest(c) \/ SendFails(c)
       \/ Return(c) \/ Abort(c)
  \/ \E e \in End :
       \/ Forward(e) \/ Close(e) \/ MuxEnds(e)
       \/ ReceiveRequest(e) \/ StartJob(e) \/ ServerBreaks(e) \/ ServerEnds(e)
       \/ ReceiveResponse(e) \/ ClientEnds(e)
       \/ \E p \in running[e] \cup leaving[e] :
            Respond(e, p) \/ Leave(e, p) \/ Panic(e, p)

Spec == Init /\ [][Next]_vars

(* The threads keep running, methods end, and a connection closed at one    *)
(* end becomes known at the other.  A caller need not make a call, a method *)
(* need not panic, and the connection need not close.                       *)
RespondTo(c) ==
  \E p \in running[To(c)] : p.call = c /\ Respond(To(c), p)
LeaveFrom(c) == \E p \in leaving[To(c)] : p.call = c /\ Leave(To(c), p)
UnwindFrom(c) ==
  /\ \E d \in Children(c) : pc[d] = "failed"
  /\ \E p \in running[To(c)] : p.call = c /\ Panic(To(c), p)

Fairness ==
  /\ \A c \in Call :
       /\ WF_vars(SendRequest(c)) /\ WF_vars(SendFails(c))
       /\ WF_vars(Return(c)) /\ WF_vars(Abort(c))
       /\ WF_vars(RespondTo(c)) /\ WF_vars(UnwindFrom(c))
       /\ WF_vars(LeaveFrom(c))
  /\ \A e \in End :
       /\ WF_vars(Forward(e)) /\ WF_vars(MuxEnds(e))
       /\ WF_vars(~ up[Other(e)] /\ Close(e))
       /\ WF_vars(ReceiveRequest(e)) /\ WF_vars(StartJob(e))
       /\ WF_vars(ServerBreaks(e)) /\ WF_vars(ServerEnds(e))
       /\ WF_vars(ReceiveResponse(e)) /\ WF_vars(ClientEnds(e))

FairSpec == Spec /\ Fairness
-------------------------------------------------------------------------------
(* Properties.                                                              *)

Holds(c) == slot[c] # NoSlot
Holders(e) == {c \in Call : From[c] = e /\ Holds(c)}

(* A caller gets the response to its own call, although slots are used      *)
(* again, responses come in any order, and a packet says nothing but its    *)
(* slot number about whom it is for.                                        *)
OwnResponse == \A c \in Call : pc[c] = "returned" => got[c] = c

(* No slot is held twice, or free while held; none is lost as long as the   *)
(* transport sends; and together the free and the held ones are all there.  *)
SlotsConserved ==
  \A e \in End :
    /\ \A c, d \in Holders(e) : slot[c] = slot[d] => c = d
    /\ \A c \in Holders(e) :
         /\ slot[c] \notin Range(callSlots[e])
         /\ up[e] => pc[c] # "failed"
    /\ IsInjective(callSlots[e])
    /\ Range(callSlots[e]) \cup {slot[c] : c \in Holders(e)} = Slot

(* receive_loop never blocks and never finds its slot's receiver dropped    *)
(* ("Slot receivers are managed in Client"): a response is for a call that  *)
(* still waits, at a channel that is empty.  Were it not so, the client     *)
(* would stop, then the multiplexer, and with it the requests behind.       *)
ReplyFindsCaller ==
  \A e \in End :
    client[e] = "open" /\ responses[e] # <<>> =>
      LET p == Head(responses[e]) IN
        /\ From[p.call] = e /\ pc[p.call] = "waiting" /\ slot[p.call] = p.slot
        /\ reply[e][p.slot] = <<>>

(* The caller and the packet of each call, and the threads of each end.     *)
CallerInv ==
  \A c \in Call :
    /\ pc[c] = "new" => slot[c] = NoSlot
    /\ pc[c] \in {"new", "slot"} => place[c] = "none"
    /\ pc[c] \in {"slot", "waiting"} => slot[c] \in Slot
    /\ pc[c] = "waiting" => place[c] \notin {"none", "taken"}
    /\ pc[c] = "returned" => slot[c] = NoSlot /\ place[c] = "taken" /\ got[c] = c
    /\ pc[c] = "failed" /\ place[c] # "none" => client[From[c]] = "done"

ThreadInv ==
  \A e \in End :
    /\ mux[e] = "closed" => ~ up[e]
    /\ client[e] = "done" => mux[e] = "closed"
    /\ server[e] # "open" => mux[e] = "closed" /\ requests[e] = <<>>

RequestAt(p, e, where) ==
  /\ To(p.call) = e /\ place[p.call] = where /\ pc[p.call] \in {"waiting", "failed"}
  /\ slot[p.call] \in Slot /\ p.slot = IntoRequest(slot[p.call])
ResponseAt(p, e, where) ==
  /\ From[p.call] = e /\ place[p.call] = where /\ pc[p.call] \in {"waiting", "failed"}
  /\ slot[p.call] \in Slot /\ p.slot = slot[p.call]

(* The places of a call that has no response yet.                           *)
Waiting == {"none", "requestWire", "requestChannel", "jobQueue", "running",
            "panicked"}

Once(s) == \A i, j \in DOMAIN s : s[i].call = s[j].call => i = j

(* A call is in one place at a time, as one packet, which bears the slot    *)
(* its caller still holds: neither a request nor a response is doubled, and *)
(* a slot is not given back while a packet bears it.                        *)
PacketsOf(e) ==
  /\ \A p \in Range(wire[e]) :
       \/ RequestAt(p, e, "requestWire") \/ ResponseAt(p, e, "responseWire")
  /\ \A p \in Range(requests[e]) : RequestAt(p, e, "requestChannel")
  /\ \A p \in Range(jobs[e]) : RequestAt(p, e, "jobQueue")
  /\ \A p \in running[e] : RequestAt(p, e, "running")
  /\ \A p \in leaving[e] : To(p.call) = e /\ place[p.call] \notin Waiting
  /\ \A p \in Range(responses[e]) : ResponseAt(p, e, "responseChannel")
  /\ \A s \in Slot : \A p \in Range(reply[e][s]) :
       ResponseAt(p, e, "reply") /\ p.slot = s
  /\ Once(wire[e]) /\ Once(jobs[e])
  /\ Len(requests[e]) <= 1 /\ Len(responses[e]) <= 1
  /\ \A s \in Slot : Len(reply[e][s]) <= 1

PacketInv == \A e \in End : PacketsOf(e)

(* Nothing is lost while the connection works: the packet of a call whose   *)
(* answer is still out is where the call has got to, and only packets on    *)
(* the wire to a multiplexer that has ended are gone.                       *)
IsIn(c, packets) == \E p \in packets : p.call = c
Present(c) ==
  /\ place[c] = "requestWire" /\ mux[To(c)] = "open" => IsIn(c, Range(wire[To(c)]))
  /\ place[c] = "requestChannel" => IsIn(c, Range(requests[To(c)]))
  /\ place[c] = "jobQueue" => IsIn(c, Range(jobs[To(c)]))
  /\ place[c] = "running" => IsIn(c, running[To(c)])
  /\ place[c] = "unsent" => ~ up[To(c)]
  /\ place[c] = "responseWire" /\ mux[From[c]] = "open" =>
       IsIn(c, Range(wire[From[c]]))
  /\ place[c] = "responseChannel" => IsIn(c, Range(responses[From[c]]))
  /\ place[c] = "reply" => \E s \in Slot : IsIn(c, Range(reply[From[c]][s]))
NothingLost == \A c \in Call : Present(c)

(* What the threads of the library, of the pool and of the callers can do.  *)
Active(c) == pc[c] \in {"slot", "waiting"}
CallerGoesOn(c) ==
  \/ pc[c] = "slot"
  \/ pc[c] = "waiting" /\ (reply[From[c]][slot[c]] # <<>> \/ client[From[c]] = "done")
LibraryGoesOn(e) ==
  \/ /\ mux[e] = "open" /\ wire[e] # <<>>
     /\ HasRoom(IF IsRequest(Head(wire[e])) THEN requests[e] ELSE responses[e])
  \/ mux[e] = "open" /\ ~ up[e]
  \/ MayClose /\ up[e] /\ ~ up[Other(e)]
  \/ server[e] = "open" /\ requests[e] # <<>>
  \/ /\ client[e] = "open" /\ responses[e] # <<>>
     /\ reply[e][Head(responses[e]).slot] = <<>>
  \/ client[e] = "open" /\ mux[e] = "closed" /\ requests[e] = <<>> /\ responses[e] = <<>>
PoolGoesOn(e) ==
  \/ jobs[e] # <<>> /\ Cardinality(running[e] \cup leaving[e]) < PoolSize
  \/ leaving[e] # {}
  \/ \E p \in running[e] : \A d \in Children(p.call) : ~ Active(d)

(* A call hangs for two reasons only: a method has panicked and its caller  *)
(* waits; or every thread of a pool executes a method that waits for a call *)
(* it has made, and there are jobs for which no thread is left.             *)
Hangs(c) == pc[c] = "waiting" /\ place[c] = "panicked"
Starved(e) ==
  /\ jobs[e] # <<>> /\ Cardinality(running[e]) >= PoolSize
  /\ \A p \in running[e] : \E d \in Children(p.call) : Active(d)
CallsMove ==
  (\E c \in Call : Active(c)) =>
    \/ \E c \in Call : CallerGoesOn(c) \/ Hangs(c)
    \/ \E e \in End : LibraryGoesOn(e) \/ PoolGoesOn(e) \/ Starved(e)

Panicked(e) == {c \in Call : To(c) = e /\ place[c] = "panicked"}

(* The count is that of the jobs not yet over, and of all that panicked.    *)
CountIsJobs ==
  \A e \in End :
    count[e] = Len(jobs[e]) + Cardinality(running[e]) + Cardinality(leaving[e])
               + Cardinality(Panicked(e))

(* When the server thread has ended, no job runs or waits and none will;    *)
(* so none has panicked, else the thread spins for ever.                    *)
ServerEndsIdle ==
  \A e \in End :
    server[e] = "done" =>
      /\ requests[e] = <<>> /\ jobs[e] = <<>>
      /\ running[e] = {} /\ leaving[e] = {} /\ Panicked(e) = {}

(* The connection does for its users what Invocation promises.              *)
CallerState(c) ==
  CASE pc[c] = "new" -> "idle"
    [] pc[c] \in {"slot", "waiting"} -> "calling"
    [] OTHER -> pc[c]
MethodState(c) ==
  CASE place[c] \in {"none", "requestWire", "requestChannel", "jobQueue"} -> "none"
    [] place[c] \in {"running", "panicked"} -> place[c]
    [] OTHER -> "ended"
Promise == INSTANCE Invocation WITH
  caller <- [c \in Call |-> CallerState(c)],
  method <- [c \in Call |-> MethodState(c)]
KeepsPromise == Promise!Spec

(* Every call ends, one way or the other.  context.rs:50-51 says so of all  *)
(* calls ("will have this timeout. If it exceeds, it will cause an error"), *)
(* but nothing bounds the wait for the response.                            *)
EveryCallEnds ==
  \A c \in Call : pc[c] = "slot" ~> pc[c] \in {"returned", "failed"}

(* Once the transport is closed the server thread ends: server.rs:52 gives  *)
(* Server::shutdown half a second for it "when transport_recv is closed".   *)
ServerShutsDown == \A e \in End : ~ up[e] ~> server[e] = "done"

(* It does, whether or not the last responses can be sent, unless a method  *)
(* has panicked or was unwound by a nested call that failed.                *)
ServerEndsUnlessPanicked ==
  \A e \in End : ~ up[e] ~> server[e] = "done" \/ Panicked(e) # {}
===============================================================================
