--------------------------- MODULE RemoteCallProofs ---------------------------
(***************************************************************************)
(* Theorems about RemoteCall, for any calls, any nesting of them, any      *)
(* number of call slots and of pool threads.                               *)
(***************************************************************************)
EXTENDS RemoteCall, QueueProofs, FiniteSetTheorems

-------------------------------------------------------------------------------
(* A queue of packets of different calls stays one.                          *)

LEMMA AppendOnce ==
  ASSUME NEW S, NEW s \in Seq(S), NEW x \in S, Once(s),
         \A p \in Range(s) : p.call # x.call
  PROVE  Once(Append(s, x))
  <1> DEFINE t == Append(s, x)
  <1>1. /\ Len(s) \in Nat
        /\ DOMAIN s = 1 .. Len(s) /\ DOMAIN t = 1 .. Len(s) + 1
        /\ \A i \in 1 .. Len(s) : t[i] = s[i]
        /\ t[Len(s) + 1] = x
    OBVIOUS
  <1> HIDE DEF t
  <1>2. \A i \in 1 .. Len(s) : t[i].call # x.call
    BY <1>1 DEF Range
  <1>3. Once(t)
    BY <1>1, <1>2 DEF Once
  <1> QED
    BY <1>3 DEF t

LEMMA TailOnce ==
  ASSUME NEW S, NEW s \in Seq(S), s # <<>>, Once(s)
  PROVE  /\ Once(Tail(s))
         /\ \A p \in Range(Tail(s)) : p.call # Head(s).call
  <1> DEFINE t == Tail(s)
  <1>1. /\ Len(s) \in Nat \ {0}
        /\ DOMAIN s = 1 .. Len(s) /\ DOMAIN t = 1 .. Len(s) - 1
        /\ \A i \in 1 .. Len(s) - 1 : t[i] = s[i + 1]
        /\ Head(s) = s[1]
    OBVIOUS
  <1> HIDE DEF t
  <1>2. \A i, j \in 1 .. Len(s) - 1 : t[i].call = t[j].call => i + 1 = j + 1
    BY <1>1 DEF Once
  <1>3. Once(t)
    BY <1>1, <1>2 DEF Once
  <1>4. \A i \in 1 .. Len(s) - 1 : t[i].call # s[1].call
    BY <1>1 DEF Once
  <1>5. \A p \in Range(t) : p.call # Head(s).call
    BY <1>1, <1>4 DEF Range
  <1> QED
    BY <1>3, <1>5 DEF t

-------------------------------------------------------------------------------
(* The invariant that is inductive, and that all theorems rest on.          *)
Inv == TypeOK /\ CallerInv /\ ThreadInv /\ PacketInv /\ SlotsConserved

LEMMA Ends == /\ \A e \in End : Other(e) \in End /\ Other(e) # e /\ Other(Other(e)) = e
              /\ \A c \in Call : From[c] \in End /\ To(c) \in End /\ From[c] = Other(To(c))
  BY CallAssumption DEF End, Other, To

LEMMA EndUpdate ==
  ASSUME NEW f \in [End -> Seq(Packet)], NEW e \in End, NEW x \in Seq(Packet)
  PROVE  /\ [f EXCEPT ![e] = x] \in [End -> Seq(Packet)]
         /\ \A d \in End : [f EXCEPT ![e] = x][d] = IF d = e THEN x ELSE f[d]
  OBVIOUS

(* Slots, packets, and the fields of what is sent.                          *)
LEMMA SlotNumbers ==
  /\ \A s \in Slot : /\ s \in Int /\ 0 <= s /\ s < Indicator /\ s # NoSlot
                     /\ ChangeToResponse(IntoRequest(s)) = s
                     /\ \A c \in Call : /\ [slot |-> IntoRequest(s), call |-> c] \in Packet
                                        /\ [slot |-> s, call |-> c] \in Packet
  /\ \A p \in Packet : p.call \in Call
  /\ \A p \in Packet : \A s \in Slot :
       p.slot = IntoRequest(s) => /\ IsRequest(p) /\ Response(p) \in Packet
                                  /\ Response(p).call = p.call /\ Response(p).slot = s
  /\ \A p \in Packet : \A s \in Slot : p.slot = s => ~ IsRequest(p)
  BY CallAssumption DEF Slot, NoSlot, ChangeToResponse, IntoRequest, Packet, IsRequest, Response

(* Nothing about slots changes unless a caller takes or returns one.        *)
LEMMA SlotsKept ==
  ASSUME SlotsConserved, UNCHANGED <<slot, callSlots>>,
         \A e \in End : up'[e] => up[e],
         \A c \in Call : pc'[c] = "failed" /\ slot[c] # NoSlot
                           => pc[c] = "failed" \/ ~ up'[From[c]]
  PROVE  SlotsConserved'
  BY DEF SlotsConserved, Holders, Holds, IsInjective

LEMMA Types ==
  ASSUME Inv, NEW e \in End
  PROVE  /\ wire[e] \in Seq(Packet) /\ jobs[e] \in Seq(Packet)
         /\ requests[e] \in Seq(Packet) /\ responses[e] \in Seq(Packet)
         /\ callSlots[e] \in Seq(Slot)
         /\ running[e] \subseteq Packet /\ leaving[e] \subseteq Packet
         /\ \A s \in Slot : reply[e][s] \in Seq(Packet)
         /\ Range(wire[e]) \subseteq Packet /\ Range(jobs[e]) \subseteq Packet
         /\ Range(requests[e]) \subseteq Packet
         /\ Range(responses[e]) \subseteq Packet
         /\ \A s \in Slot : Range(reply[e][s]) \subseteq Packet
  <1>1. /\ wire[e] \in Seq(Packet) /\ jobs[e] \in Seq(Packet)
        /\ requests[e] \in Seq(Packet) /\ responses[e] \in Seq(Packet)
        /\ callSlots[e] \in Seq(Slot)
        /\ running[e] \subseteq Packet /\ leaving[e] \subseteq Packet
        /\ \A s \in Slot : reply[e][s] \in Seq(Packet)
    BY DEF Inv, TypeOK
  <1> QED
    BY <1>1, MembersOf

(* A step that moves one call only.                                         *)
Steady(c) ==
  \A d \in Call \ {c} :
    place'[d] = place[d] /\ pc'[d] = pc[d] /\ slot'[d] = slot[d]

(* The packets of all other calls are where they were, and so is that of c  *)
(* nowhere but at place[c].                                                 *)
LEMMA OthersStay ==
  ASSUME Inv, NEW c \in Call, Steady(c), NEW f \in End
  PROVE  /\ \A q \in Range(wire[f]) :
              q.call # c \/ place[c] \notin {"requestWire", "responseWire"} =>
                q.call # c /\ (RequestAt(q, f, "requestWire")' \/ ResponseAt(q, f, "responseWire")')
         /\ \A q \in Range(requests[f]) :
              q.call # c \/ place[c] # "requestChannel" =>
                q.call # c /\ RequestAt(q, f, "requestChannel")'
         /\ \A q \in Range(responses[f]) :
              q.call # c \/ place[c] # "responseChannel" =>
                q.call # c /\ ResponseAt(q, f, "responseChannel")'
         /\ \A q \in Range(jobs[f]) :
              q.call # c \/ place[c] # "jobQueue" =>
                q.call # c /\ RequestAt(q, f, "jobQueue")'
         /\ \A q \in running[f] :
              q.call # c \/ place[c] # "running" =>
                q.call # c /\ RequestAt(q, f, "running")'
         /\ \A s \in Slot : \A q \in Range(reply[f][s]) :
              q.call # c \/ place[c] # "reply" =>
                q.call # c /\ ResponseAt(q, f, "reply")' /\ q.slot = s
  <1>1. ASSUME NEW q \in Packet, NEW w, q.call # c
        PROVE  /\ RequestAt(q, f, w) => RequestAt(q, f, w)'
               /\ ResponseAt(q, f, w) => ResponseAt(q, f, w)'
    BY <1>1, SlotNumbers DEF Steady, RequestAt, ResponseAt
  <1>2. ASSUME NEW q \in Packet, NEW w, place[c] # w, RequestAt(q, f, w) \/ ResponseAt(q, f, w)
        PROVE  q.call # c
    BY <1>2 DEF RequestAt, ResponseAt
  <1>3. PacketsOf(f)
    BY DEF Inv, PacketInv
  <1>4. ASSUME NEW q \in Range(wire[f]),
               q.call # c \/ place[c] \notin {"requestWire", "responseWire"}
        PROVE  q.call # c /\ (RequestAt(q, f, "requestWire")' \/ ResponseAt(q, f, "responseWire")')
    <2>1. RequestAt(q, f, "requestWire") \/ ResponseAt(q, f, "responseWire")
      BY <1>3 DEF PacketsOf
    <2>2. q \in Packet
      BY Types
    <2>3. q.call # c
      BY <1>4, <2>1, <2>2, <1>2
    <2> QED
      BY <2>1, <2>2, <2>3, <1>1
  <1>5. /\ \A q \in Range(requests[f]) : q \in Packet /\ RequestAt(q, f, "requestChannel")
        /\ \A q \in Range(responses[f]) : q \in Packet /\ ResponseAt(q, f, "responseChannel")
        /\ \A q \in Range(jobs[f]) : q \in Packet /\ RequestAt(q, f, "jobQueue")
        /\ \A q \in running[f] : q \in Packet /\ RequestAt(q, f, "running")
        /\ \A s \in Slot : \A q \in Range(reply[f][s]) :
              q \in Packet /\ ResponseAt(q, f, "reply") /\ q.slot = s
    BY <1>3, Types DEF PacketsOf
  <1> QED
    BY <1>1, <1>2, <1>4, <1>5

(* A place of packets after a step that moves call c: either it is as       *)
(* before and c was elsewhere, or each of its packets was there before and  *)
(* is not that of c, or belongs there now.                                  *)
WireMoves(c, f) ==
  \/ wire'[f] = wire[f] /\ place[c] \notin {"requestWire", "responseWire"}
  \/ /\ Once(wire'[f])
     /\ \A q \in Range(wire'[f]) :
          \/ /\ q \in Range(wire[f])
             /\ q.call # c \/ place[c] \notin {"requestWire", "responseWire"}
          \/ RequestAt(q, f, "requestWire")' \/ ResponseAt(q, f, "responseWire")'
RequestsMove(c, f) ==
  \/ requests'[f] = requests[f] /\ place[c] # "requestChannel"
  \/ /\ Len(requests'[f]) <= 1
     /\ \A q \in Range(requests'[f]) : RequestAt(q, f, "requestChannel")'
ResponsesMove(c, f) ==
  \/ responses'[f] = responses[f] /\ place[c] # "responseChannel"
  \/ /\ Len(responses'[f]) <= 1
     /\ \A q \in Range(responses'[f]) : ResponseAt(q, f, "responseChannel")'
JobsMove(c, f) ==
  \/ jobs'[f] = jobs[f] /\ place[c] # "jobQueue"
  \/ /\ Once(jobs'[f])
     /\ \A q \in Range(jobs'[f]) :
          \/ q \in Range(jobs[f]) /\ (q.call # c \/ place[c] # "jobQueue")
          \/ RequestAt(q, f, "jobQueue")'
RunningMoves(c, f) ==
  \/ running'[f] = running[f] /\ place[c] # "running"
  \/ \A q \in running'[f] :
       \/ q \in running[f] /\ (q.call # c \/ place[c] # "running")
       \/ RequestAt(q, f, "running")'
ReplyMoves(c, f) ==
  \/ reply'[f] = reply[f] /\ place[c] # "reply"
  \/ \A s \in Slot :
       \/ reply'[f][s] = reply[f][s] /\ place[c] # "reply"
       \/ /\ Len(reply'[f][s]) <= 1
          /\ \A q \in Range(reply'[f][s]) :
               \/ q \in Range(reply[f][s]) /\ q.call # c
               \/ ResponseAt(q, f, "reply")' /\ q.slot = s
LeavingMoves(c, f) ==
  /\ place[c] \in Waiting \/ place'[c] \notin Waiting
  /\ \A q \in leaving'[f] :
       \/ q \in leaving[f]
       \/ q.call = c /\ To(c) = f /\ place'[c] \notin Waiting

LEMMA PacketsMove ==
  ASSUME Inv, NEW c \in Call, Steady(c), NEW f \in End,
         WireMoves(c, f), RequestsMove(c, f), ResponsesMove(c, f),
         JobsMove(c, f), RunningMoves(c, f), ReplyMoves(c, f), LeavingMoves(c, f)
  PROVE  PacketsOf(f)'
  <1>1. PacketsOf(f)
    BY DEF Inv, PacketInv
  <1>2. \A q \in leaving'[f] : To(q.call) = f /\ place'[q.call] \notin Waiting
    <2>1. \A q \in leaving[f] :
             q.call \in Call /\ To(q.call) = f /\ place[q.call] \notin Waiting
      BY Types, SlotNumbers, <1>1 DEF PacketsOf
    <2> QED
      BY <2>1 DEF Steady, LeavingMoves
  <1>3. /\ \A q \in Range(wire'[f]) :
             RequestAt(q, f, "requestWire")' \/ ResponseAt(q, f, "responseWire")'
        /\ Once(wire'[f])
    BY <1>1, OthersStay DEF WireMoves, PacketsOf
  <1>4. /\ \A q \in Range(requests'[f]) : RequestAt(q, f, "requestChannel")'
        /\ Len(requests'[f]) <= 1
    BY <1>1, OthersStay DEF RequestsMove, PacketsOf
  <1>5. /\ \A q \in Range(responses'[f]) : ResponseAt(q, f, "responseChannel")'
        /\ Len(responses'[f]) <= 1
    BY <1>1, OthersStay DEF ResponsesMove, PacketsOf
  <1>6. (\A q \in Range(jobs'[f]) : RequestAt(q, f, "jobQueue")') /\ Once(jobs'[f])
    BY <1>1, OthersStay DEF JobsMove, PacketsOf
  <1>7. \A q \in running'[f] : RequestAt(q, f, "running")'
    BY OthersStay DEF RunningMoves
  <1>8. ASSUME NEW s \in Slot
        PROVE  /\ Len(reply'[f][s]) <= 1
               /\ \A q \in Range(reply'[f][s]) : ResponseAt(q, f, "reply")' /\ q.slot = s
    BY <1>1, OthersStay DEF ReplyMoves, PacketsOf
  <1> QED
    BY <1>2, <1>3, <1>4, <1>5, <1>6, <1>7, <1>8 DEF PacketsOf

(* The packets after a step that moves none but may drop some.              *)
LEMMA PacketsKept ==
  ASSUME Inv, UNCHANGED <<slot, place>>, NEW f \in End,
         \A d \in Call : pc[d] \in {"waiting", "failed"} => pc'[d] \in {"waiting", "failed"},
         wire'[f] = wire[f] \/ wire'[f] = <<>>,
         leaving'[f] \subseteq leaving[f],
         requests'[f] = requests[f], responses'[f] = responses[f],
         jobs'[f] = jobs[f], running'[f] = running[f], reply'[f] = reply[f]
  PROVE  PacketsOf(f)'
  <1>1. ASSUME NEW q \in Packet, NEW w
        PROVE  /\ RequestAt(q, f, w) => RequestAt(q, f, w)'
               /\ ResponseAt(q, f, w) => ResponseAt(q, f, w)'
    BY <1>1, SlotNumbers DEF RequestAt, ResponseAt
  <1>3. PacketsOf(f)
    BY DEF Inv, PacketInv
  <1>2. Range(wire'[f]) \subseteq Range(wire[f]) /\ Once(wire'[f])
    <2>1. Range(<<>>) = {} /\ Once(<<>>)
      BY DEF Once, Range
    <2> QED
      BY <2>1, <1>3 DEF PacketsOf
  <1> QED
    BY <1>1, <1>2, <1>3, Types DEF PacketsOf

(* The caller of the packet that moves.                                     *)
LEMMA CallerMoves ==
  ASSUME Inv, NEW c \in Call, NEW w \in Place \ {"none", "taken"},
         pc[c] \in {"waiting", "failed"}, place[c] # "none",
         place' = [place EXCEPT ![c] = w], UNCHANGED <<pc, slot, got, client>>
  PROVE  CallerInv' /\ Steady(c) /\ place' \in [Call -> Place] /\ place'[c] = w
  <1>1. place \in [Call -> Place]
    BY DEF Inv, TypeOK
  <1>2. Steady(c) /\ place' \in [Call -> Place] /\ place'[c] = w
    BY <1>1 DEF Steady
  <1>3. CallerInv'
    BY <1>2 DEF Inv, CallerInv, Steady
  <1> QED
    BY <1>2, <1>3
-------------------------------------------------------------------------------
(* The invariant is preserved by every action.                              *)

LEMMA ForwardInv ==
  ASSUME Inv, NEW e \in End, Forward(e)
  PROVE  Inv'
  <1>1. wire[e] \in Seq(Packet) /\ wire[e] # <<>> /\ Once(wire[e])
    BY DEF Inv, TypeOK, PacketInv, PacketsOf, Forward
  <1>2. PICK p \in Packet :
          /\ p = Head(wire[e]) /\ p \in Range(wire[e])
          /\ Tail(wire[e]) \in Seq(Packet)
          /\ Range(Tail(wire[e])) \subseteq Range(wire[e])
          /\ Once(Tail(wire[e]))
          /\ \A q \in Range(Tail(wire[e])) : q.call # p.call
    BY <1>1, TailMembers, TailOnce
  <1>3. \/ RequestAt(p, e, "requestWire") \/ ResponseAt(p, e, "responseWire")
    BY <1>2 DEF Inv, PacketInv, PacketsOf
  <1>4. p.call \in Call /\ <<p>> \in Seq(Packet)
    BY <1>2, SlotNumbers
  <1>5. /\ wire' = [wire EXCEPT ![e] = Tail(wire[e])]
        /\ \/ /\ IsRequest(p) /\ RequestAt(p, e, "requestWire")
              /\ requests' = [requests EXCEPT ![e] = <<p>>] /\ responses' = responses
              /\ place' = [place EXCEPT ![p.call] = "requestChannel"]
           \/ /\ ~ IsRequest(p) /\ ResponseAt(p, e, "responseWire")
              /\ responses' = [responses EXCEPT ![e] = <<p>>] /\ requests' = requests
              /\ place' = [place EXCEPT ![p.call] = "responseChannel"]
        /\ UNCHANGED <<pc, slot, got, callSlots, reply, up, mux, server, client>>
        /\ UNCHANGED <<count, jobs, running, leaving>>
        /\ mux[e] = "open"
    BY <1>2, <1>3, SlotNumbers
    DEF Forward, Reached, RequestAt, ResponseAt, callers, threads, pool
  <1>7. CallerInv' /\ Steady(p.call) /\ place' \in [Call -> Place]
        /\ place'[p.call] \in {"requestChannel", "responseChannel"}
    BY <1>3, <1>4, <1>5, CallerMoves DEF RequestAt, ResponseAt, Place
  <1>8. /\ wire \in [End -> Seq(Packet)] /\ requests \in [End -> Seq(Packet)]
        /\ responses \in [End -> Seq(Packet)] /\ place \in [Call -> Place]
    BY DEF Inv, TypeOK
  <1>9. TypeOK'
    <2>1. wire' \in [End -> Seq(Packet)]
      BY <1>2, <1>5, <1>8, EndUpdate
    <2>2. [requests EXCEPT ![e] = <<p>>] \in [End -> Seq(Packet)]
      BY <1>4, <1>8, EndUpdate
    <2>3. [responses EXCEPT ![e] = <<p>>] \in [End -> Seq(Packet)]
      BY <1>4, <1>8, EndUpdate
    <2>4. requests' \in [End -> Seq(Packet)] /\ responses' \in [End -> Seq(Packet)]
      BY <1>5, <1>8, <2>2, <2>3
    <2> QED
      BY <1>5, <1>7, <2>1, <2>4 DEF Inv, TypeOK
  <1>10. ThreadInv'
    BY <1>5, <1>8 DEF Inv, ThreadInv
  <1>11. SlotsConserved'
    BY <1>5, SlotsKept DEF Inv
  <1>12. PacketInv'
    <2> SUFFICES ASSUME NEW f \in End PROVE PacketsOf(f)'
      BY DEF PacketInv
    <2>1. PacketsOf(f)
      BY DEF Inv, PacketInv
    <2>2. wire'[f] = IF f = e THEN Tail(wire[e]) ELSE wire[f]
      BY <1>5, <1>8
    <2>3. place[p.call] \in {"requestWire", "responseWire"}
      BY <1>3 DEF RequestAt, ResponseAt
    <2>4. WireMoves(p.call, f)
      <3>1. CASE f = e
        BY <3>1, <1>2, <2>2 DEF WireMoves
      <3>2. CASE f # e
        <4>1. ASSUME NEW q \in Range(wire[f]) PROVE q.call # p.call
          <5>1. RequestAt(q, f, "requestWire") \/ ResponseAt(q, f, "responseWire")
            BY <2>1 DEF PacketsOf
          <5> QED
            BY <5>1, <3>2, <1>3, <1>4, Ends DEF RequestAt, ResponseAt
        <4> QED
          BY <4>1, <3>2, <2>1, <2>2 DEF WireMoves, PacketsOf
      <3> QED
        BY <3>1, <3>2
    <2>5. RequestsMove(p.call, f)
      <3>1. CASE requests'[f] = requests[f]
        BY <3>1, <2>3 DEF RequestsMove
      <3>2. CASE requests'[f] # requests[f]
        <4>1. /\ f = e /\ requests'[f] = <<p>> /\ RequestAt(p, e, "requestWire")
              /\ place' = [place EXCEPT ![p.call] = "requestChannel"]
          BY <3>2, <1>5, <1>8
        <4>2. RequestAt(p, f, "requestChannel")'
          BY <4>1, <1>4, <1>5, <1>8 DEF RequestAt
        <4>3. Range(requests'[f]) = {p} /\ Len(requests'[f]) = 1
          BY <4>1, MembersOfOne
        <4> QED
          BY <4>2, <4>3 DEF RequestsMove
      <3> QED
        BY <3>1, <3>2
    <2>6. ResponsesMove(p.call, f)
      <3>1. CASE responses'[f] = responses[f]
        BY <3>1, <2>3 DEF ResponsesMove
      <3>2. CASE responses'[f] # responses[f]
        <4>1. /\ f = e /\ responses'[f] = <<p>> /\ ResponseAt(p, e, "responseWire")
              /\ place' = [place EXCEPT ![p.call] = "responseChannel"]
          BY <3>2, <1>5, <1>8
        <4>2. ResponseAt(p, f, "responseChannel")'
          BY <4>1, <1>4, <1>5, <1>8 DEF ResponseAt
        <4>3. Range(responses'[f]) = {p} /\ Len(responses'[f]) = 1
          BY <4>1, MembersOfOne
        <4> QED
          BY <4>2, <4>3 DEF ResponsesMove
      <3> QED
        BY <3>1, <3>2
    <2>7. JobsMove(p.call, f) /\ RunningMoves(p.call, f) /\ ReplyMoves(p.call, f)
      BY <1>5, <2>3 DEF JobsMove, RunningMoves, ReplyMoves
    <2>8. LeavingMoves(p.call, f)
      BY <1>4, <1>5, <1>8 DEF LeavingMoves, Waiting, RequestAt, ResponseAt
    <2> QED
      BY <1>4, <1>7, <2>4, <2>5, <2>6, <2>7, <2>8, PacketsMove
  <1> QED
    BY <1>7, <1>9, <1>10, <1>11, <1>12 DEF Inv

(* A step of a caller whose packet has not been sent.                       *)
LEMMA UnsentKeepsPackets ==
  ASSUME Inv, NEW c \in Call, Steady(c), place[c] = "none",
         UNCHANGED <<wire, requests, responses, jobs, running, reply, leaving>>
  PROVE  PacketInv'
  <1> SUFFICES ASSUME NEW f \in End PROVE PacketsOf(f)'
    BY DEF PacketInv
  <1>1. /\ WireMoves(c, f) /\ RequestsMove(c, f) /\ ResponsesMove(c, f)
        /\ JobsMove(c, f) /\ RunningMoves(c, f) /\ ReplyMoves(c, f)
    BY DEF WireMoves, RequestsMove, ResponsesMove, JobsMove, RunningMoves, ReplyMoves
  <1>2. LeavingMoves(c, f)
    BY DEF LeavingMoves, Waiting
  <1> QED
    BY <1>1, <1>2, PacketsMove

LEMMA TakeSlotInv ==
  ASSUME Inv, NEW c \in Call, TakeSlot(c)
  PROVE  Inv'
  <1> DEFINE e == From[c]
  <1>1. e \in End
    BY Ends
  <1>2. callSlots[e] \in Seq(Slot) /\ callSlots[e] # <<>> /\ IsInjective(callSlots[e])
    BY <1>1 DEF Inv, TypeOK, SlotsConserved, TakeSlot
  <1>3. PICK s \in Slot :
          /\ s = Head(callSlots[e]) /\ s \in Range(callSlots[e])
          /\ Tail(callSlots[e]) \in Seq(Slot) /\ IsInjective(Tail(callSlots[e]))
          /\ s \notin Range(Tail(callSlots[e]))
          /\ Range(callSlots[e]) = Range(Tail(callSlots[e])) \cup {s}
    BY <1>2, TailMembers, TailDistinct
  <1>4. /\ slot \in [Call -> Slot \cup {NoSlot}] /\ callSlots \in [End -> Seq(Slot)]
        /\ pc \in [Call -> {"new", "slot", "waiting", "returned", "failed"}]
    BY DEF Inv, TypeOK
  <1>5. /\ slot' = [slot EXCEPT ![c] = s] /\ pc' = [pc EXCEPT ![c] = "slot"]
        /\ callSlots' = [callSlots EXCEPT ![e] = Tail(callSlots[e])]
        /\ pc[c] = "new"
        /\ UNCHANGED <<got, up, mux, server, client, place>>
        /\ UNCHANGED <<wire, requests, responses, reply>>
        /\ UNCHANGED <<count, jobs, running, leaving>>
    BY <1>3 DEF TakeSlot, channels, pool, threads
  <1>6. Steady(c) /\ slot[c] = NoSlot /\ place[c] = "none" /\ s # NoSlot
    BY <1>4, <1>5, SlotNumbers DEF Inv, CallerInv, Steady
  <1>7. TypeOK'
    <2>1. slot' \in [Call -> Slot \cup {NoSlot}]
      BY <1>4, <1>5
    <2>2. callSlots' \in [End -> Seq(Slot)]
      BY <1>1, <1>3, <1>4, <1>5
    <2>3. pc' \in [Call -> {"new", "slot", "waiting", "returned", "failed"}]
      BY <1>4, <1>5
    <2> QED
      BY <1>5, <2>1, <2>2, <2>3 DEF Inv, TypeOK
  <1>8. CallerInv'
    BY <1>4, <1>5, <1>6 DEF Inv, CallerInv
  <1>9. ThreadInv'
    BY <1>5 DEF Inv, ThreadInv
  <1>10. PacketInv'
    BY <1>5, <1>6, UnsentKeepsPackets
  <1>11. SlotsConserved'
    <2> SUFFICES ASSUME NEW f \in End
                 PROVE  /\ \A b, d \in Holders(f)' : slot'[b] = slot'[d] => b = d
                        /\ \A d \in Holders(f)' :
                             /\ slot'[d] \notin Range(callSlots'[f])
                             /\ up'[f] => pc'[d] # "failed"
                        /\ IsInjective(callSlots'[f])
                        /\ Range(callSlots'[f]) \cup {slot'[d] : d \in Holders(f)'} = Slot
      BY DEF SlotsConserved
    <2>1. /\ \A b, d \in Holders(f) : slot[b] = slot[d] => b = d
          /\ \A d \in Holders(f) :
               /\ slot[d] \notin Range(callSlots[f])
               /\ up[f] => pc[d] # "failed"
          /\ IsInjective(callSlots[f])
          /\ Range(callSlots[f]) \cup {slot[d] : d \in Holders(f)} = Slot
      BY DEF Inv, SlotsConserved
    <2>2. CASE f # e
      <3>1. Holders(f)' = Holders(f) /\ c \notin Holders(f) /\ callSlots'[f] = callSlots[f]
        BY <2>2, <1>1, <1>4, <1>5 DEF Holders, Holds
      <3>2. \A d \in Holders(f) : slot'[d] = slot[d] /\ pc'[d] = pc[d]
        BY <3>1, <1>6 DEF Steady, Holders
      <3> QED
        BY <2>1, <3>1, <3>2, <1>5
    <2>3. CASE f = e
      <3>1. Holders(f)' = Holders(f) \cup {c} /\ c \notin Holders(f)
        BY <2>3, <1>4, <1>5, <1>6 DEF Holders, Holds
      <3>2. \A d \in Holders(f) : slot'[d] = slot[d] /\ pc'[d] = pc[d]
        BY <3>1, <1>6 DEF Steady, Holders
      <3>3. slot'[c] = s /\ pc'[c] = "slot" /\ callSlots'[f] = Tail(callSlots[e])
        BY <2>3, <1>1, <1>4, <1>5
      <3>4. s \in Range(callSlots[f]) /\ s \notin Range(callSlots'[f])
            /\ IsInjective(callSlots'[f])
            /\ Range(callSlots[f]) = Range(callSlots'[f]) \cup {s}
        BY <2>3, <3>3, <1>3
      <3>5. {slot'[d] : d \in Holders(f)'} = {slot[d] : d \in Holders(f)} \cup {s}
        BY <3>1, <3>2, <3>3
      <3> HIDE DEF e
      <3>6. \A d \in Holders(f) : slot'[d] # s /\ slot'[d] \notin Range(callSlots'[f])
        BY <2>1, <3>2, <3>4
      <3>7. \A b, d \in Holders(f)' : slot'[b] = slot'[d] => b = d
        BY <2>1, <3>1, <3>2, <3>3, <3>6
      <3> QED
        BY <2>1, <3>1, <3>2, <3>3, <3>4, <3>5, <3>6, <3>7, <1>5
    <2> QED
      BY <2>2, <2>3
  <1> QED
    BY <1>7, <1>8, <1>9, <1>10, <1>11 DEF Inv

(* A caller that gives up keeps its slot, if it has one, for ever.          *)
LEMMA FailInv ==
  ASSUME Inv, NEW c \in Call, TooManyCalls(c) \/ SendFails(c) \/ Abort(c)
  PROVE  Inv'
  <1>1. /\ pc' = [pc EXCEPT ![c] = "failed"]
        /\ UNCHANGED <<slot, got, callSlots, up, mux, server, client, place>>
        /\ UNCHANGED <<wire, requests, responses, reply>>
        /\ UNCHANGED <<count, jobs, running, leaving>>
    BY DEF TooManyCalls, SendFails, Abort, channels, pool, threads
  <1>2. \/ pc[c] = "new"
        \/ pc[c] = "slot" /\ ~ up[From[c]]
        \/ pc[c] = "waiting" /\ client[From[c]] = "done"
    BY DEF TooManyCalls, SendFails, Abort
  <1>3. pc \in [Call -> {"new", "slot", "waiting", "returned", "failed"}]
    BY DEF Inv, TypeOK
  <1>4. TypeOK'
    BY <1>1, <1>3 DEF Inv, TypeOK
  <1>5. CallerInv'
    BY <1>1, <1>2, <1>3 DEF Inv, CallerInv
  <1>6. ThreadInv'
    BY <1>1 DEF Inv, ThreadInv
  <1>7. SlotsConserved'
    <2>1. \A d \in Call : pc'[d] = "failed" /\ slot[d] # NoSlot
                            => pc[d] = "failed" \/ ~ up'[From[d]]
      <3>1. pc[c] = "new" => slot[c] = NoSlot
        BY DEF Inv, CallerInv
      <3>2. client[From[c]] = "done" => ~ up[From[c]]
        BY Ends DEF Inv, ThreadInv
      <3> QED
        BY <1>1, <1>2, <1>3, <3>1, <3>2
    <2> QED
      BY <1>1, <2>1, SlotsKept DEF Inv
  <1>8. PacketInv'
    <2>1. CASE pc[c] \in {"new", "slot"}
      <3>1. place[c] = "none" /\ Steady(c)
        BY <2>1, <1>1, <1>3 DEF Inv, CallerInv, Steady
      <3> QED
        BY <1>1, <3>1, UnsentKeepsPackets
    <2>2. CASE pc[c] = "waiting"
      <3>1. \A d \in Call : pc[d] \in {"waiting", "failed"} => pc'[d] \in {"waiting", "failed"}
        BY <1>1, <1>3
      <3> QED
        BY <1>1, <3>1, PacketsKept DEF PacketInv
    <2> QED
      BY <1>2, <2>1, <2>2
  <1> QED
    BY <1>4, <1>5, <1>6, <1>7, <1>8 DEF Inv

LEMMA SendRequestInv ==
  ASSUME Inv, NEW c \in Call, SendRequest(c)
  PROVE  Inv'
  <1>1. /\ wire \in [End -> Seq(Packet)] /\ place \in [Call -> Place]
        /\ pc \in [Call -> {"new", "slot", "waiting", "returned", "failed"}]
    BY DEF Inv, TypeOK
  <1>2. pc[c] = "slot" /\ up[From[c]] /\ slot[c] \in Slot /\ place[c] = "none" /\ To(c) \in End
    BY Ends DEF SendRequest, Inv, CallerInv
  <1>3. PICK p \in Packet : p = [slot |-> IntoRequest(slot[c]), call |-> c]
    BY <1>2, SlotNumbers
  <1>4. p.slot = IntoRequest(slot[c]) /\ p.call = c
    BY <1>3
  <1>5. /\ pc' = [pc EXCEPT ![c] = "waiting"] /\ place' = [place EXCEPT ![c] = "requestWire"]
        /\ wire' = [wire EXCEPT ![To(c)] = Append(wire[To(c)], p)]
        /\ UNCHANGED <<slot, got, callSlots, up, mux, server, client>>
        /\ UNCHANGED <<requests, responses, reply>>
        /\ UNCHANGED <<count, jobs, running, leaving>>
    BY <1>3 DEF SendRequest, Reached, channels, pool, threads
  <1>6. Steady(c) /\ pc'[c] = "waiting" /\ place'[c] = "requestWire"
    BY <1>1, <1>5 DEF Steady
  <1>7. wire[To(c)] \in Seq(Packet) /\ Append(wire[To(c)], p) \in Seq(Packet)
        /\ Range(Append(wire[To(c)], p)) = Range(wire[To(c)]) \cup {p}
    BY <1>1, <1>2, AppendMembers
  <1>8. TypeOK'
    <2>1. wire' \in [End -> Seq(Packet)]
      BY <1>1, <1>2, <1>5, <1>7, EndUpdate
    <2>2. place' \in [Call -> Place] /\ pc' \in [Call -> {"new", "slot", "waiting", "returned", "failed"}]
      BY <1>1, <1>5 DEF Place
    <2> QED
      BY <1>5, <2>1, <2>2 DEF Inv, TypeOK
  <1>9. CallerInv'
    BY <1>2, <1>5, <1>6 DEF Inv, CallerInv, Steady
  <1>10. ThreadInv'
    BY <1>5 DEF Inv, ThreadInv
  <1>11. SlotsConserved'
    BY <1>1, <1>5, SlotsKept DEF Inv
  <1>12. PacketInv'
    <2> SUFFICES ASSUME NEW f \in End PROVE PacketsOf(f)'
      BY DEF PacketInv
    <2>1. /\ RequestsMove(c, f) /\ ResponsesMove(c, f)
          /\ JobsMove(c, f) /\ RunningMoves(c, f) /\ ReplyMoves(c, f)
      BY <1>2, <1>5 DEF RequestsMove, ResponsesMove, JobsMove, RunningMoves, ReplyMoves
    <2>2. LeavingMoves(c, f)
      BY <1>2, <1>5 DEF LeavingMoves, Waiting
    <2>3. WireMoves(c, f)
      <3>1. CASE f # To(c)
        BY <3>1, <1>1, <1>2, <1>5 DEF WireMoves
      <3>2. CASE f = To(c)
        <4>1. \A q \in Range(wire[f]) : q.call # p.call
          BY <1>2, <1>4, <1>6, OthersStay
        <4>2. Once(wire[f])
          BY DEF Inv, PacketInv, PacketsOf
        <4>3. Once(Append(wire[f], p))
          BY <3>2, <1>7, <4>1, <4>2, AppendOnce
        <4>4. RequestAt(p, f, "requestWire")'
          BY <3>2, <1>2, <1>4, <1>5, <1>6 DEF RequestAt, To
        <4>5. wire'[f] = Append(wire[f], p)
          BY <3>2, <1>1, <1>2, <1>5
        <4> QED
          BY <3>2, <1>2, <1>7, <4>3, <4>4, <4>5 DEF WireMoves
      <3> QED
        BY <3>1, <3>2
    <2> QED
      BY <1>6, <2>1, <2>2, <2>3, PacketsMove
  <1> QED
    BY <1>8, <1>9, <1>10, <1>11, <1>12 DEF Inv

(* The response in the channel of a slot is that of the slot's holder.      *)
LEMMA ReplyIsOwn ==
  ASSUME Inv, NEW c \in Call, pc[c] = "waiting", NEW p \in Range(reply[From[c]][slot[c]])
  PROVE  p.call = c /\ place[c] = "reply"
  <1>1. slot[c] \in Slot /\ From[c] \in End
    BY Ends DEF Inv, CallerInv
  <1>2. p \in Packet /\ p.call \in Call
    BY <1>1, Types, SlotNumbers
  <1>3. ResponseAt(p, From[c], "reply") /\ p.slot = slot[c]
    BY <1>1 DEF Inv, PacketInv, PacketsOf
  <1>4. p.call \in Holders(From[c]) /\ c \in Holders(From[c]) /\ slot[p.call] = slot[c]
    BY <1>1, <1>2, <1>3, SlotNumbers DEF Holders, Holds, ResponseAt
  <1>5. p.call = c
    BY <1>1, <1>4 DEF Inv, SlotsConserved
  <1> QED
    BY <1>3, <1>5 DEF ResponseAt

LEMMA ReturnInv ==
  ASSUME Inv, NEW c \in Call, Return(c)
  PROVE  Inv'
  <1>1. PICK e \in End : e = From[c]
    BY Ends
  <1>2. PICK s \in Slot : s = slot[c] /\ s # NoSlot
    BY SlotNumbers DEF Inv, CallerInv, Return
  <1>3. /\ pc[c] = "waiting" /\ reply[e][s] # <<>> /\ reply[e][s] \in Seq(Packet)
        /\ Len(reply[e][s]) <= 1
    BY <1>1, <1>2, Types DEF Return, Inv, PacketInv, PacketsOf
  <1>4. Tail(reply[e][s]) = <<>> /\ Head(reply[e][s]) \in Range(reply[e][s])
    BY <1>3, TailMembers
  <1>5. Head(reply[e][s]).call = c /\ place[c] = "reply"
    BY <1>1, <1>2, <1>3, <1>4, ReplyIsOwn
  <1>6. /\ got' = [got EXCEPT ![c] = c] /\ reply' = [reply EXCEPT ![e][s] = <<>>]
        /\ callSlots' = [callSlots EXCEPT ![e] = Append(callSlots[e], s)]
        /\ slot' = [slot EXCEPT ![c] = NoSlot] /\ pc' = [pc EXCEPT ![c] = "returned"]
        /\ place' = [place EXCEPT ![c] = "taken"]
        /\ UNCHANGED <<up, wire, requests, responses, mux, server, client>>
        /\ UNCHANGED <<count, jobs, running, leaving>>
    BY <1>1, <1>2, <1>4, <1>5 DEF Return, Reached, pool, threads
  <1>7. /\ slot \in [Call -> Slot \cup {NoSlot}] /\ callSlots \in [End -> Seq(Slot)]
        /\ pc \in [Call -> {"new", "slot", "waiting", "returned", "failed"}]
        /\ got \in [Call -> Call \cup {NoCall}] /\ place \in [Call -> Place]
        /\ reply \in [End -> [Slot -> Seq(Packet)]]
    BY DEF Inv, TypeOK
  <1>8. Steady(c) /\ slot'[c] = NoSlot /\ pc'[c] = "returned" /\ place'[c] = "taken" /\ got'[c] = c
    BY <1>6, <1>7 DEF Steady
  <1>9. /\ callSlots[e] \in Seq(Slot) /\ Append(callSlots[e], s) \in Seq(Slot)
        /\ Range(Append(callSlots[e], s)) = Range(callSlots[e]) \cup {s}
    BY <1>7, AppendMembers
  <1>10. \A f \in End : \A t \in Slot :
            reply'[f][t] = IF f = e /\ t = s THEN <<>> ELSE reply[f][t]
    BY <1>6, <1>7
  <1>11. TypeOK'
    <2>1. callSlots' \in [End -> Seq(Slot)]
      BY <1>6, <1>7, <1>9
    <2>2. slot' \in [Call -> Slot \cup {NoSlot}] /\ got' \in [Call -> Call \cup {NoCall}]
      BY <1>6, <1>7
    <2>3. place' \in [Call -> Place] /\ pc' \in [Call -> {"new", "slot", "waiting", "returned", "failed"}]
      BY <1>6, <1>7 DEF Place
    <2>4. reply' \in [End -> [Slot -> Seq(Packet)]]
      <3>1. <<>> \in Seq(Packet)
        OBVIOUS
      <3> QED
        BY <3>1, <1>6, <1>7
    <2> QED
      BY <1>6, <2>1, <2>2, <2>3, <2>4 DEF Inv, TypeOK
  <1>12. CallerInv'
    BY <1>6, <1>8 DEF Inv, CallerInv, Steady
  <1>13. ThreadInv'
    BY <1>6 DEF Inv, ThreadInv
  <1>14. SlotsConserved'
    <2> SUFFICES ASSUME NEW f \in End
                 PROVE  /\ \A b, d \in Holders(f)' : slot'[b] = slot'[d] => b = d
                        /\ \A d \in Holders(f)' :
                             /\ slot'[d] \notin Range(callSlots'[f])
                             /\ up'[f] => pc'[d] # "failed"
                        /\ IsInjective(callSlots'[f])
                        /\ Range(callSlots'[f]) \cup {slot'[d] : d \in Holders(f)'} = Slot
      BY DEF SlotsConserved
    <2>1. /\ \A b, d \in Holders(f) : slot[b] = slot[d] => b = d
          /\ \A d \in Holders(f) :
               /\ slot[d] \notin Range(callSlots[f])
               /\ up[f] => pc[d] # "failed"
          /\ IsInjective(callSlots[f])
          /\ Range(callSlots[f]) \cup {slot[d] : d \in Holders(f)} = Slot
      BY DEF Inv, SlotsConserved
    <2>2. CASE f # e
      <3>1. Holders(f)' = Holders(f) /\ c \notin Holders(f) /\ callSlots'[f] = callSlots[f]
        BY <2>2, <1>1, <1>6, <1>7 DEF Holders, Holds
      <3>2. \A d \in Holders(f) : slot'[d] = slot[d] /\ pc'[d] = pc[d]
        BY <3>1, <1>8 DEF Steady, Holders
      <3> QED
        BY <2>1, <3>1, <3>2, <1>6
    <2>3. CASE f = e
      <3>1. Holders(f)' = Holders(f) \ {c} /\ c \in Holders(f)
        BY <2>3, <1>1, <1>2, <1>6, <1>7 DEF Holders, Holds
      <3>2. \A d \in Holders(f) \ {c} : slot'[d] = slot[d] /\ pc'[d] = pc[d] /\ slot[d] # s
        BY <2>1, <3>1, <1>2, <1>8 DEF Steady, Holders
      <3>3. callSlots'[f] = Append(callSlots[e], s) /\ s \notin Range(callSlots[f])
        BY <2>1, <2>3, <3>1, <1>2, <1>6, <1>7
      <3>4. IsInjective(callSlots'[f])
        BY <2>1, <2>3, <3>3, <1>9, AppendDistinct
      <3>5. Range(callSlots'[f]) = Range(callSlots[f]) \cup {s}
        BY <2>3, <3>3, <1>9
      <3>6. {slot[d] : d \in Holders(f)} = {slot'[d] : d \in Holders(f)'} \cup {s}
        BY <3>1, <3>2, <1>2
      <3> QED
        BY <2>1, <3>1, <3>2, <3>4, <3>5, <3>6, <1>6
    <2> QED
      BY <2>2, <2>3
  <1>15. PacketInv'
    <2> SUFFICES ASSUME NEW f \in End PROVE PacketsOf(f)'
      BY DEF PacketInv
    <2>1. /\ RequestsMove(c, f) /\ ResponsesMove(c, f)
          /\ JobsMove(c, f) /\ RunningMoves(c, f) /\ WireMoves(c, f)
      BY <1>5, <1>6 DEF RequestsMove, ResponsesMove, JobsMove, RunningMoves, WireMoves
    <2>2. LeavingMoves(c, f)
      BY <1>6, <1>8 DEF LeavingMoves, Waiting
    <2>3. ReplyMoves(c, f)
      <3> SUFFICES ASSUME NEW t \in Slot
                   PROVE  /\ Len(reply'[f][t]) <= 1
                          /\ \A q \in Range(reply'[f][t]) :
                               q \in Range(reply[f][t]) /\ q.call # c
        BY DEF ReplyMoves
      <3>1. CASE f = e /\ t = s
        BY <3>1, <1>10, MembersOfNone
      <3>2. CASE ~ (f = e /\ t = s)
        <4>1. reply'[f][t] = reply[f][t] /\ Len(reply[f][t]) <= 1
          BY <3>2, <1>10 DEF Inv, PacketInv, PacketsOf
        <4>2. ASSUME NEW q \in Range(reply[f][t]) PROVE q.call # c
          <5>1. ResponseAt(q, f, "reply") /\ q.slot = t
            BY DEF Inv, PacketInv, PacketsOf
          <5> QED
            BY <5>1, <3>2, <1>1, <1>2 DEF ResponseAt
        <4> QED
          BY <4>1, <4>2
      <3> QED
        BY <3>1, <3>2
    <2> QED
      BY <1>8, <2>1, <2>2, <2>3, PacketsMove
  <1> QED
    BY <1>11, <1>12, <1>13, <1>14, <1>15 DEF Inv

(* The steps that move no packet: some end a thread, close an end, drop     *)
(* what was on its way, or count down.                                      *)
LEMMA CloseInv ==
  ASSUME Inv, NEW e \in End, Close(e)
  PROVE  Inv'
  <1>1. /\ up' = [up EXCEPT ![e] = FALSE]
        /\ UNCHANGED <<pc, slot, got, callSlots, mux, server, client, place>>
        /\ UNCHANGED <<wire, requests, responses, reply>>
        /\ UNCHANGED <<count, jobs, running, leaving>>
    BY DEF Close, callers, channels, pool, threads
  <1>2. up \in [End -> BOOLEAN]
    BY DEF Inv, TypeOK
  <1>3. TypeOK' /\ CallerInv'
    BY <1>1, <1>2 DEF Inv, TypeOK, CallerInv
  <1>4. \A f \in End : up'[f] => up[f]
    BY <1>1, <1>2
  <1>5. ThreadInv'
    BY <1>1, <1>4 DEF Inv, ThreadInv
  <1>6. SlotsConserved'
    BY <1>1, <1>4, SlotsKept DEF Inv
  <1>7. PacketInv'
    BY <1>1, PacketsKept DEF PacketInv
  <1> QED
    BY <1>3, <1>5, <1>6, <1>7 DEF Inv

LEMMA MuxEndsInv ==
  ASSUME Inv, NEW e \in End, MuxEnds(e)
  PROVE  Inv'
  <1>1. /\ mux' = [mux EXCEPT ![e] = "closed"] /\ wire' = [wire EXCEPT ![e] = <<>>]
        /\ mux[e] = "open" /\ ~ up[e]
        /\ UNCHANGED <<pc, slot, got, callSlots, up, server, client, place>>
        /\ UNCHANGED <<requests, responses, reply>>
        /\ UNCHANGED <<count, jobs, running, leaving>>
    BY DEF MuxEnds, callers, channels, pool
  <1>2. wire \in [End -> Seq(Packet)] /\ mux \in [End -> {"open", "closed"}]
    BY DEF Inv, TypeOK
  <1>3. TypeOK'
    <2>1. <<>> \in Seq(Packet)
      OBVIOUS
    <2>2. wire' \in [End -> Seq(Packet)] /\ mux' \in [End -> {"open", "closed"}]
      BY <1>1, <1>2, <2>1
    <2> QED
      BY <1>1, <2>2 DEF Inv, TypeOK
  <1>4. CallerInv'
    BY <1>1 DEF Inv, CallerInv
  <1>5. ThreadInv'
    BY <1>1, <1>2 DEF Inv, ThreadInv
  <1>6. SlotsConserved'
    BY <1>1, SlotsKept DEF Inv
  <1>7. PacketInv'
    <2>1. \A f \in End : wire'[f] = wire[f] \/ wire'[f] = <<>>
      BY <1>1, <1>2
    <2> QED
      BY <1>1, <2>1, PacketsKept DEF PacketInv
  <1> QED
    BY <1>3, <1>4, <1>5, <1>6, <1>7 DEF Inv

LEMMA ThreadEndsInv ==
  ASSUME Inv, NEW e \in End, ServerBreaks(e) \/ ServerEnds(e) \/ ClientEnds(e)
  PROVE  Inv'
  <1>1. /\ UNCHANGED <<pc, slot, got, callSlots, up, mux, place>>
        /\ UNCHANGED <<wire, requests, responses, reply>>
        /\ UNCHANGED <<count, jobs, running, leaving>>
    BY DEF ServerBreaks, ServerEnds, ClientEnds, callers, channels, pool
  <1>2. /\ server \in [End -> {"open", "draining", "done"}]
        /\ client \in [End -> {"open", "done"}]
    BY DEF Inv, TypeOK
  <1>3. /\ \/ server' = server
           \/ server' = [server EXCEPT ![e] = "draining"] /\ mux[e] = "closed" /\ requests[e] = <<>>
           \/ server' = [server EXCEPT ![e] = "done"] /\ server[e] = "draining"
        /\ \/ client' = client
           \/ client' = [client EXCEPT ![e] = "done"] /\ mux[e] = "closed"
    BY DEF ServerBreaks, ServerEnds, ClientEnds
  <1>4. TypeOK'
    <2>1. /\ server' \in [End -> {"open", "draining", "done"}]
          /\ client' \in [End -> {"open", "done"}]
      BY <1>2, <1>3
    <2> QED
      BY <1>1, <2>1 DEF Inv, TypeOK
  <1>5. CallerInv'
    <2>1. \A f \in End : client[f] = "done" => client'[f] = "done"
      BY <1>2, <1>3
    <2> QED
      BY <1>1, <2>1, Ends DEF Inv, CallerInv
  <1>6. ThreadInv'
    BY <1>1, <1>2, <1>3 DEF Inv, ThreadInv
  <1>7. SlotsConserved'
    BY <1>1, SlotsKept DEF Inv
  <1>8. PacketInv'
    BY <1>1, PacketsKept DEF PacketInv
  <1> QED
    BY <1>4, <1>5, <1>6, <1>7, <1>8 DEF Inv

LEMMA LeaveInv ==
  ASSUME Inv, NEW e \in End, NEW p, Leave(e, p)
  PROVE  Inv'
  <1>1. /\ leaving' = [leaving EXCEPT ![e] = @ \ {p}]
        /\ count' = [count EXCEPT ![e] = @ - 1]
        /\ UNCHANGED <<pc, slot, got, callSlots, up, mux, server, client, place>>
        /\ UNCHANGED <<wire, requests, responses, reply, jobs, running>>
    BY DEF Leave, CountDown, callers, channels, threads
  <1>2. leaving \in [End -> SUBSET Packet] /\ count \in [End -> Int]
    BY DEF Inv, TypeOK
  <1>3. TypeOK'
    <2>1. leaving' \in [End -> SUBSET Packet] /\ count' \in [End -> Int]
      BY <1>1, <1>2
    <2> QED
      BY <1>1, <2>1 DEF Inv, TypeOK
  <1>4. CallerInv' /\ ThreadInv'
    BY <1>1 DEF Inv, CallerInv, ThreadInv
  <1>5. SlotsConserved'
    BY <1>1, SlotsKept DEF Inv
  <1>6. PacketInv'
    <2>1. \A f \in End : leaving'[f] \subseteq leaving[f]
      BY <1>1, <1>2
    <2> QED
      BY <1>1, <2>1, PacketsKept DEF PacketInv
  <1> QED
    BY <1>3, <1>4, <1>5, <1>6 DEF Inv

(* The steps of the server and its jobs.                                    *)
LEMMA ReceiveRequestInv ==
  ASSUME Inv, NEW e \in End, ReceiveRequest(e)
  PROVE  Inv'
  <1>1. requests[e] \in Seq(Packet) /\ requests[e] # <<>> /\ Len(requests[e]) <= 1
    BY DEF Inv, TypeOK, PacketInv, PacketsOf, ReceiveRequest
  <1>2. PICK p \in Packet :
          /\ p = Head(requests[e]) /\ p \in Range(requests[e])
          /\ Tail(requests[e]) = <<>> /\ Range(requests[e]) = {p}
    BY <1>1, TailMembers
  <1>3. RequestAt(p, e, "requestChannel") /\ p.call \in Call
    BY <1>2, SlotNumbers DEF Inv, PacketInv, PacketsOf
  <1>4. /\ requests' = [requests EXCEPT ![e] = <<>>]
        /\ count' = [count EXCEPT ![e] = @ + 1]
        /\ jobs' = [jobs EXCEPT ![e] = Append(jobs[e], p)]
        /\ place' = [place EXCEPT ![p.call] = "jobQueue"]
        /\ UNCHANGED <<pc, slot, got, callSlots, up, mux, server, client>>
        /\ UNCHANGED <<wire, responses, reply, running, leaving>>
    BY <1>2 DEF ReceiveRequest, CountUp, Reached, callers, threads
  <1>5. CallerInv' /\ Steady(p.call) /\ place' \in [Call -> Place]
        /\ place'[p.call] = "jobQueue"
    BY <1>3, <1>4, CallerMoves DEF RequestAt, Place
  <1>6. /\ requests \in [End -> Seq(Packet)] /\ jobs \in [End -> Seq(Packet)]
        /\ count \in [End -> Int]
    BY DEF Inv, TypeOK
  <1>7. /\ jobs[e] \in Seq(Packet) /\ Append(jobs[e], p) \in Seq(Packet)
        /\ Range(Append(jobs[e], p)) = Range(jobs[e]) \cup {p}
    BY <1>6, AppendMembers
  <1>8. TypeOK'
    <2>1. <<>> \in Seq(Packet)
      OBVIOUS
    <2>2. requests' \in [End -> Seq(Packet)]
      BY <1>4, <1>6, <2>1, EndUpdate
    <2>3. jobs' \in [End -> Seq(Packet)]
      BY <1>4, <1>6, <1>7, EndUpdate
    <2>4. count' \in [End -> Int]
      BY <1>4, <1>6
    <2> QED
      BY <1>4, <1>5, <2>2, <2>3, <2>4 DEF Inv, TypeOK
  <1>9. ThreadInv'
    BY <1>4, <1>6 DEF Inv, ThreadInv
  <1>10. SlotsConserved'
    BY <1>4, SlotsKept DEF Inv
  <1>11. PacketInv'
    <2> SUFFICES ASSUME NEW f \in End PROVE PacketsOf(f)'
      BY DEF PacketInv
    <2>1. place[p.call] = "requestChannel" /\ To(p.call) = e
      BY <1>3 DEF RequestAt
    <2>2. /\ WireMoves(p.call, f) /\ ResponsesMove(p.call, f)
          /\ RunningMoves(p.call, f) /\ ReplyMoves(p.call, f)
      BY <1>4, <2>1 DEF WireMoves, ResponsesMove, RunningMoves, ReplyMoves
    <2>3. LeavingMoves(p.call, f)
      BY <1>4, <2>1 DEF LeavingMoves, Waiting
    <2>4. RequestsMove(p.call, f)
      <3>1. CASE f = e
        <4>1. requests'[f] = <<>>
          BY <3>1, <1>4, <1>6
        <4> QED
          BY <4>1, MembersOfNone DEF RequestsMove
      <3>2. CASE f # e
        <4>1. requests'[f] = requests[f] /\ Len(requests[f]) <= 1
          BY <3>2, <1>4, <1>6 DEF Inv, PacketInv, PacketsOf
        <4>2. \A q \in Range(requests[f]) : q.call # p.call
          BY <3>2, <2>1 DEF Inv, PacketInv, PacketsOf, RequestAt
        <4>3. \A q \in Range(requests[f]) : RequestAt(q, f, "requestChannel")'
          BY <1>3, <1>5, <4>2, OthersStay
        <4> QED
          BY <4>1, <4>3 DEF RequestsMove
      <3> QED
        BY <3>1, <3>2
    <2>5. JobsMove(p.call, f)
      <3>1. CASE f # e
        BY <3>1, <1>4, <1>6, <2>1 DEF JobsMove
      <3>2. CASE f = e
        <4>1. \A q \in Range(jobs[f]) : q.call # p.call
          BY <1>3, <1>5, <2>1, OthersStay
        <4>2. Once(jobs[f])
          BY DEF Inv, PacketInv, PacketsOf
        <4>3. Once(Append(jobs[f], p))
          BY <3>2, <1>7, <4>1, <4>2, AppendOnce
        <4>4. RequestAt(p, f, "jobQueue")'
          BY <3>2, <1>3, <1>4, <1>5 DEF RequestAt
        <4>5. jobs'[f] = Append(jobs[f], p)
          BY <3>2, <1>4, <1>6
        <4> QED
          BY <3>2, <1>7, <2>1, <4>3, <4>4, <4>5 DEF JobsMove
      <3> QED
        BY <3>1, <3>2
    <2> QED
      BY <1>3, <1>5, <2>2, <2>3, <2>4, <2>5, PacketsMove
  <1> QED
    BY <1>5, <1>8, <1>9, <1>10, <1>11 DEF Inv

LEMMA StartJobInv ==
  ASSUME Inv, NEW e \in End, StartJob(e)
  PROVE  Inv'
  <1>1. jobs[e] \in Seq(Packet) /\ jobs[e] # <<>> /\ Once(jobs[e])
    BY DEF Inv, TypeOK, PacketInv, PacketsOf, StartJob
  <1>2. PICK p \in Packet :
          /\ p = Head(jobs[e]) /\ p \in Range(jobs[e])
          /\ Tail(jobs[e]) \in Seq(Packet)
          /\ Range(Tail(jobs[e])) \subseteq Range(jobs[e])
          /\ Once(Tail(jobs[e]))
          /\ \A q \in Range(Tail(jobs[e])) : q.call # p.call
    BY <1>1, TailMembers, TailOnce
  <1>3. RequestAt(p, e, "jobQueue") /\ p.call \in Call
    BY <1>2, SlotNumbers DEF Inv, PacketInv, PacketsOf
  <1>4. /\ jobs' = [jobs EXCEPT ![e] = Tail(jobs[e])]
        /\ running' = [running EXCEPT ![e] = @ \cup {p}]
        /\ place' = [place EXCEPT ![p.call] = "running"]
        /\ UNCHANGED <<pc, slot, got, callSlots, up, mux, server, client>>
        /\ UNCHANGED <<wire, requests, responses, reply, count, leaving>>
    BY <1>2 DEF StartJob, Reached, callers, channels, threads
  <1>5. CallerInv' /\ Steady(p.call) /\ place' \in [Call -> Place]
        /\ place'[p.call] = "running"
    BY <1>3, <1>4, CallerMoves DEF RequestAt, Place
  <1>6. jobs \in [End -> Seq(Packet)] /\ running \in [End -> SUBSET Packet]
    BY DEF Inv, TypeOK
  <1>7. TypeOK'
    <2>1. jobs' \in [End -> Seq(Packet)]
      BY <1>2, <1>4, <1>6, EndUpdate
    <2>2. running' \in [End -> SUBSET Packet]
      BY <1>4, <1>6
    <2> QED
      BY <1>4, <1>5, <2>1, <2>2 DEF Inv, TypeOK
  <1>8. ThreadInv'
    BY <1>4 DEF Inv, ThreadInv
  <1>9. SlotsConserved'
    BY <1>4, SlotsKept DEF Inv
  <1>10. PacketInv'
    <2> SUFFICES ASSUME NEW f \in End PROVE PacketsOf(f)'
      BY DEF PacketInv
    <2>1. place[p.call] = "jobQueue" /\ To(p.call) = e
      BY <1>3 DEF RequestAt
    <2>2. /\ WireMoves(p.call, f) /\ RequestsMove(p.call, f)
          /\ ResponsesMove(p.call, f) /\ ReplyMoves(p.call, f)
      BY <1>4, <2>1 DEF WireMoves, RequestsMove, ResponsesMove, ReplyMoves
    <2>3. LeavingMoves(p.call, f)
      BY <1>4, <2>1 DEF LeavingMoves, Waiting
    <2>4. JobsMove(p.call, f)
      <3>1. CASE f = e
        <4>1. jobs'[f] = Tail(jobs[e])
          BY <3>1, <1>4, <1>6
        <4> QED
          BY <3>1, <4>1, <1>2 DEF JobsMove
      <3>2. CASE f # e
        <4>1. jobs'[f] = jobs[f] /\ Once(jobs[f])
          BY <3>2, <1>4, <1>6 DEF Inv, PacketInv, PacketsOf
        <4>2. \A q \in Range(jobs[f]) : q.call # p.call
          BY <3>2, <2>1 DEF Inv, PacketInv, PacketsOf, RequestAt
        <4> QED
          BY <4>1, <4>2 DEF JobsMove
      <3> QED
        BY <3>1, <3>2
    <2>5. RunningMoves(p.call, f)
      <3>1. RequestAt(p, e, "running")'
        BY <1>3, <1>4, <1>5 DEF RequestAt
      <3>2. running'[f] = IF f = e THEN running[f] \cup {p} ELSE running[f]
        BY <1>4, <1>6
      <3> QED
        BY <2>1, <3>1, <3>2 DEF RunningMoves
    <2> QED
      BY <1>3, <1>5, <2>2, <2>3, <2>4, <2>5, PacketsMove
  <1> QED
    BY <1>5, <1>7, <1>8, <1>9, <1>10 DEF Inv

LEMMA RespondInv ==
  ASSUME Inv, NEW e \in End, NEW p, Respond(e, p)
  PROVE  Inv'
  <1>1. p \in running[e] /\ p \in Packet /\ p.call \in Call
    BY Types, SlotNumbers DEF Respond
  <1>2. RequestAt(p, e, "running")
    BY <1>1 DEF Inv, PacketInv, PacketsOf
  <1>3. PICK r \in Packet : /\ r = Response(p) /\ r.call = p.call /\ r.slot = slot[p.call]
                            /\ slot[p.call] \in Slot
    BY <1>1, <1>2, SlotNumbers DEF RequestAt
  <1>4. /\ running' = [running EXCEPT ![e] = @ \ {p}]
        /\ leaving' = [leaving EXCEPT ![e] = @ \cup {p}]
        /\ \/ /\ wire' = [wire EXCEPT ![Other(e)] = Append(wire[Other(e)], r)]
              /\ place' = [place EXCEPT ![p.call] = "responseWire"]
           \/ /\ wire' = wire
              /\ place' = [place EXCEPT ![p.call] = "unsent"]
        /\ UNCHANGED <<pc, slot, got, callSlots, up, mux, server, client>>
        /\ UNCHANGED <<requests, responses, reply, count, jobs>>
    BY <1>3 DEF Respond, Reached, callers, channels, threads
  <1>5. CallerInv' /\ Steady(p.call) /\ place' \in [Call -> Place]
        /\ place'[p.call] \in {"responseWire", "unsent"}
    BY <1>1, <1>2, <1>4, CallerMoves DEF RequestAt, Place
  <1>6. /\ wire \in [End -> Seq(Packet)] /\ place \in [Call -> Place]
        /\ running \in [End -> SUBSET Packet] /\ leaving \in [End -> SUBSET Packet]
    BY DEF Inv, TypeOK
  <1>7. PICK o \in End : o = Other(e) /\ o = From[p.call] /\ o # e
    BY <1>1, <1>2, Ends DEF RequestAt
  <1>8. /\ wire[o] \in Seq(Packet) /\ Append(wire[o], r) \in Seq(Packet)
        /\ Range(Append(wire[o], r)) = Range(wire[o]) \cup {r}
    BY <1>3, <1>6, AppendMembers
  <1>9. TypeOK'
    <2>1. [wire EXCEPT ![o] = Append(wire[o], r)] \in [End -> Seq(Packet)]
      BY <1>6, <1>8, EndUpdate
    <2>2. wire' \in [End -> Seq(Packet)]
      BY <1>4, <1>6, <1>7, <2>1
    <2>3. running' \in [End -> SUBSET Packet] /\ leaving' \in [End -> SUBSET Packet]
      BY <1>1, <1>4, <1>6
    <2> QED
      BY <1>4, <1>5, <2>2, <2>3 DEF Inv, TypeOK
  <1>10. ThreadInv'
    BY <1>4 DEF Inv, ThreadInv
  <1>11. SlotsConserved'
    BY <1>4, SlotsKept DEF Inv
  <1>12. PacketInv'
    <2> SUFFICES ASSUME NEW f \in End PROVE PacketsOf(f)'
      BY DEF PacketInv
    <2>1. place[p.call] = "running" /\ To(p.call) = e
      BY <1>2 DEF RequestAt
    <2>2. /\ RequestsMove(p.call, f) /\ ResponsesMove(p.call, f)
          /\ ReplyMoves(p.call, f) /\ JobsMove(p.call, f)
      BY <1>4, <2>1 DEF RequestsMove, ResponsesMove, ReplyMoves, JobsMove
    <2>3. LeavingMoves(p.call, f)
      <3>1. leaving'[f] = IF f = e THEN leaving[f] \cup {p} ELSE leaving[f]
        BY <1>4, <1>6
      <3> QED
        BY <1>5, <2>1, <3>1 DEF LeavingMoves, Waiting
    <2>4. RunningMoves(p.call, f)
      <3>1. running'[f] = IF f = e THEN running[f] \ {p} ELSE running[f]
        BY <1>4, <1>6
      <3>2. ASSUME NEW q \in running'[f] PROVE q \in running[f] /\ q.call # p.call
        <4>1. q \in running[f] /\ (f = e => q # p)
          BY <3>1, <3>2
        <4>2. RequestAt(q, f, "running") /\ q \in Packet
          BY <4>1, Types DEF Inv, PacketInv, PacketsOf
        <4>3. q.call = p.call => f = e /\ q.slot = p.slot
          BY <4>2, <1>2 DEF RequestAt
        <4>4. q.call = p.call /\ q.slot = p.slot => q = p
          BY <4>2, <1>1 DEF Packet
        <4> QED
          BY <4>1, <4>3, <4>4
      <3> QED
        BY <3>2 DEF RunningMoves
    <2>5. WireMoves(p.call, f)
      <3>1. CASE wire'[f] = wire[f]
        BY <3>1, <2>1 DEF WireMoves
      <3>2. CASE wire'[f] # wire[f]
        <4>1. f = o /\ wire'[f] = Append(wire[f], r) /\ place' = [place EXCEPT ![p.call] = "responseWire"]
          BY <3>2, <1>4, <1>6, <1>7
        <4>2. \A q \in Range(wire[f]) : q.call # r.call
          BY <1>1, <1>3, <1>5, <2>1, OthersStay
        <4>3. Once(wire[f])
          BY DEF Inv, PacketInv, PacketsOf
        <4>4. Once(Append(wire[f], r))
          BY <4>1, <1>8, <4>2, <4>3, AppendOnce
        <4>5. ResponseAt(r, f, "responseWire")'
          BY <4>1, <1>1, <1>2, <1>3, <1>4, <1>6, <1>7 DEF ResponseAt, RequestAt
        <4> QED
          BY <4>1, <1>8, <2>1, <4>4, <4>5 DEF WireMoves
      <3> QED
        BY <3>1, <3>2
    <2> QED
      BY <1>1, <1>5, <2>2, <2>3, <2>4, <2>5, PacketsMove
  <1> QED
    BY <1>5, <1>9, <1>10, <1>11, <1>12 DEF Inv

LEMMA PanicInv ==
  ASSUME Inv, NEW e \in End, NEW p, Panic(e, p)
  PROVE  Inv'
  <1>1. p \in running[e] /\ p \in Packet /\ p.call \in Call
    BY Types, SlotNumbers DEF Panic
  <1>2. RequestAt(p, e, "running")
    BY <1>1 DEF Inv, PacketInv, PacketsOf
  <1>3. /\ running' = [running EXCEPT ![e] = @ \ {p}]
        /\ place' = [place EXCEPT ![p.call] = "panicked"]
        /\ UNCHANGED <<pc, slot, got, callSlots, up, mux, server, client>>
        /\ UNCHANGED <<wire, requests, responses, reply, count, jobs, leaving>>
    BY DEF Panic, Reached, callers, channels, threads
  <1>4. CallerInv' /\ Steady(p.call) /\ place' \in [Call -> Place]
        /\ place'[p.call] = "panicked"
    BY <1>1, <1>2, <1>3, CallerMoves DEF RequestAt, Place
  <1>5. running \in [End -> SUBSET Packet]
    BY DEF Inv, TypeOK
  <1>6. TypeOK'
    <2>1. running' \in [End -> SUBSET Packet]
      BY <1>3, <1>5
    <2> QED
      BY <1>3, <1>4, <2>1 DEF Inv, TypeOK
  <1>7. ThreadInv'
    BY <1>3 DEF Inv, ThreadInv
  <1>8. SlotsConserved'
    BY <1>3, SlotsKept DEF Inv
  <1>9. PacketInv'
    <2> SUFFICES ASSUME NEW f \in End PROVE PacketsOf(f)'
      BY DEF PacketInv
    <2>1. place[p.call] = "running" /\ To(p.call) = e
      BY <1>2 DEF RequestAt
    <2>2. /\ WireMoves(p.call, f) /\ RequestsMove(p.call, f) /\ ResponsesMove(p.call, f)
          /\ ReplyMoves(p.call, f) /\ JobsMove(p.call, f)
      BY <1>3, <2>1 DEF WireMoves, RequestsMove, ResponsesMove, ReplyMoves, JobsMove
    <2>3. LeavingMoves(p.call, f)
      BY <1>3, <2>1 DEF LeavingMoves, Waiting
    <2>4. RunningMoves(p.call, f)
      <3>1. running'[f] = IF f = e THEN running[f] \ {p} ELSE running[f]
        BY <1>3, <1>5
      <3>2. ASSUME NEW q \in running'[f] PROVE q \in running[f] /\ q.call # p.call
        <4>1. q \in running[f] /\ (f = e => q # p)
          BY <3>1, <3>2
        <4>2. RequestAt(q, f, "running") /\ q \in Packet
          BY <4>1, Types DEF Inv, PacketInv, PacketsOf
        <4>3. q.call = p.call => f = e /\ q.slot = p.slot
          BY <4>2, <1>2 DEF RequestAt
        <4>4. q.call = p.call /\ q.slot = p.slot => q = p
          BY <4>2, <1>1 DEF Packet
        <4> QED
          BY <4>1, <4>3, <4>4
      <3> QED
        BY <3>2 DEF RunningMoves
    <2> QED
      BY <1>1, <1>4, <2>2, <2>3, <2>4, PacketsMove
  <1> QED
    BY <1>4, <1>6, <1>7, <1>8, <1>9 DEF Inv

LEMMA ReceiveResponseInv ==
  ASSUME Inv, NEW e \in End, ReceiveResponse(e)
  PROVE  Inv'
  <1>1. responses[e] \in Seq(Packet) /\ responses[e] # <<>> /\ Len(responses[e]) <= 1
    BY DEF Inv, TypeOK, PacketInv, PacketsOf, ReceiveResponse
  <1>2. PICK p \in Packet :
          /\ p = Head(responses[e]) /\ p \in Range(responses[e])
          /\ Tail(responses[e]) = <<>> /\ Range(responses[e]) = {p}
    BY <1>1, TailMembers
  <1>3. ResponseAt(p, e, "responseChannel") /\ p.call \in Call /\ <<p>> \in Seq(Packet)
    BY <1>2, SlotNumbers DEF Inv, PacketInv, PacketsOf
  <1>4. PICK s \in Slot : s = p.slot
    BY <1>3 DEF ResponseAt
  <1>5. /\ responses' = [responses EXCEPT ![e] = <<>>]
        /\ reply' = [reply EXCEPT ![e][s] = <<p>>]
        /\ place' = [place EXCEPT ![p.call] = "reply"]
        /\ UNCHANGED <<pc, slot, got, callSlots, up, mux, server, client>>
        /\ UNCHANGED <<wire, requests, count, jobs, running, leaving>>
    BY <1>2, <1>4 DEF ReceiveResponse, Reached, callers, pool, threads
  <1>6. CallerInv' /\ Steady(p.call) /\ place' \in [Call -> Place]
        /\ place'[p.call] = "reply"
    BY <1>3, <1>5, CallerMoves DEF ResponseAt, Place
  <1>7. responses \in [End -> Seq(Packet)] /\ reply \in [End -> [Slot -> Seq(Packet)]]
    BY DEF Inv, TypeOK
  <1>8. \A f \in End : \A t \in Slot :
            reply'[f][t] = IF f = e /\ t = s THEN <<p>> ELSE reply[f][t]
    BY <1>5, <1>7
  <1>9. TypeOK'
    <2>1. <<>> \in Seq(Packet)
      OBVIOUS
    <2>2. responses' \in [End -> Seq(Packet)]
      BY <1>5, <1>7, <2>1, EndUpdate
    <2>3. reply' \in [End -> [Slot -> Seq(Packet)]]
      BY <1>3, <1>5, <1>7
    <2> QED
      BY <1>5, <1>6, <2>2, <2>3 DEF Inv, TypeOK
  <1>10. ThreadInv'
    BY <1>5 DEF Inv, ThreadInv
  <1>11. SlotsConserved'
    BY <1>5, SlotsKept DEF Inv
  <1>12. PacketInv'
    <2> SUFFICES ASSUME NEW f \in End PROVE PacketsOf(f)'
      BY DEF PacketInv
    <2>1. place[p.call] = "responseChannel" /\ From[p.call] = e
      BY <1>3 DEF ResponseAt
    <2>2. /\ WireMoves(p.call, f) /\ RequestsMove(p.call, f)
          /\ RunningMoves(p.call, f) /\ JobsMove(p.call, f)
      BY <1>5, <2>1 DEF WireMoves, RequestsMove, RunningMoves, JobsMove
    <2>3. LeavingMoves(p.call, f)
      BY <1>5, <1>6 DEF LeavingMoves, Waiting
    <2>4. ResponsesMove(p.call, f)
      <3>1. CASE f = e
        <4>1. responses'[f] = <<>>
          BY <3>1, <1>5, <1>7
        <4> QED
          BY <4>1, MembersOfNone DEF ResponsesMove
      <3>2. CASE f # e
        <4>1. responses'[f] = responses[f] /\ Len(responses[f]) <= 1
          BY <3>2, <1>5, <1>7 DEF Inv, PacketInv, PacketsOf
        <4>2. \A q \in Range(responses[f]) : q.call # p.call
          BY <3>2, <2>1 DEF Inv, PacketInv, PacketsOf, ResponseAt
        <4>3. \A q \in Range(responses[f]) : ResponseAt(q, f, "responseChannel")'
          BY <1>3, <1>6, <4>2, OthersStay
        <4> QED
          BY <4>1, <4>3 DEF ResponsesMove
      <3> QED
        BY <3>1, <3>2
    <2>5. ReplyMoves(p.call, f)
      <3> SUFFICES ASSUME NEW t \in Slot
                   PROVE  \/ reply'[f][t] = reply[f][t]
                          \/ /\ Len(reply'[f][t]) <= 1
                             /\ \A q \in Range(reply'[f][t]) :
                                  ResponseAt(q, f, "reply")' /\ q.slot = t
        BY <2>1 DEF ReplyMoves
      <3>1. CASE f = e /\ t = s
        <4>1. reply'[f][t] = <<p>>
          BY <3>1, <1>8
        <4>2. Range(reply'[f][t]) = {p} /\ Len(reply'[f][t]) = 1
          BY <4>1, MembersOfOne
        <4>3. ResponseAt(p, f, "reply")' /\ p.slot = t
          BY <3>1, <1>3, <1>4, <1>5, <1>6 DEF ResponseAt
        <4> QED
          BY <4>2, <4>3
      <3>2. CASE ~ (f = e /\ t = s)
        BY <3>2, <1>8
      <3> QED
        BY <3>1, <3>2
    <2> QED
      BY <1>3, <1>6, <2>2, <2>3, <2>4, <2>5, PacketsMove
  <1> QED
    BY <1>6, <1>9, <1>10, <1>11, <1>12 DEF Inv
-------------------------------------------------------------------------------
(* The invariant holds, and what follows from it.                           *)

LEMMA InitInv == Init => Inv
  <1> SUFFICES ASSUME Init PROVE Inv
    OBVIOUS
  <1>1. \A e \in End : callSlots[e] = [i \in 1 .. CallSlots |-> i - 1]
    BY DEF Init
  <1>2. CallSlots \in Nat
    BY CallAssumption
  <1>3. <<>> \in Seq(Packet) /\ [i \in 1 .. CallSlots |-> i - 1] \in Seq(Slot)
    BY <1>2 DEF Slot
  <1>4. TypeOK
    <2>1. /\ callSlots \in [End -> Seq(Slot)] /\ reply \in [End -> [Slot -> Seq(Packet)]]
          /\ wire \in [End -> Seq(Packet)] /\ requests \in [End -> Seq(Packet)]
          /\ responses \in [End -> Seq(Packet)] /\ jobs \in [End -> Seq(Packet)]
      BY <1>3 DEF Init
    <2>2. /\ running \in [End -> SUBSET Packet] /\ leaving \in [End -> SUBSET Packet]
          /\ count \in [End -> Int]
      BY DEF Init
    <2> QED
      BY <2>1, <2>2 DEF TypeOK, Init, Place
  <1>5. CallerInv
    BY DEF Init, CallerInv
  <1>6. ThreadInv
    BY DEF Init, ThreadInv
  <1>7. PacketInv
    <2>1. Once(<<>>)
      BY DEF Once
    <2> QED
      BY <2>1, MembersOfNone DEF Init, PacketInv, PacketsOf
  <1>8. SlotsConserved
    <2> SUFFICES ASSUME NEW e \in End
                 PROVE  /\ \A c, d \in Holders(e) : slot[c] = slot[d] => c = d
                        /\ \A c \in Holders(e) :
                             /\ slot[c] \notin Range(callSlots[e])
                             /\ up[e] => pc[c] # "failed"
                        /\ IsInjective(callSlots[e])
                        /\ Range(callSlots[e]) \cup {slot[c] : c \in Holders(e)} = Slot
      BY DEF SlotsConserved
    <2>1. Holders(e) = {}
      BY DEF Init, Holders, Holds
    <2>2. IsInjective(callSlots[e])
      <3>1. \A i \in 1 .. CallSlots : callSlots[e][i] = i - 1
        BY <1>1
      <3>2. DOMAIN callSlots[e] = 1 .. CallSlots
        BY <1>1
      <3>3. \A i, j \in 1 .. CallSlots : i - 1 = j - 1 => i = j
        BY <1>2
      <3> QED
        BY <3>1, <3>2, <3>3 DEF IsInjective
    <2>3. Range(callSlots[e]) = Slot
      <3>1. \A s \in Slot : s + 1 \in 1 .. CallSlots /\ s = (s + 1) - 1
        BY <1>2 DEF Slot
      <3>2. \A i \in 1 .. CallSlots : i - 1 \in Slot
        BY <1>2 DEF Slot
      <3> QED
        BY <1>1, <3>1, <3>2 DEF Range
    <2> QED
      BY <2>1, <2>2, <2>3
  <1> QED
    BY <1>4, <1>5, <1>6, <1>7, <1>8 DEF Inv

LEMMA StutterInv == Inv /\ UNCHANGED vars => Inv'
  <1> SUFFICES ASSUME Inv, UNCHANGED vars PROVE Inv'
    OBVIOUS
  <1>1. /\ UNCHANGED <<pc, slot, got, callSlots, up, mux, server, client, place>>
        /\ UNCHANGED <<wire, requests, responses, reply>>
        /\ UNCHANGED <<count, jobs, running, leaving>>
    BY DEF vars, callers, channels, pool, threads
  <1>2. TypeOK' /\ CallerInv' /\ ThreadInv'
    BY <1>1 DEF Inv, TypeOK, CallerInv, ThreadInv
  <1>3. SlotsConserved'
    BY <1>1, SlotsKept DEF Inv
  <1>4. PacketInv'
    BY <1>1, PacketsKept DEF PacketInv
  <1> QED
    BY <1>2, <1>3, <1>4 DEF Inv

LEMMA NextInv == Inv /\ [Next]_vars => Inv'
  <1>1. ASSUME Inv, Next PROVE Inv'
    BY <1>1, TakeSlotInv, FailInv, SendRequestInv, ReturnInv, ForwardInv,
       CloseInv, MuxEndsInv, ReceiveRequestInv, StartJobInv, ThreadEndsInv,
       ReceiveResponseInv, RespondInv, LeaveInv, PanicInv DEF Next
  <1> QED
    BY <1>1, StutterInv

LEMMA Invariance == Spec => []Inv
  BY InitInv, NextInv, PTL DEF Spec

(* Every variable of the connection keeps its type: in particular slot      *)
(* numbers stay below the request bit and no channel of a slot is missed.   *)
THEOREM TypeCorrect == Spec => []TypeOK
  <1>1. Inv => TypeOK
    BY DEF Inv
  <1> QED
    BY <1>1, Invariance, PTL

(* A call that returns has got the response to itself.                      *)
THEOREM CallersGetTheirOwn == Spec => []OwnResponse
  <1>1. Inv => OwnResponse
    BY DEF Inv, CallerInv, OwnResponse
  <1> QED
    BY <1>1, Invariance, PTL

(* The free slots and those held by callers are always all slots, each once.*)
THEOREM SlotsAreConserved == Spec => []SlotsConserved
  <1>1. Inv => SlotsConserved
    BY DEF Inv
  <1> QED
    BY <1>1, Invariance, PTL

(* Each call has at most one packet, of the slot its caller holds.          *)
THEOREM PacketsAreSingle == Spec => []PacketInv
  <1>1. Inv => PacketInv
    BY DEF Inv
  <1> QED
    BY <1>1, Invariance, PTL

(* The thread that hands out responses never blocks and never finds a       *)
(* caller gone.                                                             *)
THEOREM RepliesFindCallers == Spec => []ReplyFindsCaller
  <1>1. ASSUME Inv, NEW e \in End, client[e] = "open", responses[e] # <<>>
        PROVE  LET p == Head(responses[e]) IN
                 /\ From[p.call] = e /\ pc[p.call] = "waiting" /\ slot[p.call] = p.slot
                 /\ reply[e][p.slot] = <<>>
    <2>1. PICK p \in Packet : p = Head(responses[e]) /\ p \in Range(responses[e])
      BY <1>1, Types, TailMembers
    <2>2. ResponseAt(p, e, "responseChannel") /\ p.call \in Call
      BY <1>1, <2>1, SlotNumbers DEF Inv, PacketInv, PacketsOf
    <2>3. pc[p.call] = "waiting"
      BY <1>1, <2>2 DEF Inv, CallerInv, ResponseAt
    <2>4. reply[e][p.slot] = <<>>
      <3>1. p.slot \in Slot /\ p.slot = slot[p.call]
        BY <2>2 DEF ResponseAt
      <3>2. ASSUME NEW q \in Range(reply[e][p.slot]) PROVE FALSE
        <4>1. ResponseAt(q, e, "reply") /\ q.slot = p.slot /\ q.call \in Call
          BY <1>1, <3>1, Types, SlotNumbers DEF Inv, PacketInv, PacketsOf
        <4>2. q.call \in Holders(e) /\ p.call \in Holders(e) /\ slot[q.call] = slot[p.call]
          BY <2>2, <4>1, SlotNumbers DEF ResponseAt, Holders, Holds
        <4>3. q.call = p.call
          BY <1>1, <4>2 DEF Inv, SlotsConserved
        <4> QED
          BY <2>2, <4>1, <4>3 DEF ResponseAt
      <3>3. reply[e][p.slot] \in Seq(Packet)
        BY <1>1, <3>1, Types
      <3> QED
        BY <3>2, <3>3, MembersOf
    <2> QED
      BY <2>1, <2>2, <2>3, <2>4 DEF ResponseAt
  <1>2. Inv => ReplyFindsCaller
    BY <1>1 DEF ReplyFindsCaller
  <1> QED
    BY <1>2, Invariance, PTL
-------------------------------------------------------------------------------
(* The server's count.  It needs the sets to be finite.                     *)

Finite ==
  \A e \in End : /\ IsFiniteSet(running[e]) /\ IsFiniteSet(leaving[e])
                 /\ IsFiniteSet(Panicked(e))

CountInv == Finite /\ CountIsJobs

SamePanicked == \A e \in End : Panicked(e)' = Panicked(e)

LEMMA Moved ==
  ASSUME Inv, NEW c \in Call, NEW w, place' = [place EXCEPT ![c] = w],
         place[c] # "panicked", w # "panicked"
  PROVE  SamePanicked
  BY DEF Inv, TypeOK, SamePanicked, Panicked

LEMMA CountKept ==
  ASSUME CountInv, SamePanicked, UNCHANGED <<count, jobs, running, leaving>>
  PROVE  CountInv'
  BY DEF CountInv, Finite, CountIsJobs, SamePanicked

(* One end changes its count and its sets in step.                          *)
LEMMA CountMoves ==
  ASSUME CountInv, NEW e \in End,
         \A f \in End \ {e} :
           /\ UNCHANGED <<count[f], jobs[f], running[f], leaving[f]>>
           /\ Panicked(f)' = Panicked(f),
         IsFiniteSet(running'[e]), IsFiniteSet(leaving'[e]), IsFiniteSet(Panicked(e)'),
         count'[e] = Len(jobs'[e]) + Cardinality(running'[e]) + Cardinality(leaving'[e])
                     + Cardinality(Panicked(e)')
  PROVE  CountInv'
  BY DEF CountInv, Finite, CountIsJobs

LEMMA CountOf ==
  ASSUME Inv, CountInv, NEW e \in End
  PROVE  /\ IsFiniteSet(running[e]) /\ IsFiniteSet(leaving[e]) /\ IsFiniteSet(Panicked(e))
         /\ Cardinality(running[e]) \in Nat /\ Cardinality(leaving[e]) \in Nat
         /\ Cardinality(Panicked(e)) \in Nat /\ Len(jobs[e]) \in Nat
         /\ count[e] = Len(jobs[e]) + Cardinality(running[e]) + Cardinality(leaving[e])
                       + Cardinality(Panicked(e))
  <1>1. IsFiniteSet(running[e]) /\ IsFiniteSet(leaving[e]) /\ IsFiniteSet(Panicked(e))
    BY DEF CountInv, Finite
  <1>2. /\ Cardinality(running[e]) \in Nat /\ Cardinality(leaving[e]) \in Nat
        /\ Cardinality(Panicked(e)) \in Nat
    BY <1>1, FS_CardinalityType
  <1>3. Len(jobs[e]) \in Nat
    BY Types, LenProperties
  <1>4. count[e] = Len(jobs[e]) + Cardinality(running[e]) + Cardinality(leaving[e])
                   + Cardinality(Panicked(e))
    BY DEF CountInv, CountIsJobs
  <1> QED
    BY <1>1, <1>2, <1>3, <1>4

LEMMA SetGrows ==
  ASSUME NEW S, NEW T, NEW x, IsFiniteSet(S), x \notin S, T = S \cup {x}
  PROVE  IsFiniteSet(T) /\ Cardinality(T) = Cardinality(S) + 1
  BY FS_AddElement

LEMMA SetShrinks ==
  ASSUME NEW S, NEW T, NEW x, IsFiniteSet(S), x \in S, T = S \ {x}
  PROVE  IsFiniteSet(T) /\ Cardinality(T) = Cardinality(S) - 1
  BY FS_RemoveElement

LEMMA CountNext ==
  ASSUME Inv, Next, CountInv
  PROVE  CountInv'
  <1> USE DEF channels, callers, pool, threads
  <1>1. ASSUME NEW c \in Call,
               TakeSlot(c) \/ TooManyCalls(c) \/ SendFails(c) \/ Abort(c)
        PROVE  CountInv'
    BY <1>1, CountKept DEF TakeSlot, TooManyCalls, SendFails, Abort, SamePanicked, Panicked
  <1>2. ASSUME NEW c \in Call, SendRequest(c) PROVE CountInv'
    <2>1. place[c] = "none" /\ place' = [place EXCEPT ![c] = "requestWire"]
      BY <1>2 DEF SendRequest, Reached, Inv, CallerInv
    <2> QED
      BY <1>2, <2>1, Moved, CountKept DEF SendRequest
  <1>3. ASSUME NEW c \in Call, Return(c) PROVE CountInv'
    <2>1. slot[c] \in Slot /\ From[c] \in End /\ pc[c] = "waiting"
      BY <1>3, Ends DEF Return, Inv, CallerInv
    <2>2. Head(reply[From[c]][slot[c]]) \in Range(reply[From[c]][slot[c]])
      BY <1>3, <2>1, Types, TailMembers DEF Return
    <2>3. place[c] = "reply" /\ place' = [place EXCEPT ![c] = "taken"]
      BY <1>3, <2>1, <2>2, ReplyIsOwn DEF Return, Reached
    <2> QED
      BY <1>3, <2>3, Moved, CountKept DEF Return
  <1>4. ASSUME NEW e \in End, Forward(e) PROVE CountInv'
    <2>1. Head(wire[e]) \in Range(wire[e]) /\ Head(wire[e]) \in Packet
      BY <1>4, Types, TailMembers DEF Forward
    <2>2. Head(wire[e]).call \in Call /\ place[Head(wire[e]).call] # "panicked"
      BY <2>1, SlotNumbers DEF Inv, PacketInv, PacketsOf, RequestAt, ResponseAt
    <2> QED
      BY <1>4, <2>2, Moved, CountKept DEF Forward, Reached
  <1>5. ASSUME NEW e \in End,
               \/ Close(e) \/ MuxEnds(e)
               \/ ServerBreaks(e) \/ ServerEnds(e) \/ ClientEnds(e)
        PROVE  CountInv'
    BY <1>5, CountKept
    DEF Close, MuxEnds, ServerBreaks, ServerEnds, ClientEnds, SamePanicked, Panicked
  <1>6. ASSUME NEW e \in End, ReceiveRequest(e) PROVE CountInv'
    <2>1. PICK p \in Packet : p = Head(requests[e]) /\ p \in Range(requests[e])
      BY <1>6, Types, TailMembers DEF ReceiveRequest
    <2>2. p.call \in Call /\ place[p.call] # "panicked"
      BY <2>1, SlotNumbers DEF Inv, PacketInv, PacketsOf, RequestAt
    <2>3. /\ SamePanicked /\ UNCHANGED <<running, leaving>>
          /\ jobs' = [jobs EXCEPT ![e] = Append(jobs[e], p)]
          /\ count' = [count EXCEPT ![e] = count[e] + 1]
      BY <1>6, <2>1, <2>2, Moved DEF ReceiveRequest, Reached, CountUp
    <2>4. /\ jobs \in [End -> Seq(Packet)] /\ count \in [End -> Int]
          /\ Len(Append(jobs[e], p)) = Len(jobs[e]) + 1
      BY AppendMembers DEF Inv, TypeOK
    <2>5. jobs'[e] = Append(jobs[e], p) /\ count'[e] = count[e] + 1
      BY <2>3, <2>4
    <2>6. \A f \in End \ {e} : UNCHANGED <<count[f], jobs[f]>>
      BY <2>3, <2>4
    <2>7. /\ Cardinality(running[e]) \in Nat /\ Cardinality(leaving[e]) \in Nat
          /\ Cardinality(Panicked(e)) \in Nat /\ Len(jobs[e]) \in Nat
      BY <2>4, FS_CardinalityType DEF CountInv, Finite
    <2>8. count'[e] = Len(jobs'[e]) + Cardinality(running[e]) + Cardinality(leaving[e])
                      + Cardinality(Panicked(e))
      BY <2>4, <2>5, <2>7 DEF CountInv, CountIsJobs
    <2> QED
      BY <2>3, <2>6, <2>8, CountMoves DEF SamePanicked, CountInv, Finite
  <1>7. ASSUME NEW e \in End, StartJob(e) PROVE CountInv'
    <2>0. /\ IsFiniteSet(running[e]) /\ IsFiniteSet(leaving[e]) /\ IsFiniteSet(Panicked(e))
          /\ Cardinality(running[e]) \in Nat /\ Cardinality(leaving[e]) \in Nat
          /\ Cardinality(Panicked(e)) \in Nat /\ Len(jobs[e]) \in Nat
          /\ count[e] = Len(jobs[e]) + Cardinality(running[e]) + Cardinality(leaving[e])
                        + Cardinality(Panicked(e))
      BY CountOf
    <2>1. PICK p \in Packet : p = Head(jobs[e]) /\ p \in Range(jobs[e])
      BY <1>7, Types, TailMembers DEF StartJob
    <2>2. p.call \in Call /\ place[p.call] = "jobQueue"
      BY <2>1, SlotNumbers DEF Inv, PacketInv, PacketsOf, RequestAt
    <2>3. p \notin running[e]
      BY <2>2 DEF Inv, PacketInv, PacketsOf, RequestAt
    <2>4. /\ SamePanicked /\ UNCHANGED <<count, leaving>> /\ jobs[e] # <<>>
          /\ jobs' = [jobs EXCEPT ![e] = Tail(jobs[e])]
          /\ running' = [running EXCEPT ![e] = running[e] \cup {p}]
      BY <1>7, <2>1, <2>2, Moved DEF StartJob, Reached
    <2>5. /\ jobs \in [End -> Seq(Packet)] /\ running \in [End -> SUBSET Packet]
          /\ Len(Tail(jobs[e])) = Len(jobs[e]) - 1
      BY <2>4, TailMembers DEF Inv, TypeOK
    <2>6. jobs'[e] = Tail(jobs[e]) /\ running'[e] = running[e] \cup {p}
      BY <2>4, <2>5
    <2>7. \A f \in End \ {e} : UNCHANGED <<jobs[f], running[f]>>
      BY <2>4, <2>5
    <2>8. IsFiniteSet(running'[e]) /\ Cardinality(running'[e]) = Cardinality(running[e]) + 1
      BY <2>3, <2>6, <2>0, SetGrows
    <2>9. count[e] = Len(jobs'[e]) + Cardinality(running'[e]) + Cardinality(leaving[e])
                     + Cardinality(Panicked(e))
      <3>1. Len(jobs'[e]) = Len(jobs[e]) - 1
        BY <2>5, <2>6
      <3> QED
        BY <3>1, <2>8, <2>0
    <2> QED
      BY <2>4, <2>7, <2>8, <2>9, CountMoves DEF SamePanicked, CountInv, Finite
  <1>8. ASSUME NEW e \in End, ReceiveResponse(e) PROVE CountInv'
    <2>1. Head(responses[e]) \in Range(responses[e]) /\ Head(responses[e]) \in Packet
      BY <1>8, Types, TailMembers DEF ReceiveResponse
    <2>2. Head(responses[e]).call \in Call /\ place[Head(responses[e]).call] # "panicked"
      BY <2>1, SlotNumbers DEF Inv, PacketInv, PacketsOf, ResponseAt
    <2> QED
      BY <1>8, <2>2, Moved, CountKept DEF ReceiveResponse, Reached
  <1>9. ASSUME NEW e \in End, NEW p, Respond(e, p) PROVE CountInv'
    <2>0. /\ IsFiniteSet(running[e]) /\ IsFiniteSet(leaving[e]) /\ IsFiniteSet(Panicked(e))
          /\ Cardinality(running[e]) \in Nat /\ Cardinality(leaving[e]) \in Nat
          /\ Cardinality(Panicked(e)) \in Nat /\ Len(jobs[e]) \in Nat
          /\ count[e] = Len(jobs[e]) + Cardinality(running[e]) + Cardinality(leaving[e])
                        + Cardinality(Panicked(e))
      BY CountOf
    <2>1. p \in running[e] /\ p.call \in Call
      BY <1>9, Types, SlotNumbers DEF Respond
    <2>2. place[p.call] = "running"
      BY <2>1 DEF Inv, PacketInv, PacketsOf, RequestAt
    <2>3. p \notin leaving[e]
      BY <2>2 DEF Inv, PacketInv, PacketsOf, Waiting
    <2>4. /\ SamePanicked /\ UNCHANGED <<count, jobs>>
          /\ running' = [running EXCEPT ![e] = running[e] \ {p}]
          /\ leaving' = [leaving EXCEPT ![e] = leaving[e] \cup {p}]
      BY <1>9, <2>1, <2>2, Moved DEF Respond, Reached
    <2>5. running \in [End -> SUBSET Packet] /\ leaving \in [End -> SUBSET Packet]
          /\ jobs \in [End -> Seq(Packet)]
      BY DEF Inv, TypeOK
    <2>6. running'[e] = running[e] \ {p} /\ leaving'[e] = leaving[e] \cup {p}
      BY <2>4, <2>5
    <2>7. \A f \in End \ {e} : UNCHANGED <<running[f], leaving[f]>>
      BY <2>4, <2>5
    <2>8. IsFiniteSet(running'[e]) /\ Cardinality(running'[e]) = Cardinality(running[e]) - 1
      BY <2>1, <2>6, <2>0, SetShrinks
    <2>9. IsFiniteSet(leaving'[e]) /\ Cardinality(leaving'[e]) = Cardinality(leaving[e]) + 1
      BY <2>3, <2>6, <2>0, SetGrows
    <2>10. count[e] = Len(jobs[e]) + Cardinality(running'[e]) + Cardinality(leaving'[e])
                      + Cardinality(Panicked(e))
      BY <2>8, <2>9, <2>0
    <2> QED
      BY <2>4, <2>7, <2>8, <2>9, <2>10, CountMoves DEF SamePanicked, CountInv, Finite
  <1>10. ASSUME NEW e \in End, NEW p, Leave(e, p) PROVE CountInv'
    <2>0. /\ IsFiniteSet(running[e]) /\ IsFiniteSet(leaving[e]) /\ IsFiniteSet(Panicked(e))
          /\ Cardinality(running[e]) \in Nat /\ Cardinality(leaving[e]) \in Nat
          /\ Cardinality(Panicked(e)) \in Nat /\ Len(jobs[e]) \in Nat
          /\ count[e] = Len(jobs[e]) + Cardinality(running[e]) + Cardinality(leaving[e])
                        + Cardinality(Panicked(e))
      BY CountOf
    <2>1. /\ p \in leaving[e] /\ UNCHANGED <<jobs, running, place>>
          /\ leaving' = [leaving EXCEPT ![e] = leaving[e] \ {p}]
          /\ count' = [count EXCEPT ![e] = count[e] - 1]
      BY <1>10 DEF Leave, CountDown
    <2>2. leaving \in [End -> SUBSET Packet] /\ count \in [End -> Int]
          /\ jobs \in [End -> Seq(Packet)]
      BY DEF Inv, TypeOK
    <2>3. leaving'[e] = leaving[e] \ {p} /\ count'[e] = count[e] - 1
      BY <2>1, <2>2
    <2>4. \A f \in End \ {e} : UNCHANGED <<leaving[f], count[f]>>
      BY <2>1, <2>2
    <2>5. SamePanicked
      BY <2>1 DEF SamePanicked, Panicked
    <2>6. IsFiniteSet(leaving'[e]) /\ Cardinality(leaving'[e]) = Cardinality(leaving[e]) - 1
      BY <2>1, <2>3, <2>0, SetShrinks
    <2>7. count'[e] = Len(jobs[e]) + Cardinality(running[e]) + Cardinality(leaving'[e])
                      + Cardinality(Panicked(e))
      BY <2>3, <2>6, <2>0
    <2> QED
      BY <2>1, <2>4, <2>5, <2>6, <2>7, CountMoves DEF SamePanicked, CountInv, Finite
  <1>11. ASSUME NEW e \in End, NEW p, Panic(e, p) PROVE CountInv'
    <2>0. /\ IsFiniteSet(running[e]) /\ IsFiniteSet(leaving[e]) /\ IsFiniteSet(Panicked(e))
          /\ Cardinality(running[e]) \in Nat /\ Cardinality(leaving[e]) \in Nat
          /\ Cardinality(Panicked(e)) \in Nat /\ Len(jobs[e]) \in Nat
          /\ count[e] = Len(jobs[e]) + Cardinality(running[e]) + Cardinality(leaving[e])
                        + Cardinality(Panicked(e))
      BY CountOf
    <2>1. p \in running[e] /\ p.call \in Call
      BY <1>11, Types, SlotNumbers DEF Panic
    <2>2. place[p.call] = "running" /\ To(p.call) = e
      BY <2>1 DEF Inv, PacketInv, PacketsOf, RequestAt
    <2>3. /\ UNCHANGED <<count, jobs, leaving>>
          /\ running' = [running EXCEPT ![e] = running[e] \ {p}]
          /\ place' = [place EXCEPT ![p.call] = "panicked"]
      BY <1>11 DEF Panic, Reached
    <2>4. running \in [End -> SUBSET Packet] /\ place \in [Call -> Place]
          /\ jobs \in [End -> Seq(Packet)]
      BY DEF Inv, TypeOK
    <2>5. /\ running'[e] = running[e] \ {p}
          /\ Panicked(e)' = Panicked(e) \cup {p.call} /\ p.call \notin Panicked(e)
      BY <2>1, <2>2, <2>3, <2>4 DEF Panicked
    <2>6. \A f \in End \ {e} : UNCHANGED running[f] /\ Panicked(f)' = Panicked(f)
      BY <2>1, <2>2, <2>3, <2>4 DEF Panicked
    <2>7. IsFiniteSet(running'[e]) /\ Cardinality(running'[e]) = Cardinality(running[e]) - 1
      BY <2>1, <2>5, <2>0, SetShrinks
    <2>8. IsFiniteSet(Panicked(e)') /\ Cardinality(Panicked(e)') = Cardinality(Panicked(e)) + 1
      BY <2>5, <2>0, SetGrows
    <2>9. count[e] = Len(jobs[e]) + Cardinality(running'[e]) + Cardinality(leaving[e])
                     + Cardinality(Panicked(e)')
      <3>1. PICK r \in Nat, l \in Nat, n \in Nat, q \in Nat :
              /\ r = Cardinality(running[e]) /\ l = Cardinality(leaving[e])
              /\ n = Cardinality(Panicked(e)) /\ q = Len(jobs[e])
        BY <2>0
      <3>2. Cardinality(Panicked(e)') = n + 1
        BY <2>8, <3>1
      <3>3. Cardinality(running'[e]) = r - 1
        BY <2>7, <3>1
      <3>4. count[e] = q + r + l + n
        BY <2>0, <3>1
      <3>5. q + r + l + n = q + (r - 1) + l + (n + 1)
        OBVIOUS
      <3> QED
        BY <3>1, <3>2, <3>3, <3>4, <3>5
    <2> QED
      BY <2>3, <2>6, <2>7, <2>8, <2>9, CountMoves DEF SamePanicked, CountInv, Finite
  <1> QED
    BY <1>1, <1>2, <1>3, <1>4, <1>5, <1>6, <1>7, <1>8, <1>9, <1>10, <1>11 DEF Next

LEMMA CountInvariance == Spec => []CountInv
  <1>1. Init => CountInv
    <2> SUFFICES ASSUME Init PROVE CountInv
      OBVIOUS
    <2>1. \A e \in End : /\ running[e] = {} /\ leaving[e] = {} /\ Panicked(e) = {}
                         /\ jobs[e] = <<>> /\ count[e] = 0
      BY DEF Init, Panicked
    <2>2. IsFiniteSet({}) /\ Cardinality({}) = 0 /\ Len(<<>>) = 0
      BY FS_EmptySet, MembersOfNone
    <2>3. Finite
      BY <2>1, <2>2 DEF Finite
    <2>4. \A e \in End : count[e] = Len(jobs[e]) + Cardinality(running[e]) + Cardinality(leaving[e])
                                    + Cardinality(Panicked(e))
      <3> TAKE e \in End
      <3>1. /\ Len(jobs[e]) = 0 /\ Cardinality(running[e]) = 0
            /\ Cardinality(leaving[e]) = 0 /\ Cardinality(Panicked(e)) = 0
        BY <2>1, <2>2
      <3> QED
        BY <3>1, <2>1
    <2> QED
      BY <2>1, <2>3, <2>4 DEF CountInv, CountIsJobs
  <1>2. Inv /\ CountInv /\ [Next]_vars => CountInv'
    <2>1. CountInv /\ UNCHANGED vars => CountInv'
      BY CountKept DEF vars, pool, SamePanicked, Panicked
    <2> QED
      BY <2>1, CountNext
  <1> QED
    BY <1>1, <1>2, Invariance, PTL DEF Spec

(* The count of a server is that of its jobs and of those that panicked.    *)
THEOREM CountsAreJobs == Spec => []CountIsJobs
  <1>1. CountInv => CountIsJobs
    BY DEF CountInv
  <1> QED
    BY <1>1, CountInvariance, PTL
-------------------------------------------------------------------------------
(* A server thread that has ended leaves nothing behind.                    *)

LEMMA EmptyWhenZero ==
  ASSUME Inv, CountInv, NEW e \in End, count[e] = 0
  PROVE  jobs[e] = <<>> /\ running[e] = {} /\ leaving[e] = {} /\ Panicked(e) = {}
  <1>1. PICK r \in Nat, l \in Nat, n \in Nat, q \in Nat :
          /\ r = Cardinality(running[e]) /\ l = Cardinality(leaving[e])
          /\ n = Cardinality(Panicked(e)) /\ q = Len(jobs[e])
          /\ 0 = q + r + l + n
    BY CountOf
  <1>2. r = 0 /\ l = 0 /\ n = 0 /\ q = 0
    BY <1>1
  <1>3. IsFiniteSet(running[e]) /\ IsFiniteSet(leaving[e]) /\ IsFiniteSet(Panicked(e))
    BY CountOf
  <1>4. running[e] = {} /\ leaving[e] = {} /\ Panicked(e) = {}
    BY <1>1, <1>2, <1>3, FS_EmptySet
  <1>5. jobs[e] \in Seq(Packet) /\ Len(jobs[e]) = 0
    BY <1>1, <1>2, Types
  <1>6. jobs[e] = <<>>
    BY <1>5, EmptySeq
  <1> QED
    BY <1>4, <1>6

DoneInv == \A e \in End : server[e] = "done" => count[e] = 0

LEMMA DoneNext ==
  ASSUME Inv, CountInv, DoneInv, Next
  PROVE  DoneInv'
  <1> USE DEF channels, callers, pool, threads
  <1>0. server \in [End -> {"open", "draining", "done"}] /\ count \in [End -> Int]
    BY DEF Inv, TypeOK
  <1>1. ASSUME NEW c \in Call,
               \/ TakeSlot(c) \/ TooManyCalls(c) \/ SendRequest(c) \/ SendFails(c)
               \/ Return(c) \/ Abort(c)
        PROVE  DoneInv'
    <2>1. UNCHANGED <<server, count>>
      BY <1>1 DEF TakeSlot, TooManyCalls, SendRequest, SendFails, Return, Abort
    <2> QED
      BY <2>1 DEF DoneInv
  <1>2. ASSUME NEW e \in End,
               \/ Forward(e) \/ Close(e) \/ MuxEnds(e) \/ StartJob(e)
               \/ ReceiveResponse(e) \/ ClientEnds(e)
        PROVE  DoneInv'
    <2>1. UNCHANGED <<server, count>>
      BY <1>2 DEF Forward, Close, MuxEnds, StartJob, ReceiveResponse, ClientEnds
    <2> QED
      BY <2>1 DEF DoneInv
  <1>3. ASSUME NEW e \in End, NEW p, Respond(e, p) \/ Panic(e, p)
        PROVE  DoneInv'
    <2>1. UNCHANGED <<server, count>>
      BY <1>3 DEF Respond, Panic
    <2> QED
      BY <2>1 DEF DoneInv
  <1>4. ASSUME NEW e \in End, ReceiveRequest(e) PROVE DoneInv'
    <2>1. server[e] = "open" /\ UNCHANGED server
          /\ count' = [count EXCEPT ![e] = count[e] + 1]
      BY <1>4 DEF ReceiveRequest, CountUp
    <2> QED
      BY <2>1, <1>0 DEF DoneInv
  <1>5. ASSUME NEW e \in End, NEW p, Leave(e, p) PROVE DoneInv'
    <2>1. p \in leaving[e] /\ UNCHANGED server
          /\ count' = [count EXCEPT ![e] = count[e] - 1]
      BY <1>5 DEF Leave, CountDown
    <2>2. server[e] # "done"
      BY <2>1, EmptyWhenZero DEF DoneInv
    <2> QED
      BY <2>1, <2>2, <1>0 DEF DoneInv
  <1>6. ASSUME NEW e \in End, ServerBreaks(e) \/ ServerEnds(e) PROVE DoneInv'
    BY <1>6, <1>0 DEF ServerBreaks, ServerEnds, DoneInv
  <1> QED
    BY <1>1, <1>2, <1>3, <1>4, <1>5, <1>6 DEF Next

(* When the server thread of an end has ended, no request of that end is    *)
(* left in its channel or its pool, none runs, and none has panicked: the   *)
(* wait for the count (server.rs) does what it is for, and a single panic   *)
(* before makes it wait for ever.                                           *)
THEOREM ServersEndIdle == Spec => []ServerEndsIdle
  <1>1. Init => DoneInv
    BY DEF Init, DoneInv
  <1>2. Inv /\ CountInv /\ DoneInv /\ [Next]_vars => DoneInv'
    <2>1. DoneInv /\ UNCHANGED vars => DoneInv'
      BY DEF DoneInv, vars, threads, pool
    <2> QED
      BY <2>1, DoneNext
  <1>3. Inv /\ CountInv /\ DoneInv => ServerEndsIdle
    <2> SUFFICES ASSUME Inv, CountInv, DoneInv, NEW e \in End, server[e] = "done"
                 PROVE  /\ requests[e] = <<>> /\ jobs[e] = <<>>
                        /\ running[e] = {} /\ leaving[e] = {} /\ Panicked(e) = {}
      BY DEF ServerEndsIdle
    <2>1. requests[e] = <<>>
      BY DEF Inv, ThreadInv
    <2>2. count[e] = 0
      BY DEF DoneInv
    <2> QED
      BY <2>1, <2>2, EmptyWhenZero
  <1> QED
    BY <1>1, <1>2, <1>3, Invariance, CountInvariance, PTL DEF Spec
-------------------------------------------------------------------------------
(* Refinement.  Each step is one of Invocation, or changes neither what the *)
(* callers know nor what became of the methods.                             *)

Callers == [c \in Call |-> CallerState(c)]
Methods == [c \in Call |-> MethodState(c)]

NotYet == {"none", "requestWire", "requestChannel", "jobQueue"}
Over == {"responseWire", "responseChannel", "reply", "taken", "unsent"}

LEMMA CallerStates ==
  ASSUME Inv, NEW c \in Call
  PROVE  /\ pc[c] = "new" => CallerState(c) = "idle"
         /\ pc[c] \in {"slot", "waiting"} => CallerState(c) = "calling"
         /\ pc[c] \in {"returned", "failed"} => CallerState(c) = pc[c]
         /\ Callers[c] = CallerState(c)
  BY DEF CallerState, Callers

LEMMA MethodStates ==
  ASSUME Inv, NEW c \in Call
  PROVE  /\ place[c] \in NotYet => MethodState(c) = "none"
         /\ place[c] \in {"running", "panicked"} => MethodState(c) = place[c]
         /\ place[c] \in Over => MethodState(c) = "ended"
         /\ Methods[c] = MethodState(c)
  BY DEF MethodState, Methods, NotYet, Over

LEMMA CallersStay ==
  ASSUME UNCHANGED pc
  PROVE  Callers' = Callers
  BY DEF Callers, CallerState

LEMMA MethodsStay ==
  ASSUME UNCHANGED place
  PROVE  Methods' = Methods
  BY DEF Methods, MethodState

LEMMA CallerChanges ==
  ASSUME Inv, NEW c \in Call, NEW v, NEW w, pc' = [pc EXCEPT ![c] = v],
         \/ v \in {"slot", "waiting"} /\ w = "calling"
         \/ v \in {"returned", "failed"} /\ w = v
  PROVE  Callers' = [Callers EXCEPT ![c] = w]
  <1>1. pc \in [Call -> {"new", "slot", "waiting", "returned", "failed"}]
    BY DEF Inv, TypeOK
  <1>2. CallerState(c)' = w
    BY <1>1 DEF CallerState
  <1>3. \A d \in Call \ {c} : CallerState(d)' = CallerState(d)
    BY <1>1 DEF CallerState
  <1> QED
    BY <1>2, <1>3 DEF Callers

LEMMA MethodChanges ==
  ASSUME Inv, NEW c \in Call, NEW v, NEW w, place' = [place EXCEPT ![c] = v],
         \/ v \in NotYet /\ w = "none"
         \/ v \in {"running", "panicked"} /\ w = v
         \/ v \in Over /\ w = "ended"
  PROVE  Methods' = [Methods EXCEPT ![c] = w]
  <1>1. place \in [Call -> Place]
    BY DEF Inv, TypeOK
  <1>2. MethodState(c)' = w
    BY <1>1 DEF MethodState, NotYet, Over
  <1>3. \A d \in Call \ {c} : MethodState(d)' = MethodState(d)
    BY <1>1 DEF MethodState
  <1> QED
    BY <1>2, <1>3 DEF Methods

(* A packet that goes on its way changes nothing for the users.             *)
LEMMA PacketMoves ==
  ASSUME Inv, NEW c \in Call, NEW v, place' = [place EXCEPT ![c] = v],
         \/ place[c] \in NotYet /\ v \in NotYet
         \/ place[c] \in Over /\ v \in Over
  PROVE  Methods' = Methods
  <1>1. PICK w : w = Methods[c] /\ Methods' = [Methods EXCEPT ![c] = w]
    <2>1. CASE place[c] \in NotYet /\ v \in NotYet
      BY <2>1, MethodStates, MethodChanges
    <2>2. CASE place[c] \in Over /\ v \in Over
      BY <2>2, MethodStates, MethodChanges
    <2> QED
      BY <2>1, <2>2
  <1> QED
    BY <1>1 DEF Methods

MayInvoke(c) == Parent[c] = NoCall \/ Methods[Parent[c]] = "running"

(* The steps of Invocation, said of Callers and Methods.                    *)
LEMMA Steps ==
  ASSUME NEW c \in Call
  PROVE  /\ Callers[c] = "idle" /\ MayInvoke(c) /\ Methods' = Methods
            /\ Callers' = [Callers EXCEPT ![c] = "calling"] => Promise!Next
         /\ Callers[c] = "calling" \/ (Callers[c] = "idle" /\ MayInvoke(c)) =>
            (Methods' = Methods /\ Callers' = [Callers EXCEPT ![c] = "failed"]
             => Promise!Next)
         /\ Callers[c] = "calling" /\ Methods[c] = "ended" /\ Methods' = Methods
            /\ Callers' = [Callers EXCEPT ![c] = "returned"] => Promise!Next
         /\ Callers[c] \in {"calling", "failed"} /\ Methods[c] = "none"
            /\ Callers' = Callers
            /\ Methods' = [Methods EXCEPT ![c] = "running"] => Promise!Next
         /\ Methods[c] = "running" /\ Callers' = Callers
            /\ (\A d \in Children(c) : Callers[d] \in {"idle", "returned"})
            /\ Methods' = [Methods EXCEPT ![c] = "ended"] => Promise!Next
         /\ Methods[c] = "running" /\ Callers' = Callers
            /\ (\A d \in Children(c) : Callers[d] # "calling")
            /\ Methods' = [Methods EXCEPT ![c] = "panicked"] => Promise!Next
  <1> USE DEF Callers, Methods, MayInvoke, Children
  <1>1. Promise!Invoke(c) \/ Promise!Fail(c) \/ Promise!Return(c) \/ Promise!Execute(c)
        \/ Promise!End(c) \/ Promise!Panic(c) => Promise!Next
    BY DEF Promise!Next
  <1>2. Callers[c] = "idle" /\ MayInvoke(c) /\ Methods' = Methods
        /\ Callers' = [Callers EXCEPT ![c] = "calling"] => Promise!Invoke(c)
    BY DEF Promise!Invoke, Promise!MayCall
  <1>3. Callers[c] = "calling" \/ (Callers[c] = "idle" /\ MayInvoke(c)) =>
        (Methods' = Methods /\ Callers' = [Callers EXCEPT ![c] = "failed"]
         => Promise!Fail(c))
    BY DEF Promise!Fail, Promise!MayCall
  <1>4. Callers[c] = "calling" /\ Methods[c] = "ended" /\ Methods' = Methods
        /\ Callers' = [Callers EXCEPT ![c] = "returned"] => Promise!Return(c)
    BY DEF Promise!Return
  <1>5. Callers[c] \in {"calling", "failed"} /\ Methods[c] = "none" /\ Callers' = Callers
        /\ Methods' = [Methods EXCEPT ![c] = "running"] => Promise!Execute(c)
    BY DEF Promise!Execute
  <1>6. Methods[c] = "running" /\ Callers' = Callers
        /\ (\A d \in Children(c) : Callers[d] \in {"idle", "returned"})
        /\ Methods' = [Methods EXCEPT ![c] = "ended"] => Promise!End(c)
    BY DEF Promise!End, Promise!Children
  <1>7. Methods[c] = "running" /\ Callers' = Callers
        /\ (\A d \in Children(c) : Callers[d] # "calling")
        /\ Methods' = [Methods EXCEPT ![c] = "panicked"] => Promise!Panic(c)
    BY DEF Promise!Panic, Promise!Children
  <1> HIDE DEF Callers, Methods, MayInvoke, Children
  <1> QED
    BY <1>1, <1>2, <1>3, <1>4, <1>5, <1>6, <1>7

LEMMA MayCallsInvoke ==
  ASSUME Inv, NEW c \in Call, MayCall(c)
  PROVE  MayInvoke(c)
  <1>1. CASE Parent[c] = NoCall
    BY <1>1 DEF MayInvoke
  <1>2. CASE Parent[c] # NoCall
    <2>1. PICK p \in running[From[c]] : p.call = Parent[c]
      BY <1>2 DEF MayCall
    <2>2. From[c] \in End
      BY Ends
    <2>3. place[Parent[c]] = "running"
      BY <2>1, <2>2 DEF Inv, PacketInv, PacketsOf, RequestAt
    <2>4. Parent[c] \in Call
      BY <1>2, CallAssumption
    <2> QED
      BY <2>3, <2>4, MethodStates DEF MayInvoke
  <1> QED
    BY <1>1, <1>2

Step == Promise!Next \/ UNCHANGED Promise!vars

LEMMA Stutters ==
  ASSUME Callers' = Callers, Methods' = Methods
  PROVE  Step
  BY DEF Step, Promise!vars, Callers, Methods

LEMMA NextIsStep ==
  ASSUME Inv, Next
  PROVE  Step
  <1> USE DEF channels, callers, pool, threads
  <1>1. ASSUME NEW c \in Call, TakeSlot(c) PROVE Step
    <2>1. pc[c] = "new" /\ MayCall(c) /\ pc' = [pc EXCEPT ![c] = "slot"]
          /\ UNCHANGED place
      BY <1>1 DEF TakeSlot
    <2>2. Callers' = [Callers EXCEPT ![c] = "calling"] /\ Methods' = Methods
      BY <2>1, CallerChanges, MethodsStay
    <2>3. Callers[c] = "idle" /\ MayInvoke(c)
      BY <2>1, CallerStates, MayCallsInvoke
    <2> QED
      BY <2>2, <2>3, Steps DEF Step
  <1>2. ASSUME NEW c \in Call, TooManyCalls(c) PROVE Step
    <2>1. pc[c] = "new" /\ MayCall(c) /\ pc' = [pc EXCEPT ![c] = "failed"]
          /\ UNCHANGED place
      BY <1>2 DEF TooManyCalls
    <2>2. Callers' = [Callers EXCEPT ![c] = "failed"] /\ Methods' = Methods
      BY <2>1, CallerChanges, MethodsStay
    <2>3. Callers[c] = "idle" /\ MayInvoke(c)
      BY <2>1, CallerStates, MayCallsInvoke
    <2> QED
      BY <2>2, <2>3, Steps DEF Step
  <1>3. ASSUME NEW c \in Call, SendFails(c) \/ Abort(c) PROVE Step
    <2>1. pc[c] \in {"slot", "waiting"} /\ pc' = [pc EXCEPT ![c] = "failed"]
          /\ UNCHANGED place
      BY <1>3 DEF SendFails, Abort
    <2>2. Callers' = [Callers EXCEPT ![c] = "failed"] /\ Methods' = Methods
      BY <2>1, CallerChanges, MethodsStay
    <2>3. Callers[c] = "calling"
      BY <2>1, CallerStates
    <2> QED
      BY <2>2, <2>3, Steps DEF Step
  <1>4. ASSUME NEW c \in Call, SendRequest(c) PROVE Step
    <2>1. pc[c] = "slot" /\ pc' = [pc EXCEPT ![c] = "waiting"]
          /\ place' = [place EXCEPT ![c] = "requestWire"]
      BY <1>4 DEF SendRequest, Reached
    <2>2. place[c] = "none"
      BY <2>1 DEF Inv, CallerInv
    <2>3. Methods' = Methods
      BY <2>1, <2>2, PacketMoves DEF NotYet
    <2>4. Callers' = [Callers EXCEPT ![c] = "calling"] /\ Callers[c] = "calling"
      BY <2>1, CallerChanges, CallerStates
    <2>5. Callers' = Callers
      BY <2>4 DEF Callers
    <2> QED
      BY <2>3, <2>5, Stutters
  <1>5. ASSUME NEW c \in Call, Return(c) PROVE Step
    <2>1. slot[c] \in Slot /\ From[c] \in End /\ pc[c] = "waiting"
      BY <1>5, Ends DEF Return, Inv, CallerInv
    <2>2. Head(reply[From[c]][slot[c]]) \in Range(reply[From[c]][slot[c]])
      BY <1>5, <2>1, Types, TailMembers DEF Return
    <2>3. place[c] = "reply" /\ place' = [place EXCEPT ![c] = "taken"]
          /\ pc' = [pc EXCEPT ![c] = "returned"]
      BY <1>5, <2>1, <2>2, ReplyIsOwn DEF Return, Reached
    <2>4. Methods' = Methods /\ Methods[c] = "ended"
      BY <2>3, PacketMoves, MethodStates DEF Over
    <2>5. Callers' = [Callers EXCEPT ![c] = "returned"] /\ Callers[c] = "calling"
      BY <2>1, <2>3, CallerChanges, CallerStates
    <2> QED
      BY <2>4, <2>5, Steps DEF Step
  <1>6. ASSUME NEW e \in End, Forward(e) PROVE Step
    <2>1. PICK p \in Packet : p = Head(wire[e]) /\ p \in Range(wire[e])
      BY <1>6, Types, TailMembers DEF Forward
    <2>2. p.call \in Call
      BY <2>1, SlotNumbers
    <2>3. CASE IsRequest(p)
      <3>1. place[p.call] = "requestWire"
        BY <2>1, <2>3, SlotNumbers DEF Inv, PacketInv, PacketsOf, RequestAt, ResponseAt
      <3>2. place' = [place EXCEPT ![p.call] = "requestChannel"] /\ UNCHANGED pc
        BY <1>6, <2>1, <2>3 DEF Forward, Reached
      <3> QED
        BY <2>2, <3>1, <3>2, PacketMoves, CallersStay, Stutters DEF NotYet
    <2>4. CASE ~ IsRequest(p)
      <3>1. place[p.call] = "responseWire"
        BY <2>1, <2>4, SlotNumbers DEF Inv, PacketInv, PacketsOf, RequestAt, ResponseAt
      <3>2. place' = [place EXCEPT ![p.call] = "responseChannel"] /\ UNCHANGED pc
        BY <1>6, <2>1, <2>4 DEF Forward, Reached
      <3> QED
        BY <2>2, <3>1, <3>2, PacketMoves, CallersStay, Stutters DEF Over
    <2> QED
      BY <2>3, <2>4
  <1>7. ASSUME NEW e \in End,
               \/ Close(e) \/ MuxEnds(e) \/ ServerBreaks(e) \/ ServerEnds(e)
               \/ ClientEnds(e)
        PROVE  Step
    <2>1. UNCHANGED <<pc, place>>
      BY <1>7 DEF Close, MuxEnds, ServerBreaks, ServerEnds, ClientEnds
    <2> QED
      BY <2>1, CallersStay, MethodsStay, Stutters
  <1>8. ASSUME NEW e \in End, ReceiveRequest(e) PROVE Step
    <2>1. PICK p \in Packet : p = Head(requests[e]) /\ p \in Range(requests[e])
      BY <1>8, Types, TailMembers DEF ReceiveRequest
    <2>2. p.call \in Call /\ place[p.call] = "requestChannel"
      BY <2>1, SlotNumbers DEF Inv, PacketInv, PacketsOf, RequestAt
    <2>3. place' = [place EXCEPT ![p.call] = "jobQueue"] /\ UNCHANGED pc
      BY <1>8, <2>1 DEF ReceiveRequest, Reached
    <2> QED
      BY <2>2, <2>3, PacketMoves, CallersStay, Stutters DEF NotYet
  <1>9. ASSUME NEW e \in End, StartJob(e) PROVE Step
    <2>1. PICK p \in Packet : p = Head(jobs[e]) /\ p \in Range(jobs[e])
      BY <1>9, Types, TailMembers DEF StartJob
    <2>2. p.call \in Call /\ place[p.call] = "jobQueue" /\ pc[p.call] \in {"waiting", "failed"}
      BY <2>1, SlotNumbers DEF Inv, PacketInv, PacketsOf, RequestAt
    <2>3. place' = [place EXCEPT ![p.call] = "running"] /\ UNCHANGED pc
      BY <1>9, <2>1 DEF StartJob, Reached
    <2>4. Methods' = [Methods EXCEPT ![p.call] = "running"] /\ Methods[p.call] = "none"
      BY <2>2, <2>3, MethodChanges, MethodStates DEF NotYet
    <2>5. Callers' = Callers /\ Callers[p.call] \in {"calling", "failed"}
      BY <2>2, <2>3, CallersStay, CallerStates
    <2> QED
      BY <2>2, <2>4, <2>5, Steps DEF Step
  <1>10. ASSUME NEW e \in End, ReceiveResponse(e) PROVE Step
    <2>1. PICK p \in Packet : p = Head(responses[e]) /\ p \in Range(responses[e])
      BY <1>10, Types, TailMembers DEF ReceiveResponse
    <2>2. p.call \in Call /\ place[p.call] = "responseChannel"
      BY <2>1, SlotNumbers DEF Inv, PacketInv, PacketsOf, ResponseAt
    <2>3. place' = [place EXCEPT ![p.call] = "reply"] /\ UNCHANGED pc
      BY <1>10, <2>1 DEF ReceiveResponse, Reached
    <2> QED
      BY <2>2, <2>3, PacketMoves, CallersStay, Stutters DEF Over
  <1>11. ASSUME NEW e \in End, NEW p, Respond(e, p) PROVE Step
    <2>1. p \in running[e] /\ p.call \in Call
      BY <1>11, Types, SlotNumbers DEF Respond
    <2>2. place[p.call] = "running"
      BY <2>1 DEF Inv, PacketInv, PacketsOf, RequestAt
    <2>3. PICK v \in Over : place' = [place EXCEPT ![p.call] = v]
      BY <1>11 DEF Respond, Reached, Over
    <2>4. Methods' = [Methods EXCEPT ![p.call] = "ended"] /\ Methods[p.call] = "running"
      BY <2>1, <2>2, <2>3, MethodChanges, MethodStates
    <2>5. UNCHANGED pc /\ \A d \in Children(p.call) : pc[d] \in {"new", "returned"}
      BY <1>11 DEF Respond
    <2>6. \A d \in Children(p.call) : Callers[d] \in {"idle", "returned"}
      BY <2>5, CallerStates DEF Children
    <2>7. Callers' = Callers
      BY <2>5, CallersStay
    <2> QED
      BY <2>1, <2>4, <2>6, <2>7, Steps DEF Step
  <1>12. ASSUME NEW e \in End, NEW p, Leave(e, p) PROVE Step
    <2>1. UNCHANGED <<pc, place>>
      BY <1>12 DEF Leave
    <2> QED
      BY <2>1, CallersStay, MethodsStay, Stutters
  <1>13. ASSUME NEW e \in End, NEW p, Panic(e, p) PROVE Step
    <2>1. p \in running[e] /\ p.call \in Call
      BY <1>13, Types, SlotNumbers DEF Panic
    <2>2. place[p.call] = "running"
      BY <2>1 DEF Inv, PacketInv, PacketsOf, RequestAt
    <2>3. place' = [place EXCEPT ![p.call] = "panicked"] /\ UNCHANGED pc
          /\ \A d \in Children(p.call) : pc[d] \in {"new", "returned", "failed"}
      BY <1>13 DEF Panic, Reached
    <2>4. Methods' = [Methods EXCEPT ![p.call] = "panicked"]
      BY <2>1, <2>3, MethodChanges
    <2>5. Methods[p.call] = "running"
      BY <2>1, <2>2, MethodStates
    <2>6. \A d \in Children(p.call) : Callers[d] # "calling"
      BY <2>3, CallerStates DEF Children
    <2>7. Callers' = Callers
      BY <2>3, CallersStay
    <2> QED
      BY <2>1, <2>4, <2>5, <2>6, <2>7, Steps DEF Step
  <1> QED
    BY <1>1, <1>2, <1>3, <1>4, <1>5, <1>6, <1>7, <1>8, <1>9, <1>10, <1>11, <1>12, <1>13
    DEF Next

(* The connection keeps the promise of a call: a method is executed at most *)
(* once, its caller gets an answer only after it has ended, a method waits  *)
(* for the calls it makes and answers only if none of them failed; whatever *)
(* the slots, the queues, the pools, the nesting, panics and closes.        *)
THEOREM CallsKeepPromise == Spec => KeepsPromise
  <1>1. Init => Promise!Init
    <2> SUFFICES ASSUME Init PROVE Promise!Init
      OBVIOUS
    <2>1. \A c \in Call : CallerState(c) = "idle" /\ MethodState(c) = "none"
      BY DEF Init, CallerState, MethodState
    <2> QED
      BY <2>1 DEF Promise!Init
  <1>2. Inv /\ [Next]_vars => [Promise!Next]_(Promise!vars)
    <2>1. UNCHANGED vars => Step
      BY CallersStay, MethodsStay, Stutters DEF vars, callers
    <2> QED
      BY <2>1, NextIsStep DEF Step
  <1> QED
    BY <1>1, <1>2, Invariance, PTL DEF Spec, KeepsPromise, Promise!Spec
-------------------------------------------------------------------------------
(* No packet is lost on its way.                                            *)

Keeps(c, before, after) == \A q \in before : q.call # c => q \in after

(* A step that moves call c leaves the packets of all others where they are.*)
LEMMA OthersPresent ==
  ASSUME NothingLost, NEW c \in Call, Steady(c),
         \A f \in End :
           /\ up'[f] => up[f]
           /\ mux'[f] = "open" => mux[f] = "open"
           /\ mux'[f] = "open" => Keeps(c, Range(wire[f]), Range(wire'[f]))
           /\ Keeps(c, Range(requests[f]), Range(requests'[f]))
           /\ Keeps(c, Range(responses[f]), Range(responses'[f]))
           /\ Keeps(c, Range(jobs[f]), Range(jobs'[f]))
           /\ Keeps(c, running[f], running'[f])
           /\ \A s \in Slot : Keeps(c, Range(reply[f][s]), Range(reply'[f][s])),
         Present(c)'
  PROVE  NothingLost'
  <1>1. ASSUME NEW d \in Call, d # c
        PROVE  Present(d)'
    <2>1. Present(d) /\ place'[d] = place[d] /\ From[d] \in End /\ To(d) \in End
      BY <1>1, Ends DEF NothingLost, Steady
    <2>2. ASSUME NEW A, NEW B, Keeps(c, A, B), IsIn(d, A)
          PROVE  IsIn(d, B)
      BY <1>1, <2>2 DEF Keeps, IsIn
    <2> QED
      BY <2>1, <2>2 DEF Present
  <1> QED
    BY <1>1 DEF NothingLost

(* Nor does any other step lose one: only a multiplexer that ends drops the *)
(* packets on the wire to it.                                               *)
LEMMA PresentKept ==
  ASSUME NothingLost,
         UNCHANGED <<place, requests, responses, reply, jobs, running>>,
         \A f \in End :
           /\ up'[f] => up[f]
           /\ mux'[f] = "open" => mux[f] = "open" /\ wire'[f] = wire[f]
  PROVE  NothingLost'
  <1> SUFFICES ASSUME NEW d \in Call PROVE Present(d)'
    BY DEF NothingLost
  <1>1. Present(d) /\ From[d] \in End /\ To(d) \in End
    BY Ends DEF NothingLost
  <1> QED
    BY <1>1 DEF Present

LEMMA KeepsAll ==
  ASSUME NEW c, NEW A
  PROVE  /\ Keeps(c, A, A)
         /\ \A B : A \subseteq B => Keeps(c, A, B)
         /\ \A q, B : A \subseteq B \cup {q} /\ q.call = c => Keeps(c, A, B)
  BY DEF Keeps

LEMMA SteadyMove ==
  ASSUME Inv, NEW c \in Call, NEW w, place' = [place EXCEPT ![c] = w],
         \A d \in Call \ {c} : pc'[d] = pc[d] /\ slot'[d] = slot[d]
  PROVE  Steady(c) /\ place'[c] = w
  BY DEF Inv, TypeOK, Steady

LEMMA NothingLostNext ==
  ASSUME Inv, Next, NothingLost
  PROVE  NothingLost'
  <1> USE DEF channels, callers, pool, threads
  <1>0. /\ pc \in [Call -> {"new", "slot", "waiting", "returned", "failed"}]
        /\ slot \in [Call -> Slot \cup {NoSlot}]
        /\ up \in [End -> BOOLEAN] /\ mux \in [End -> {"open", "closed"}]
        /\ wire \in [End -> Seq(Packet)] /\ jobs \in [End -> Seq(Packet)]
        /\ requests \in [End -> Seq(Packet)] /\ responses \in [End -> Seq(Packet)]
        /\ running \in [End -> SUBSET Packet]
        /\ reply \in [End -> [Slot -> Seq(Packet)]]
    BY DEF Inv, TypeOK
  <1>1. ASSUME NEW c \in Call,
               TakeSlot(c) \/ TooManyCalls(c) \/ SendFails(c) \/ Abort(c)
        PROVE  NothingLost'
    BY <1>1, PresentKept DEF TakeSlot, TooManyCalls, SendFails, Abort
  <1>2. ASSUME NEW c \in Call, SendRequest(c) PROVE NothingLost'
    <2>1. To(c) \in End /\ slot[c] \in Slot
      BY <1>2, Ends DEF SendRequest, Inv, CallerInv
    <2> DEFINE request == [slot |-> IntoRequest(slot[c]), call |-> c]
    <2>0. request \in Packet /\ request.call = c
      BY <2>1, SlotNumbers
    <2>2. PICK p \in Packet : p = request /\ p.call = c
      BY <2>0
    <2>3. Steady(c) /\ place'[c] = "requestWire"
      BY <1>2, <1>0, SteadyMove DEF SendRequest, Reached
    <2>4. /\ wire'[To(c)] = Append(wire[To(c)], p)
          /\ \A f \in End \ {To(c)} : wire'[f] = wire[f]
      BY <1>2, <1>0, <2>1, <2>2 DEF SendRequest
    <2>5. Range(wire'[To(c)]) = Range(wire[To(c)]) \cup {p}
      BY <1>0, <2>1, <2>2, <2>4, AppendMembers
    <2>6. Present(c)'
      BY <2>2, <2>3, <2>5 DEF Present, IsIn
    <2>7. \A f \in End : Keeps(c, Range(wire[f]), Range(wire'[f]))
      BY <2>4, <2>5, KeepsAll
    <2> QED
      BY <1>2, <2>3, <2>6, <2>7, KeepsAll, OthersPresent DEF SendRequest
  <1>3. ASSUME NEW c \in Call, Return(c) PROVE NothingLost'
    <2> DEFINE e == From[c]
               s == slot[c]
    <2>1. s \in Slot /\ e \in End /\ pc[c] = "waiting"
      BY <1>3, Ends DEF Return, Inv, CallerInv
    <2>2. /\ Head(reply[e][s]) \in Range(reply[e][s])
          /\ Range(reply[e][s]) = Range(Tail(reply[e][s])) \cup {Head(reply[e][s])}
      BY <1>3, <2>1, Types, TailMembers DEF Return
    <2>3. Head(reply[e][s]).call = c
      BY <2>1, <2>2, ReplyIsOwn
    <2>4. Steady(c) /\ place'[c] = "taken"
      BY <1>3, <1>0, <2>3, SteadyMove DEF Return, Reached
    <2>5. Present(c)'
      BY <2>4 DEF Present
    <2>6. \A f \in End, t \in Slot :
            \/ reply'[f][t] = reply[f][t]
            \/ f = e /\ t = s /\ reply'[f][t] = Tail(reply[e][s])
      BY <1>3, <1>0, <2>1 DEF Return
    <2>7. \A f \in End, t \in Slot : Keeps(c, Range(reply[f][t]), Range(reply'[f][t]))
      BY <2>2, <2>3, <2>6, KeepsAll
    <2> QED
      BY <1>3, <2>4, <2>5, <2>7, KeepsAll, OthersPresent DEF Return
  <1>4. ASSUME NEW e \in End, Forward(e) PROVE NothingLost'
    <2>1. PICK p \in Packet :
            /\ p = Head(wire[e]) /\ p \in Range(wire[e])
            /\ Range(wire[e]) = Range(Tail(wire[e])) \cup {p}
      BY <1>4, Types, TailMembers DEF Forward
    <2>2. p.call \in Call /\ Range(<<p>>) = {p}
      BY <2>1, SlotNumbers, MembersOfOne
    <2>3. \A f \in End : Keeps(p.call, Range(wire[f]), Range(wire'[f]))
      <3>1. \A f \in End : wire'[f] = wire[f] \/ (f = e /\ wire'[f] = Tail(wire[e]))
        BY <1>4, <1>0 DEF Forward
      <3> QED
        BY <3>1, <2>1, KeepsAll
    <2>4. CASE IsRequest(p)
      <3>1. /\ requests[e] = <<>> /\ requests' = [requests EXCEPT ![e] = <<p>>]
            /\ UNCHANGED responses
            /\ place' = [place EXCEPT ![p.call] = "requestChannel"]
        BY <1>4, <2>1, <2>4 DEF Forward, HasRoom, Reached
      <3>2. Steady(p.call) /\ place'[p.call] = "requestChannel"
        BY <1>4, <2>2, <3>1, SteadyMove DEF Forward
      <3>3. To(p.call) = e
        BY <2>1, <2>4, SlotNumbers DEF Inv, PacketInv, PacketsOf, RequestAt, ResponseAt
      <3>4. requests'[e] = <<p>>
        BY <3>1, <1>0
      <3>5. Present(p.call)'
        BY <2>2, <3>2, <3>3, <3>4 DEF Present, IsIn
      <3>6. \A f \in End : Keeps(p.call, Range(requests[f]), Range(requests'[f]))
        <4>1. \A f \in End : requests'[f] = requests[f] \/ requests[f] = <<>>
          BY <3>1, <1>0
        <4> QED
          BY <4>1, MembersOfNone, KeepsAll DEF Keeps
      <3> QED
        BY <1>4, <2>2, <2>3, <3>1, <3>2, <3>5, <3>6, KeepsAll, OthersPresent DEF Forward
    <2>5. CASE ~ IsRequest(p)
      <3>1. /\ responses[e] = <<>> /\ responses' = [responses EXCEPT ![e] = <<p>>]
            /\ UNCHANGED requests
            /\ place' = [place EXCEPT ![p.call] = "responseChannel"]
        BY <1>4, <2>1, <2>5 DEF Forward, HasRoom, Reached
      <3>2. Steady(p.call) /\ place'[p.call] = "responseChannel"
        BY <1>4, <2>2, <3>1, SteadyMove DEF Forward
      <3>3. From[p.call] = e
        BY <2>1, <2>5, SlotNumbers DEF Inv, PacketInv, PacketsOf, RequestAt, ResponseAt
      <3>4. responses'[e] = <<p>>
        BY <3>1, <1>0
      <3>5. Present(p.call)'
        BY <2>2, <3>2, <3>3, <3>4 DEF Present, IsIn
      <3>6. \A f \in End : Keeps(p.call, Range(responses[f]), Range(responses'[f]))
        <4>1. \A f \in End : responses'[f] = responses[f] \/ responses[f] = <<>>
          BY <3>1, <1>0
        <4> QED
          BY <4>1, MembersOfNone, KeepsAll DEF Keeps
      <3> QED
        BY <1>4, <2>2, <2>3, <3>1, <3>2, <3>5, <3>6, KeepsAll, OthersPresent DEF Forward
    <2> QED
      BY <2>4, <2>5
  <1>5. ASSUME NEW e \in End,
               \/ Close(e) \/ MuxEnds(e) \/ ServerBreaks(e) \/ ServerEnds(e)
               \/ ClientEnds(e)
        PROVE  NothingLost'
    <2>1. UNCHANGED <<place, requests, responses, reply, jobs, running>>
      BY <1>5 DEF Close, MuxEnds, ServerBreaks, ServerEnds, ClientEnds
    <2>2. ASSUME NEW f \in End
          PROVE  /\ up'[f] => up[f]
                 /\ mux'[f] = "open" => mux[f] = "open" /\ wire'[f] = wire[f]
      BY <1>5, <1>0 DEF Close, MuxEnds, ServerBreaks, ServerEnds, ClientEnds
    <2> QED
      BY <2>1, <2>2, PresentKept
  <1>6. ASSUME NEW e \in End, ReceiveRequest(e) PROVE NothingLost'
    <2>1. PICK p \in Packet :
            /\ p = Head(requests[e]) /\ p \in Range(requests[e])
            /\ Range(requests[e]) = Range(Tail(requests[e])) \cup {p}
      BY <1>6, Types, TailMembers DEF ReceiveRequest
    <2>2. p.call \in Call /\ To(p.call) = e
      BY <2>1, SlotNumbers DEF Inv, PacketInv, PacketsOf, RequestAt
    <2>3. Steady(p.call) /\ place'[p.call] = "jobQueue"
      BY <1>6, <2>1, <2>2, SteadyMove DEF ReceiveRequest, Reached
    <2>4. /\ \A f \in End : requests'[f] = requests[f]
                            \/ (f = e /\ requests'[f] = Tail(requests[e]))
          /\ \A f \in End : jobs'[f] = jobs[f] \/ (f = e /\ jobs'[f] = Append(jobs[e], p))
          /\ jobs'[e] = Append(jobs[e], p)
      BY <1>6, <1>0, <2>1 DEF ReceiveRequest
    <2>5. Range(Append(jobs[e], p)) = Range(jobs[e]) \cup {p}
      BY <1>0, AppendMembers
    <2>6. Present(p.call)'
      BY <2>2, <2>3, <2>4, <2>5 DEF Present, IsIn
    <2>7. \A f \in End : /\ Keeps(p.call, Range(requests[f]), Range(requests'[f]))
                         /\ Keeps(p.call, Range(jobs[f]), Range(jobs'[f]))
      BY <2>1, <2>4, <2>5, KeepsAll
    <2> QED
      BY <1>6, <2>2, <2>3, <2>6, <2>7, KeepsAll, OthersPresent DEF ReceiveRequest
  <1>7. ASSUME NEW e \in End, StartJob(e) PROVE NothingLost'
    <2>1. PICK p \in Packet :
            /\ p = Head(jobs[e]) /\ p \in Range(jobs[e])
            /\ Range(jobs[e]) = Range(Tail(jobs[e])) \cup {p}
      BY <1>7, Types, TailMembers DEF StartJob
    <2>2. p.call \in Call /\ To(p.call) = e
      BY <2>1, SlotNumbers DEF Inv, PacketInv, PacketsOf, RequestAt
    <2>3. Steady(p.call) /\ place'[p.call] = "running"
      BY <1>7, <2>1, <2>2, SteadyMove DEF StartJob, Reached
    <2>4. /\ \A f \in End : jobs'[f] = jobs[f] \/ (f = e /\ jobs'[f] = Tail(jobs[e]))
          /\ \A f \in End : running[f] \subseteq running'[f]
          /\ p \in running'[e]
      BY <1>7, <1>0, <2>1 DEF StartJob
    <2>6. Present(p.call)'
      BY <2>2, <2>3, <2>4 DEF Present, IsIn
    <2>7. \A f \in End : /\ Keeps(p.call, Range(jobs[f]), Range(jobs'[f]))
                         /\ Keeps(p.call, running[f], running'[f])
      BY <2>1, <2>4, KeepsAll
    <2> QED
      BY <1>7, <2>2, <2>3, <2>6, <2>7, KeepsAll, OthersPresent DEF StartJob
  <1>8. ASSUME NEW e \in End, ReceiveResponse(e) PROVE NothingLost'
    <2>1. PICK p \in Packet :
            /\ p = Head(responses[e]) /\ p \in Range(responses[e])
            /\ Range(responses[e]) = Range(Tail(responses[e])) \cup {p}
      BY <1>8, Types, TailMembers DEF ReceiveResponse
    <2>2. p.call \in Call /\ From[p.call] = e /\ p.slot \in Slot
      BY <2>1, SlotNumbers DEF Inv, PacketInv, PacketsOf, ResponseAt
    <2>3. Steady(p.call) /\ place'[p.call] = "reply"
      BY <1>8, <2>1, <2>2, SteadyMove DEF ReceiveResponse, Reached
    <2>4. /\ \A f \in End : responses'[f] = responses[f]
                            \/ (f = e /\ responses'[f] = Tail(responses[e]))
          /\ \A f \in End, t \in Slot : reply'[f][t] = reply[f][t] \/ reply[f][t] = <<>>
          /\ reply'[e][p.slot] = <<p>>
      BY <1>8, <1>0, <2>1, <2>2 DEF ReceiveResponse
    <2>5. Range(<<p>>) = {p}
      BY MembersOfOne
    <2>6. Present(p.call)'
      BY <2>2, <2>3, <2>4, <2>5 DEF Present, IsIn
    <2>7. \A f \in End : Keeps(p.call, Range(responses[f]), Range(responses'[f]))
      BY <2>1, <2>4, KeepsAll
    <2>8. \A f \in End, t \in Slot : Keeps(p.call, Range(reply[f][t]), Range(reply'[f][t]))
      BY <2>4, MembersOfNone, KeepsAll DEF Keeps
    <2> QED
      BY <1>8, <2>2, <2>3, <2>6, <2>7, <2>8, KeepsAll, OthersPresent DEF ReceiveResponse
  <1>9. ASSUME NEW e \in End, NEW p, Respond(e, p) PROVE NothingLost'
    <2>1. p \in running[e] /\ p \in Packet /\ p.call \in Call
      BY <1>9, Types, SlotNumbers DEF Respond
    <2>2. RequestAt(p, e, "running")
      BY <2>1 DEF Inv, PacketInv, PacketsOf
    <2>3. /\ To(p.call) = e /\ From[p.call] = Other(e) /\ Other(e) \in End
          /\ Response(p) \in Packet /\ Response(p).call = p.call
      BY <2>1, <2>2, Ends, SlotNumbers DEF RequestAt
    <2>4. \A f \in End : Keeps(p.call, running[f], running'[f])
      <3>1. \A f \in End : running'[f] = running[f] \/ (f = e /\ running'[f] = running[e] \ {p})
        BY <1>9, <1>0 DEF Respond
      <3> QED
        BY <3>1, <2>1 DEF Keeps
    <2>5. CASE up[e]
      <3>1. /\ wire' = [wire EXCEPT ![Other(e)] = Append(wire[Other(e)], Response(p))]
            /\ place' = [place EXCEPT ![p.call] = "responseWire"]
        BY <1>9, <2>5 DEF Respond, Reached
      <3>2. Steady(p.call) /\ place'[p.call] = "responseWire"
        BY <1>9, <2>1, <3>1, SteadyMove DEF Respond
      <3>3. /\ wire'[Other(e)] = Append(wire[Other(e)], Response(p))
            /\ \A f \in End : f # Other(e) => wire'[f] = wire[f]
        BY <3>1, <1>0, <2>3
      <3>4. Range(wire'[Other(e)]) = Range(wire[Other(e)]) \cup {Response(p)}
        BY <1>0, <2>3, <3>3, AppendMembers
      <3>5. Present(p.call)'
        BY <2>3, <3>2, <3>4 DEF Present, IsIn
      <3>6. \A f \in End : Keeps(p.call, Range(wire[f]), Range(wire'[f]))
        BY <3>3, <3>4, KeepsAll
      <3> QED
        BY <1>9, <2>1, <2>4, <3>2, <3>5, <3>6, KeepsAll, OthersPresent DEF Respond
    <2>6. CASE ~ up[e]
      <3>1. UNCHANGED wire /\ place' = [place EXCEPT ![p.call] = "unsent"] /\ UNCHANGED up
        BY <1>9, <2>6 DEF Respond, Reached
      <3>2. Steady(p.call) /\ place'[p.call] = "unsent"
        BY <1>9, <2>1, <3>1, SteadyMove DEF Respond
      <3>3. Present(p.call)'
        BY <2>3, <2>6, <3>1, <3>2 DEF Present
      <3> QED
        BY <1>9, <2>1, <2>4, <3>1, <3>2, <3>3, KeepsAll, OthersPresent DEF Respond
    <2> QED
      BY <2>5, <2>6
  <1>10. ASSUME NEW e \in End, NEW p, Leave(e, p) PROVE NothingLost'
    BY <1>10, PresentKept DEF Leave
  <1>11. ASSUME NEW e \in End, NEW p, Panic(e, p) PROVE NothingLost'
    <2>1. p \in running[e] /\ p.call \in Call
      BY <1>11, Types, SlotNumbers DEF Panic
    <2>2. Steady(p.call) /\ place'[p.call] = "panicked"
      BY <1>11, <2>1, SteadyMove DEF Panic, Reached
    <2>3. Present(p.call)'
      BY <2>2 DEF Present
    <2>4. \A f \in End : Keeps(p.call, running[f], running'[f])
      <3>1. \A f \in End : running'[f] = running[f] \/ (f = e /\ running'[f] = running[e] \ {p})
        BY <1>11, <1>0 DEF Panic
      <3> QED
        BY <3>1, <2>1 DEF Keeps
    <2>5. UNCHANGED <<mux, up, wire, requests, jobs, responses, reply>>
      BY <1>11 DEF Panic
    <2> QED
      BY <2>1, <2>2, <2>3, <2>4, <2>5, KeepsAll, OthersPresent
  <1> QED
    BY <1>1, <1>2, <1>3, <1>4, <1>5, <1>6, <1>7, <1>8, <1>9, <1>10, <1>11 DEF Next

(* While the connection works no packet is dropped, overwritten or left     *)
(* out: where a call has got to, there its packet is.                       *)
THEOREM PacketsAreNotLost == Spec => []NothingLost
  <1>1. Init => NothingLost
    BY DEF Init, NothingLost, Present
  <1>2. Inv /\ NothingLost /\ [Next]_vars => NothingLost'
    <2>1. NothingLost /\ UNCHANGED vars => NothingLost'
      BY PresentKept DEF vars, channels, pool, threads
    <2> QED
      BY <2>1, NothingLostNext
  <1> QED
    BY <1>1, <1>2, Invariance, PTL DEF Spec
-------------------------------------------------------------------------------
(* Only a connection that may close is ever closed.                         *)
MayHaveClosed == \A e \in End : up[e] \/ MayClose

LEMMA MayHaveClosedAlways == Spec => []MayHaveClosed
  <1> USE DEF channels, callers, pool, threads
  <1>1. Init => MayHaveClosed
    BY DEF Init, MayHaveClosed
  <1>2. MayHaveClosed /\ [Next]_vars => MayHaveClosed'
    <2> SUFFICES ASSUME MayHaveClosed, [Next]_vars PROVE MayHaveClosed'
      OBVIOUS
    <2>1. UNCHANGED up \/ MayClose
      <3>1. CASE UNCHANGED vars
        BY <3>1 DEF vars
      <3>2. ASSUME NEW c \in Call,
                   \/ TakeSlot(c) \/ TooManyCalls(c) \/ SendRequest(c) \/ SendFails(c)
                   \/ Return(c) \/ Abort(c)
            PROVE  UNCHANGED up
        BY <3>2 DEF TakeSlot, TooManyCalls, SendRequest, SendFails, Return, Abort
      <3>3. ASSUME NEW e \in End,
                   \/ Forward(e) \/ MuxEnds(e) \/ ReceiveRequest(e) \/ StartJob(e)
                   \/ ServerBreaks(e) \/ ServerEnds(e) \/ ReceiveResponse(e) \/ ClientEnds(e)
            PROVE  UNCHANGED up
        BY <3>3 DEF Forward, MuxEnds, ReceiveRequest, StartJob, ServerBreaks, ServerEnds,
                    ReceiveResponse, ClientEnds
      <3>4. ASSUME NEW e \in End, Close(e) PROVE MayClose
        BY <3>4 DEF Close
      <3>5. ASSUME NEW e \in End, NEW p, Respond(e, p) \/ Leave(e, p) \/ Panic(e, p)
            PROVE  UNCHANGED up
        BY <3>5 DEF Respond, Leave, Panic
      <3> QED
        BY <3>1, <3>2, <3>3, <3>4, <3>5 DEF Next
    <2> QED
      BY <2>1 DEF MayHaveClosed
  <1> QED
    BY <1>1, <1>2, PTL DEF Spec

-------------------------------------------------------------------------------
(* A state in which nothing goes on.                                        *)
Still ==
  /\ \A c \in Call : ~ CallerGoesOn(c) /\ ~ Hangs(c)
  /\ \A e \in End : ~ LibraryGoesOn(e) /\ ~ PoolGoesOn(e) /\ ~ Starved(e)

(* In it both ends send, and all channels of the library are empty.         *)
LEMMA StillLibrary ==
  ASSUME Inv, ReplyFindsCaller, MayHaveClosed, Still, NEW c \in Call, Active(c)
  PROVE  /\ pc[c] = "waiting" /\ client[From[c]] # "done"
         /\ \A e \in End : /\ up[e] /\ mux[e] = "open"
                           /\ requests[e] = <<>> /\ responses[e] = <<>> /\ wire[e] = <<>>
  <1>1. /\ \A e \in End : mux[e] \in {"open", "closed"} /\ client[e] \in {"open", "done"}
                          /\ server[e] \in {"open", "draining", "done"} /\ up[e] \in BOOLEAN
        /\ ThreadInv
    BY DEF Inv, TypeOK
  <1>2. pc[c] = "waiting" /\ client[From[c]] = "open"
    BY <1>1, Ends DEF Still, CallerGoesOn, Active
  <1>3. \A e \in End : mux[e] = "open" <=> up[e]
    BY <1>1 DEF Still, LibraryGoesOn, ThreadInv
  <1>4. \A e \in End : up[e] => up[Other(e)]
    BY <1>1, Ends DEF Still, LibraryGoesOn, MayHaveClosed
  <1>5. \A e \in End : requests[e] = <<>>
    BY <1>1 DEF Still, LibraryGoesOn, ThreadInv
  <1>6. \A e \in End : client[e] = "open" => responses[e] = <<>>
    BY <1>1 DEF Still, LibraryGoesOn, ReplyFindsCaller
  <1>7. up[From[c]]
    <2>1. From[c] \in End
      BY Ends
    <2>2. ~ (mux[From[c]] = "closed")
      BY <1>2, <1>5, <1>6, <2>1 DEF Still, LibraryGoesOn
    <2> QED
      BY <1>1, <1>3, <2>1, <2>2
  <1>8. \A e \in End : up[e] /\ mux[e] = "open"
    BY <1>3, <1>4, <1>7, Ends DEF End, Other
  <1>9. \A e \in End : responses[e] = <<>>
    BY <1>1, <1>6, <1>8 DEF ThreadInv
  <1>10. \A e \in End : wire[e] = <<>>
    BY <1>5, <1>8, <1>9 DEF Still, LibraryGoesOn, HasRoom
  <1> QED
    BY <1>2, <1>5, <1>8, <1>9, <1>10

(* So every call that is out is executed...                                 *)
LEMMA StillRuns ==
  ASSUME Inv, CountInv, NothingLost, ReplyFindsCaller, MayHaveClosed, Still,
         NEW c \in Call, Active(c)
  PROVE  \E p \in running[To(c)] : p.call = c
  <1>1. /\ pc[c] = "waiting"
        /\ \A e \in End : /\ up[e] /\ mux[e] = "open"
                          /\ requests[e] = <<>> /\ responses[e] = <<>> /\ wire[e] = <<>>
    BY StillLibrary
  <1>2. Present(c) /\ From[c] \in End /\ To(c) \in End /\ place[c] \in Place
        /\ place[c] \notin {"none", "taken", "panicked"} /\ slot[c] \in Slot
    BY <1>1, Ends DEF NothingLost, Inv, TypeOK, CallerInv, Still, Hangs
  <1>3. ~ IsIn(c, Range(<<>>))
    BY MembersOfNone DEF IsIn
  <1>4. place[c] \notin {"requestWire", "requestChannel", "unsent", "responseWire",
                         "responseChannel"}
    BY <1>1, <1>2, <1>3 DEF Present
  <1>5. place[c] # "reply"
    <2> SUFFICES ASSUME place[c] = "reply" PROVE FALSE
      OBVIOUS
    <2>1. PICK s \in Slot : IsIn(c, Range(reply[From[c]][s]))
      BY <1>2 DEF Present
    <2>2. PICK p \in Range(reply[From[c]][s]) : p.call = c
      BY <2>1 DEF IsIn
    <2>3. p.slot = s /\ p.slot = slot[c]
      BY <1>2, <2>2 DEF Inv, PacketInv, PacketsOf, ResponseAt
    <2>4. reply[From[c]][slot[c]] # <<>>
      BY <2>2, <2>3, MembersOfNone
    <2> QED
      BY <1>1, <2>4 DEF Still, CallerGoesOn
  <1>6. place[c] # "jobQueue"
    <2> SUFFICES ASSUME place[c] = "jobQueue" PROVE FALSE
      OBVIOUS
    <2> DEFINE e == To(c)
    <2>1. jobs[e] # <<>>
      BY <1>2, <1>3 DEF Present
    <2>2. /\ ~ (Cardinality(running[e] \cup leaving[e]) < PoolSize) /\ leaving[e] = {}
          /\ \A p \in running[e] : \E d \in Children(p.call) : Active(d)
          /\ ~ Starved(e)
      BY <1>2, <2>1 DEF Still, PoolGoesOn
    <2>3. running[e] \cup leaving[e] = running[e]
      BY <2>2
    <2>4. Cardinality(running[e]) \in Nat /\ PoolSize \in Nat
      BY <1>2, CountOf, CallAssumption
    <2>5. Cardinality(running[e]) >= PoolSize
      BY <2>2, <2>3, <2>4
    <2> QED
      BY <2>1, <2>2, <2>5 DEF Starved
  <1>7. place[c] = "running"
    BY <1>2, <1>4, <1>5, <1>6 DEF Place
  <1> QED
    BY <1>2, <1>7 DEF Present, IsIn

(* ... and one of them is executed without waiting for another.             *)
LEMMA NotStill ==
  ASSUME Inv, CountInv, NothingLost, ReplyFindsCaller, MayHaveClosed
  PROVE  CallsMove
  <1> SUFFICES ASSUME NEW c \in Call, Active(c), Still PROVE FALSE
    BY DEF CallsMove, Still
  <1> DEFINE calls == {d \in Call : Active(d)}
             packets == running[1] \cup running[2]
             executed == {p.call : p \in packets}
  <1>1. IsFiniteSet(executed)
    <2>1. IsFiniteSet(running[1]) /\ IsFiniteSet(running[2])
      BY DEF CountInv, Finite, End
    <2>2. IsFiniteSet(packets)
      BY <2>1, FS_Union
    <2>3. [p \in packets |-> p.call] \in Surjection(packets, executed)
      BY DEF Surjection
    <2> QED
      BY <2>2, <2>3, FS_Surjection
  <1>2. \A d \in calls : d \in executed
    BY StillRuns, Ends DEF End
  <1>3. IsFiniteSet(calls)
    BY <1>1, <1>2, FS_Subset
  <1>4. PICK d \in calls : \A x \in calls : Parent[x] # d
    BY <1>3, NestingAssumption
  <1>5. PICK p \in running[To(d)] : p.call = d
    BY <1>4, StillRuns
  <1>6. \A x \in Children(p.call) : ~ Active(x)
    BY <1>4, <1>5 DEF Children
  <1>7. PoolGoesOn(To(d))
    BY <1>5, <1>6 DEF PoolGoesOn
  <1> QED
    BY <1>4, <1>7, Ends DEF Still

(* Whatever the calls, their nesting and the sizes of slots and pools: as   *)
(* long as a call is out, a caller, a thread of the library or one of a     *)
(* pool can go on, or a call waits for a method that has panicked, or a     *)
(* pool has jobs and all its threads wait for calls of their own.           *)
THEOREM CallsNeverStick == Spec => []CallsMove
  BY Invariance, CountInvariance, PacketsAreNotLost, RepliesFindCallers,
     MayHaveClosedAlways, NotStill, PTL
-------------------------------------------------------------------------------
(* No step is in vain.  How far a call has got, with its caller, on its way *)
(* and in the server's count, and how far an end has gone:                  *)
CallerStage(c) == [new |-> 0, slot |-> 1, waiting |-> 2, returned |-> 3, failed |-> 3][pc[c]]
PlaceStage(c) ==
  [none |-> 0, requestWire |-> 1, requestChannel |-> 2, jobQueue |-> 3, running |-> 4,
   panicked |-> 5, unsent |-> 5, responseWire |-> 5, responseChannel |-> 6, reply |-> 7,
   taken |-> 8][place[c]]
IsLeaving(c) == \E p \in leaving[To(c)] : p.call = c
CountStage(c) == IF PlaceStage(c) < 5 \/ IsLeaving(c) THEN 0 ELSE 1
Stage(c) == CallerStage(c) + PlaceStage(c) + CountStage(c)

ServerStage(e) == [open |-> 0, draining |-> 1, done |-> 2][server[e]]
EndStage(e) ==
  ServerStage(e) + (IF up[e] THEN 0 ELSE 1) + (IF mux[e] = "open" THEN 0 ELSE 1)
                 + (IF client[e] = "open" THEN 0 ELSE 1)

LEMMA Stages ==
  ASSUME TypeOK
  PROVE  /\ \A c \in Call : /\ CallerStage(c) \in 0 .. 3 /\ PlaceStage(c) \in 0 .. 8
                            /\ CountStage(c) \in 0 .. 1 /\ Stage(c) \in 0 .. 12
         /\ \A e \in End : ServerStage(e) \in 0 .. 2 /\ EndStage(e) \in 0 .. 5
  <1>1. ASSUME NEW c \in Call
        PROVE  CallerStage(c) \in 0 .. 3 /\ PlaceStage(c) \in 0 .. 8 /\ CountStage(c) \in 0 .. 1
    BY DEF TypeOK, Place, CallerStage, PlaceStage, CountStage
  <1>2. ASSUME NEW e \in End
        PROVE  ServerStage(e) \in 0 .. 2
    BY DEF TypeOK, ServerStage
  <1> QED
    BY <1>1, <1>2 DEF Stage, EndStage

(* A request that has been answered is counted down once.                   *)
LeavingOnce == \A e \in End : \A p, q \in leaving[e] : p.call = q.call => p = q

LEMMA LeavingOnceAlways == Spec => []LeavingOnce
  <1> USE DEF channels, callers, pool, threads
  <1>1. Init => LeavingOnce
    BY DEF Init, LeavingOnce
  <1>2. Inv /\ LeavingOnce /\ [Next]_vars => LeavingOnce'
    <2> SUFFICES ASSUME Inv, LeavingOnce, [Next]_vars PROVE LeavingOnce'
      OBVIOUS
    <2>1. ASSUME UNCHANGED leaving PROVE LeavingOnce'
      BY <2>1 DEF LeavingOnce
    <2>2. CASE UNCHANGED vars
      BY <2>1, <2>2 DEF vars
    <2>3. ASSUME NEW c \in Call,
                 \/ TakeSlot(c) \/ TooManyCalls(c) \/ SendRequest(c) \/ SendFails(c)
                 \/ Return(c) \/ Abort(c)
          PROVE  LeavingOnce'
      BY <2>1, <2>3 DEF TakeSlot, TooManyCalls, SendRequest, SendFails, Return, Abort
    <2>4. ASSUME NEW e \in End,
                 \/ Forward(e) \/ Close(e) \/ MuxEnds(e) \/ ReceiveRequest(e) \/ StartJob(e)
                 \/ ServerBreaks(e) \/ ServerEnds(e) \/ ReceiveResponse(e) \/ ClientEnds(e)
          PROVE  LeavingOnce'
      BY <2>1, <2>4 DEF Forward, Close, MuxEnds, ReceiveRequest, StartJob, ServerBreaks,
                        ServerEnds, ReceiveResponse, ClientEnds
    <2>5. ASSUME NEW e \in End, NEW p, Leave(e, p) PROVE LeavingOnce'
      <3>1. \A f \in End : leaving'[f] \subseteq leaving[f]
        BY <2>5 DEF Leave, Inv, TypeOK
      <3> QED
        BY <3>1 DEF LeavingOnce
    <2>6. ASSUME NEW e \in End, NEW p, Panic(e, p) PROVE LeavingOnce'
      BY <2>1, <2>6 DEF Panic
    <2>7. ASSUME NEW e \in End, NEW p, Respond(e, p) PROVE LeavingOnce'
      <3>1. place[p.call] = "running"
        BY <2>7 DEF Respond, Inv, PacketInv, PacketsOf, RequestAt
      <3>2. \A q \in leaving[e] : q.call # p.call
        BY <3>1 DEF Inv, PacketInv, PacketsOf, Waiting
      <3>3. \A f \in End : \/ leaving'[f] = leaving[f]
                           \/ f = e /\ leaving'[f] = leaving[e] \cup {p}
        BY <2>7 DEF Respond, Inv, TypeOK
      <3> QED
        BY <3>2, <3>3 DEF LeavingOnce
    <2> QED
      BY <2>2, <2>3, <2>4, <2>5, <2>6, <2>7 DEF Next
  <1> QED
    BY <1>1, <1>2, Invariance, PTL DEF Spec

Advance ==
  /\ \A c \in Call : Stage(c)' >= Stage(c)
  /\ \A e \in End : EndStage(e)' >= EndStage(e)
  /\ (\E c \in Call : Stage(c)' > Stage(c)) \/ (\E e \in End : EndStage(e)' > EndStage(e))

LEMMA EndsKept ==
  ASSUME TypeOK, UNCHANGED <<server, up, mux, client>>
  PROVE  \A e \in End : EndStage(e)' >= EndStage(e)
  <1>1. \A e \in End : EndStage(e)' = EndStage(e) /\ EndStage(e) \in 0 .. 5
    BY Stages DEF EndStage, ServerStage
  <1> QED
    BY <1>1

LEMMA CallsKept ==
  ASSUME TypeOK, UNCHANGED <<pc, place, leaving>>
  PROVE  \A c \in Call : Stage(c)' >= Stage(c)
  <1>1. \A c \in Call : Stage(c)' = Stage(c) /\ Stage(c) \in 0 .. 12
    BY Stages DEF Stage, CallerStage, PlaceStage, CountStage, IsLeaving
  <1> QED
    BY <1>1

(* A step of one call.                                                      *)
LEMMA CallAdvances ==
  ASSUME Inv, NEW c \in Call, NEW v, NEW w,
         pc' = [pc EXCEPT ![c] = v], place' = [place EXCEPT ![c] = w],
         \A d \in Call \ {c} : IsLeaving(d)' => IsLeaving(d),
         CallerStage(c)' >= CallerStage(c), PlaceStage(c)' >= PlaceStage(c),
         CountStage(c)' >= CountStage(c),
         \/ CallerStage(c)' > CallerStage(c)
         \/ PlaceStage(c)' > PlaceStage(c)
         \/ CountStage(c)' > CountStage(c),
         CallerStage(c)' \in Int, PlaceStage(c)' \in Int, CountStage(c)' \in Int,
         UNCHANGED <<server, up, mux, client>>
  PROVE  Advance
  <1>1. TypeOK
    BY DEF Inv
  <1>2. ASSUME NEW d \in Call \ {c}
        PROVE  Stage(d)' >= Stage(d)
    <2>1. pc'[d] = pc[d] /\ place'[d] = place[d]
      BY <1>1 DEF TypeOK
    <2>2. CallerStage(d)' = CallerStage(d) /\ PlaceStage(d)' = PlaceStage(d)
      BY <2>1 DEF CallerStage, PlaceStage
    <2>3. CountStage(d)' \in 0 .. 1 /\ CountStage(d)' >= CountStage(d)
      BY <2>2 DEF CountStage
    <2> QED
      BY <1>1, <2>2, <2>3, Stages DEF Stage
  <1>3. Stage(c)' > Stage(c) /\ Stage(c)' >= Stage(c)
    BY <1>1, Stages DEF Stage
  <1> QED
    BY <1>1, <1>2, <1>3, EndsKept DEF Advance

(* A packet goes on its way, and its caller perhaps with it.                *)
LEMMA PacketAdvances ==
  ASSUME Inv, NEW c \in Call, NEW v, NEW w,
         pc' = [pc EXCEPT ![c] = v], place' = [place EXCEPT ![c] = w],
         \/ v = pc[c]
         \/ pc[c] = "new" /\ v \in {"slot", "failed"}
         \/ pc[c] = "slot" /\ v \in {"waiting", "failed"}
         \/ pc[c] = "waiting" /\ v \in {"returned", "failed"},
         v # pc[c] \/ w # place[c],
         \/ w = place[c]
         \/ place[c] = "none" /\ w = "requestWire"
         \/ place[c] = "requestWire" /\ w = "requestChannel"
         \/ place[c] = "requestChannel" /\ w = "jobQueue"
         \/ place[c] = "jobQueue" /\ w = "running"
         \/ place[c] = "running" /\ w \in {"panicked", "unsent", "responseWire"}
         \/ place[c] = "responseWire" /\ w = "responseChannel"
         \/ place[c] = "responseChannel" /\ w = "reply"
         \/ place[c] = "reply" /\ w = "taken",
         \A d \in Call : IsLeaving(d)' => IsLeaving(d) \/ (d = c /\ place[c] = "running"),
         UNCHANGED <<server, up, mux, client>>
  PROVE  Advance
  <1>1. TypeOK /\ pc'[c] = v /\ place'[c] = w
    BY DEF Inv, TypeOK
  <1>2. /\ CallerStage(c)' \in Int /\ CallerStage(c)' >= CallerStage(c)
        /\ v # pc[c] => CallerStage(c)' > CallerStage(c)
    BY <1>1 DEF TypeOK, CallerStage
  <1>3. /\ PlaceStage(c)' \in Int /\ PlaceStage(c)' >= PlaceStage(c)
        /\ w # place[c] => PlaceStage(c)' > PlaceStage(c)
    BY <1>1 DEF TypeOK, Place, PlaceStage
  <1>4. CountStage(c)' \in Int /\ CountStage(c)' >= CountStage(c)
    <2>1. CASE place[c] = "running"
      <3>1. PlaceStage(c) = 4
        BY <2>1 DEF PlaceStage
      <3> QED
        BY <3>1 DEF CountStage
    <2>2. CASE place[c] # "running"
      <3>1. IsLeaving(c)' => IsLeaving(c)
        BY <2>2
      <3>2. PlaceStage(c) \in Int
        BY <1>1, Stages
      <3> QED
        BY <3>1, <3>2, <1>3 DEF CountStage
    <2> QED
      BY <2>1, <2>2
  <1> QED
    BY <1>1, <1>2, <1>3, <1>4, CallAdvances

LEMMA NextAdvances ==
  ASSUME Inv, LeavingOnce, Next
  PROVE  Advance
  <1> USE DEF channels, callers, pool, threads
  <1>0. /\ pc = [c \in Call |-> pc[c]] /\ place = [c \in Call |-> place[c]] /\ TypeOK
        /\ \A c \in Call : /\ pc = [pc EXCEPT ![c] = pc[c]]
                           /\ place = [place EXCEPT ![c] = place[c]]
    BY DEF Inv, TypeOK
  <1>1. ASSUME UNCHANGED leaving
        PROVE  \A d \in Call : IsLeaving(d)' => IsLeaving(d)
    BY <1>1 DEF IsLeaving
  <1>2. ASSUME NEW c \in Call,
               \/ TakeSlot(c) \/ TooManyCalls(c) \/ SendFails(c) \/ Abort(c)
        PROVE  Advance
    <2>1. PICK v : /\ pc' = [pc EXCEPT ![c] = v]
                   /\ \/ pc[c] = "new" /\ v \in {"slot", "failed"}
                      \/ pc[c] = "slot" /\ v = "failed"
                      \/ pc[c] = "waiting" /\ v = "failed"
      BY <1>2 DEF TakeSlot, TooManyCalls, SendFails, Abort
    <2>2. UNCHANGED <<leaving, place, server, up, mux, client>>
      BY <1>2 DEF TakeSlot, TooManyCalls, SendFails, Abort
    <2> QED
      BY <1>0, <1>1, <2>1, <2>2, PacketAdvances
  <1>3. ASSUME NEW c \in Call, SendRequest(c) PROVE Advance
    <2>1. /\ pc[c] = "slot" /\ pc' = [pc EXCEPT ![c] = "waiting"] /\ place[c] = "none"
          /\ place' = [place EXCEPT ![c] = "requestWire"]
      BY <1>3 DEF SendRequest, Reached, Inv, CallerInv
    <2>2. UNCHANGED <<leaving, server, up, mux, client>>
      BY <1>3 DEF SendRequest
    <2> QED
      BY <1>1, <2>1, <2>2, PacketAdvances
  <1>4. ASSUME NEW c \in Call, Return(c) PROVE Advance
    <2>1. slot[c] \in Slot /\ From[c] \in End /\ pc[c] = "waiting"
      BY <1>4, Ends DEF Return, Inv, CallerInv
    <2>2. Head(reply[From[c]][slot[c]]) \in Range(reply[From[c]][slot[c]])
      BY <1>4, <2>1, Types, TailMembers DEF Return
    <2>3. /\ place[c] = "reply" /\ place' = [place EXCEPT ![c] = "taken"]
          /\ pc' = [pc EXCEPT ![c] = "returned"]
      BY <1>4, <2>1, <2>2, ReplyIsOwn DEF Return, Reached
    <2>4. UNCHANGED <<leaving, server, up, mux, client>>
      BY <1>4 DEF Return
    <2> QED
      BY <1>1, <2>1, <2>3, <2>4, PacketAdvances
  <1>5. ASSUME NEW e \in End,
               Forward(e) \/ ReceiveRequest(e) \/ StartJob(e) \/ ReceiveResponse(e)
        PROVE  Advance
    <2>1. PICK p \in Packet,
               w \in {"requestChannel", "responseChannel", "jobQueue", "running", "reply"} :
            /\ place' = [place EXCEPT ![p.call] = w]
            /\ \/ place[p.call] = "requestWire" /\ w = "requestChannel"
               \/ place[p.call] = "responseWire" /\ w = "responseChannel"
               \/ place[p.call] = "requestChannel" /\ w = "jobQueue"
               \/ place[p.call] = "jobQueue" /\ w = "running"
               \/ place[p.call] = "responseChannel" /\ w = "reply"
      <3>1. CASE Forward(e)
        <4>1. PICK p \in Packet : p = Head(wire[e]) /\ p \in Range(wire[e])
          BY <3>1, Types, TailMembers DEF Forward
        <4>2. /\ IsRequest(p) => place[p.call] = "requestWire"
              /\ ~ IsRequest(p) => place[p.call] = "responseWire"
          BY <4>1, SlotNumbers DEF Inv, PacketInv, PacketsOf, RequestAt, ResponseAt
        <4> QED
          BY <3>1, <4>1, <4>2 DEF Forward, Reached
      <3>2. CASE ReceiveRequest(e)
        <4>1. PICK p \in Packet : p = Head(requests[e]) /\ p \in Range(requests[e])
          BY <3>2, Types, TailMembers DEF ReceiveRequest
        <4>2. place[p.call] = "requestChannel"
          BY <4>1 DEF Inv, PacketInv, PacketsOf, RequestAt
        <4> QED
          BY <3>2, <4>1, <4>2 DEF ReceiveRequest, Reached
      <3>3. CASE StartJob(e)
        <4>1. PICK p \in Packet : p = Head(jobs[e]) /\ p \in Range(jobs[e])
          BY <3>3, Types, TailMembers DEF StartJob
        <4>2. place[p.call] = "jobQueue"
          BY <4>1 DEF Inv, PacketInv, PacketsOf, RequestAt
        <4> QED
          BY <3>3, <4>1, <4>2 DEF StartJob, Reached
      <3>4. CASE ReceiveResponse(e)
        <4>1. PICK p \in Packet : p = Head(responses[e]) /\ p \in Range(responses[e])
          BY <3>4, Types, TailMembers DEF ReceiveResponse
        <4>2. place[p.call] = "responseChannel"
          BY <4>1 DEF Inv, PacketInv, PacketsOf, ResponseAt
        <4> QED
          BY <3>4, <4>1, <4>2 DEF ReceiveResponse, Reached
      <3> QED
        BY <1>5, <3>1, <3>2, <3>3, <3>4
    <2>2. UNCHANGED <<leaving, pc, server, up, mux, client>>
      BY <1>5 DEF Forward, ReceiveRequest, StartJob, ReceiveResponse
    <2>3. p.call \in Call
      BY <2>1, SlotNumbers
    <2> QED
      BY <1>0, <1>1, <2>1, <2>2, <2>3, PacketAdvances
  <1>6. ASSUME NEW e \in End, NEW p, Respond(e, p) \/ Panic(e, p) PROVE Advance
    <2>1. p \in running[e] /\ p.call \in Call
      BY <1>6, Types, SlotNumbers DEF Respond, Panic
    <2>2. place[p.call] = "running"
      BY <2>1 DEF Inv, PacketInv, PacketsOf, RequestAt
    <2>3. PICK w \in {"panicked", "unsent", "responseWire"} :
            place' = [place EXCEPT ![p.call] = w]
      BY <1>6 DEF Respond, Panic, Reached
    <2>4. UNCHANGED <<pc, server, up, mux, client>>
      BY <1>6 DEF Respond, Panic
    <2>5. \A d \in Call : IsLeaving(d)' => IsLeaving(d) \/ d = p.call
      <3>1. \A f \in End : leaving'[f] \subseteq leaving[f] \cup {p}
        BY <1>6 DEF Respond, Panic, TypeOK, Inv
      <3> QED
        BY <3>1, Ends DEF IsLeaving
    <2> QED
      BY <1>0, <2>1, <2>2, <2>3, <2>4, <2>5, PacketAdvances
  <1>7. ASSUME NEW e \in End, NEW p, Leave(e, p) PROVE Advance
    <2>1. p \in leaving[e] /\ p.call \in Call
      BY <1>7, Types, SlotNumbers DEF Leave
    <2>2. To(p.call) = e /\ place[p.call] \notin Waiting
      BY <2>1 DEF Inv, PacketInv, PacketsOf
    <2>3. UNCHANGED <<pc, place, server, up, mux, client>>
      BY <1>7 DEF Leave
    <2>4. /\ leaving'[e] = leaving[e] \ {p}
          /\ \A f \in End : leaving'[f] \subseteq leaving[f]
      BY <1>7 DEF Leave, Inv, TypeOK
    <2>5. \A d \in Call : IsLeaving(d)' => IsLeaving(d)
      BY <2>4, Ends DEF IsLeaving
    <2>6. IsLeaving(p.call) /\ ~ IsLeaving(p.call)'
      BY <2>1, <2>2, <2>4 DEF IsLeaving, LeavingOnce
    <2>7. /\ CallerStage(p.call)' = CallerStage(p.call) /\ CallerStage(p.call) \in Int
          /\ PlaceStage(p.call)' = PlaceStage(p.call) /\ PlaceStage(p.call) \in Int
      BY <1>0, <2>1, <2>3, Stages DEF CallerStage, PlaceStage
    <2>8. PlaceStage(p.call) >= 5
      <3>1. place[p.call] \in {"unsent", "responseWire", "responseChannel", "reply", "taken"}
        BY <1>0, <2>1, <2>2 DEF TypeOK, Place, Waiting
      <3> QED
        BY <3>1 DEF PlaceStage
    <2>9. CountStage(p.call) = 0 /\ CountStage(p.call)' = 1
      BY <2>6, <2>7, <2>8 DEF CountStage
    <2> QED
      BY <1>0, <2>1, <2>3, <2>5, <2>7, <2>9, CallAdvances
  <1>8. ASSUME NEW e \in End,
               Close(e) \/ MuxEnds(e) \/ ServerBreaks(e) \/ ServerEnds(e) \/ ClientEnds(e)
        PROVE  Advance
    <2>1. UNCHANGED <<pc, place, leaving>>
      BY <1>8 DEF Close, MuxEnds, ServerBreaks, ServerEnds, ClientEnds
    <2>2. EndStage(e)' = EndStage(e) + 1
      <3>1. /\ up \in [End -> BOOLEAN] /\ DOMAIN mux = End /\ DOMAIN client = End
            /\ server \in [End -> {"open", "draining", "done"}]
        BY DEF Inv, TypeOK
      <3>2. CASE Close(e)
        BY <3>1, <3>2 DEF Close, EndStage, ServerStage
      <3>3. CASE MuxEnds(e)
        BY <3>1, <3>3 DEF MuxEnds, EndStage, ServerStage
      <3>4. CASE ServerBreaks(e)
        BY <3>1, <3>4 DEF ServerBreaks, EndStage, ServerStage
      <3>5. CASE ServerEnds(e)
        BY <3>1, <3>5 DEF ServerEnds, EndStage, ServerStage
      <3>6. CASE ClientEnds(e)
        BY <3>1, <3>6 DEF ClientEnds, EndStage, ServerStage
      <3> QED
        BY <1>8, <3>2, <3>3, <3>4, <3>5, <3>6
    <2>3. \A f \in End \ {e} : EndStage(f)' = EndStage(f)
      <3> SUFFICES ASSUME NEW f \in End, f # e PROVE EndStage(f)' = EndStage(f)
        OBVIOUS
      <3>1. /\ up \in [End -> BOOLEAN] /\ DOMAIN server = End
            /\ DOMAIN mux = End /\ DOMAIN client = End
        BY DEF Inv, TypeOK
      <3>2. up'[f] = up[f]
        BY <1>8, <3>1 DEF Close, MuxEnds, ServerBreaks, ServerEnds, ClientEnds
      <3>3. mux'[f] = mux[f]
        BY <1>8, <3>1 DEF Close, MuxEnds, ServerBreaks, ServerEnds, ClientEnds
      <3>4. server'[f] = server[f]
        BY <1>8, <3>1 DEF Close, MuxEnds, ServerBreaks, ServerEnds, ClientEnds
      <3>5. client'[f] = client[f]
        BY <1>8, <3>1 DEF Close, MuxEnds, ServerBreaks, ServerEnds, ClientEnds
      <3> QED
        BY <3>2, <3>3, <3>4, <3>5 DEF EndStage, ServerStage
    <2>4. \A f \in End : EndStage(f) \in 0 .. 5
      BY <1>0, Stages
    <2> QED
      BY <1>0, <2>1, <2>2, <2>3, <2>4, CallsKept DEF Advance
  <1> QED
    BY <1>2, <1>3, <1>4, <1>5, <1>6, <1>7, <1>8 DEF Next

(* Every step brings a call or an end forward by at least one stage and     *)
(* none back, and there are twelve stages of a call and five of an end: no  *)
(* thread spins and no packet goes round, so that with n calls everything   *)
(* is over after 12 * n + 10 steps.  With CallsNeverStick this leaves       *)
(* nothing but a panic or a starved pool to keep a call from its end.       *)
StagesOnlyRise == [][Advance]_vars

THEOREM StepsAreBounded ==
  Spec => /\ StagesOnlyRise
          /\ [](/\ \A c \in Call : Stage(c) \in 0 .. 12
                /\ \A e \in End : EndStage(e) \in 0 .. 5)
  <1>1. Inv /\ LeavingOnce /\ [Next]_vars => [Advance]_vars
    BY NextAdvances
  <1>2. Inv => /\ \A c \in Call : Stage(c) \in 0 .. 12
               /\ \A e \in End : EndStage(e) \in 0 .. 5
    BY Stages DEF Inv
  <1> QED
    BY <1>1, <1>2, Invariance, LeavingOnceAlways, PTL DEF Spec, StagesOnlyRise
===============================================================================
