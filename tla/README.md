# Verification of Cloud-P2P-environment

TLA+ models of the cloud of peers that elect a leader, of the leader's image
service, and of the remote-method-call library that carries its calls, with TLC
runs and TLAPS proofs. Source paths are relative to `src/`; `LE` stands for
`service_provider/src/cloud_leader_election.rs` and `RTO` for
`client/remote-trait-object` (a copy of it is under `service_provider/`).

## 1. The system

A few *service providers* know each other's addresses. They elect a leader among
themselves by load; the leader accepts QUIC connections of *clients* and exports
over each a `remote-trait-object` service, `ImageSteganographer`. A client splits
its images into three parts and, for each image, calls `encode` at every provider
address, of which only the leader is meant to answer.

| Component | State | Operations | Talks to |
|---|---|---|---|
| Leader election (`LE`) | per node: state (Follower, Leader, DefactoLeader), votes, candidates with their last metrics, last heartbeat; process-wide `CURRENT_LEADER_ID` | leader: heartbeat, count a vote, step down; follower: heartbeat, result, vote, time-out; election | other nodes, by broadcast; the provider process, by `CURRENT_LEADER_ID` |
| Provider process (`service_provider/src/main.rs`) | semaphore, queue of endpoints, list of transport ends, map of contexts | accept loop, accepting tasks, service loop | election; transports; RTO contexts |
| RTO calls (`RTO/src/port/*`, `transport/multiplex.rs`, `queue.rs`, `packet.rs`) | call slots and their channels, two bounded channels per end, job counter, thread pool | call, forward, receive, execute, respond, shut down | transport; registry |
| RTO registry (`forwarder.rs`, `service/export_import.rs`, `service/handle.rs`, `port.rs`) | objects by id, queue of free ids, `no_drop` flag | export, import, dispatch, delete request, clear | RTO calls |
| RTO context (`context.rs`) | multiplexer, server, port, meta service | create, wait, drop | all of RTO |
| Transports (`*/src/transport.rs`) | QUIC connections | create (handshake), send, recv, terminate, is_active | quinn |
| Client process (`client/src/main.rs`) | semaphore of 5, retry and backoff counters, success flag | one task per part, one per address | transports; RTO |
| Service macro, test suites, steganographer, QUIC helpers, earlier prototypes (`src/`, `bin/`, `cloud-service-provider/`) | none at run time that the protocols depend on | | |

What is hard in it:

- *Election.* Every message is broadcast by tasks that outlive the step that sent
  it, so messages of one election meet the state of another. The votes of a term
  are a set at whichever node happens to lead; leaders ignore each other; the
  choice of a leader compares scores to which each comparison adds fresh noise;
  nodes crash and come back with nothing.
- *Calls.* Three threads per end and a shared pool pass packets through channels of
  capacity one; nothing but a slot number says whose response a packet is; a
  method may call back over the same connection while it holds a pool thread; a
  method may panic; the connection may close between any two steps.
- *Context.* Dropping one takes apart what jobs, proxies and other threads share,
  while they use it; what it waits for may never come, and then it panics.
- *Provider.* The election's result reaches the service only through one atomic
  number, and tasks started by a leader outlive its leadership. A port is picked,
  told to the client and only then bound. Requests share the files they write.
- *Client.* Counters of a retry loop are copied into asynchronous blocks, and the
  calls block the threads that would have to carry their answers.

`PROJECT.json` lists these hazards one by one, at the line where each bites.

What makes each component correct:

- election: authority comes only from elections; nobody who never stood is named;
  a term ends by the votes of two other nodes of that term and by nothing else;
  only a leader serves; there is a leader again and again;
- calls: a caller gets the response to its own call; a method runs at most once;
  slots are neither lost nor doubled; the receiving threads never block for ever;
  every call ends; a closed connection lets its threads end;
- registry: an object is reached only by its own id, ids are not used while an
  object has them, a delete happens once;
- context: threads end in the order the joins need, nothing uses a port after it,
  and dropping a quiet context does not panic;
- provider: a context exists for live connections only, every admitted request is
  executed, and its answer hides its own secret;
- client: permits bound the calls, each image is handled once, the client ends.

## 2. Modules

### LeaderElection

`LE` in full, one action for each branch of `run_leader`, `run_follower` and
`handle_election`:

| Action | Code |
|---|---|
| `LeaderHeartbeat`, `LeaderHearsNothing` | `run_leader`: the broadcast, the time-out of `accept` |
| `LeaderCountsVote`, `LeaderIgnores` | `run_leader`: the arms of its match |
| `FollowerTimeout` | `run_follower`: no heartbeat for long enough |
| `FollowerHeartbeat`, `FollowerResult`, `FollowerIgnores` | `run_follower`: the arms of its match, with the decision to vote |
| `HandleElection` | `handle_election`: the node enters itself, elects, announces, stores, clears |
| `Crash`, `Restart` | the process ends and is started again |
| `Lose` | a connection fails, or the process that sends dies before the message has left it |

`state`, `votes`, `candidates` and `leaderView` (`CURRENT_LEADER_ID`) are the
code's; `net` counts the copies of each message still on its way: a crash leaves them
there, for some may have left the process. The message handler that a branch calls is
part of the branch: an action that receives a message also updates the candidate, casts
the vote and sends it.
`elected`, `named` and `voted` are histories. Metrics are measured afresh where the
code calls `collect_metrics`, any member of `Reports[n]`; the vote compares all
three, the score only the load, because the weights of the others are zero. The
jitter of `calculate_score` is drawn in every comparison of `max_by`, so that a
candidate may keep the lead or be replaced whenever the intervals of the two scores
overlap: `Passes` are the ways a pass of `max_by` over the list can go, and `MaxBy` the
positions that one of them leaves in the lead.

### Invocation

What a remote call promises, without slots and threads: a method is executed at
most once, a caller returns only after its own method has ended, and a method
ends only when the calls it made have returned. A caller may fail at any time
while it calls, also before the method is executed, which may happen later.

### RemoteCall

The two ends of one RTO connection, with the threads of each:

| Thread | Actions |
|---|---|
| a caller (`Client::call`) | `TakeSlot` or `TooManyCalls`; `SendRequest` or `SendFails`; `Return` or `Abort` |
| `receiver_loop` of the multiplexer | `Forward`, `MuxEnds` |
| `receiver` of the server | `ReceiveRequest`, `ServerBreaks`, `ServerEnds` |
| a pool thread (`handle_single_call`) | `StartJob`, `Respond` and `Leave`, or `Panic` |
| `receive_loop` of the client | `ReceiveResponse`, `ClientEnds` |
| the environment | `Close` |

A packet is its slot number, with the request bit, and the call it is about. A
call stands for its object, method, arguments and result. `Parent` says which
calls are made by which methods, so that a constant describes any nesting of call
backs. `wire[e]` is the sequence of packets on their way to end `e`: the transport
opens a QUIC stream per packet and accepts streams in that order. `place` is a
history of how far each call has got. `Respond` and `Leave` are two steps, because
the response can arrive, and the connection close, before the counter goes down. A caller that
panics never gives its slot back (`SendFails`, `Abort`), which is why `SlotsConserved` speaks of failed callers only once the transport is closed.

### RemoteObject

What the library promises of an exported object, without ids, maps and locks: a call
through its proxy is executed by the object itself, which is there; the object is
dropped only on the request its own proxy sends when it is dropped, never under a
call; a drop without a request happens only at an end that has disabled them.

### ServiceRegistry

The service objects exported over one connection: `forwarder.rs` of both ends and
the proxies that the other end makes. An object goes through these steps:

| Step | Actions | Code |
|---|---|---|
| export | `PopId` or `TooManyServices`; `Register` | `register_service_object`: the id is taken, then the object inserted, under two locks |
| import | `Import` | the handle in the message is made into a proxy |
| use | `Call`, `Execute`, `Return` | `Handle::call`, `forward_and_call` |
| drop of the proxy | `DropProxy` | `Handle::drop` and `delete_request`, which `no_drop` silences |
| removal | `Delete`, `Die`, `PushId`, `Deleted` | `delete`: the object is removed and, with the lock still held, dropped; its id is given back; the answer |

`stage` is the life of an object, `proxy` that of its proxy, `lock` the object whose
removal holds the write lock of `service_objects`. `Owner` says which object of the
other end owns a proxy: such a proxy is called by its owner's method and dropped in
its owner's drop, whose delete request then waits for the other end's lock. Calls
are abstract here: executed once and answered, as `Invocation` promises. Left out:
`clear`, which belongs to the end of a context; the meta service, which is never
called or deleted before that end; several exports of one shared object, and
several calls of one proxy at a time, which read the map alike.

### ContextLifecycle

The end of one end's `Context`: `wait` and `Drop for Context` (`context.rs`), step by
step, against everything that may still be under way.

| Actor | Actions | Code |
|---|---|---|
| the owner of the context | `Wait` or `BeginDrop`; `JoinMux`, `SetNoDrop`, `ClearRegistry` | `Context::wait`, the first half of `Drop`, `Multiplexer::shutdown`, `set_no_drop`, `clear_registry` |
| | `ShutdownServer` or `ShutdownTimesOut` | `Server::shutdown` and the assertion in `Drop for Server` |
| | `UnwrapPort`, or `UnwrapFails` and `OwnerLetsGo`; `ShutdownClient` | `Arc::try_unwrap(port)`, `Drop for BasicPort`, `Client::shutdown` |
| the library's threads | `MuxEnds`, `ServerDrains`, `ServerEnds`, `ClientEnds`, `Deliver`, `Count` | `receiver_loop`, `receiver`, `receive_loop` |
| a request of the other end | `Start`, `CallOut`, `Answered`, `NotAnswered`, `Return`, `DeleteObject` and `Removed`, `ProxyDeleted` or `ProxyNotDeleted`, `CountDown` | `handle_single_call`, `forward_and_call`, `delete` |
| a thread of the user | `CallProxy`, `DropProxy`, `CallReturns`, `CallFails`, `LetGo` | `Handle::call`, `Drop for Handle` |
| the other end | `PeerCloses` | the transport's error |

What is shared is what can go wrong: `Holders` are those that have upgraded their weak
pointer to the port, `Executing` the jobs that hold the object their request is for, so
that `AfterRelease` says when the last pointer to an object goes and its proxy must be
deleted. `Locked` says that a job drops what it has removed, in the statement that holds
the write lock of `service_objects` (`forwarder.rs:105`): from `DeleteObject` to
`Removed`, in which an object's own `Drop` may run, and on until the delete request of
the proxy the object owned is answered or has failed. Whoever needs the registry then
waits: other requests, exports, and `ClearRegistry`, with it the owner. `alive` becomes false where a second panic while a first one
unwinds aborts the process. `late` and `inHand` are histories. The module is coarser
than `RemoteCall` where that one is exact: a packet to the server is a request, and
the other end's answer comes as long as the client's thread lives.

### ImageProvider

The service of a provider node: `service_provider/src/main.rs`, the `create` and
`is_active` of its `transport.rs`, and `encode` of `image_steganographer.rs`.

| Actor | Actions | Code |
|---|---|---|
| a client | `Dial`, `GiveUp`, `CloseConnection` | `create` of `client/src/transport.rs` and its ten seconds |
| the accepting loop and its tasks | `SpawnAcceptor`, `AcceptorTimesOut`, `Accept`; `PickPort`, `SendAddress`, `Listen`, `Pair` or `PairFails`; `Push` | `main.rs:77-197`; `create` of `service_provider/src/transport.rs` |
| the serving loop | `BeginPass`; `Keep`, `Remove` or `Abort` for each entry; `EndPass`, `Wake`, `CtrlC`; after a second `CtrlC`, `DropContext` or `Abort` for each context | `steg_handle`, `main.rs:201-262` |
| a request | `BeginWrite`, `EndWrite`, `ReadBack`; or `NoCarrier`, `HidePanics`, `EncodeFails` | `encode`, its panics and its `Err` returns |
| the election | `ChangeLeader` | `CURRENT_LEADER_ID`, which `LeaderElection` models |

A client's connections are `dial`, the task that took the first of them `task`, the
one whose second connection that task got `peer`: the two differ when one port was
picked twice. `Remove` drops a context whose request is over; `Abort` is the same
removal, or the drop of the whole map, while a request runs or has panicked, as `ContextLifecycle` shows it in
`ShutdownTimesOut`. `file` says whose image a file holds or that it is being written;
an output file is named by the client, so two requests may name the same one.
The semaphore has no variable: the permit is dropped at once (`main.rs:87`).

### ImageClient

The client: `client/src/main.rs`.

| Actor | Actions | Code |
|---|---|---|
| `main` | `Split`, `Join` | the three chunks, the joins of their tasks |
| a chunk's task | `TakeImage`, `OpenFails`, `ChunkDone`; `NextImage`, `RetryRound` | the loop over images, the retry loop in it |
| a task per server | `Acquire`; `Created`, `CreateFails` or `ContextPanics`; `Encoded`, `Closed` | the spawned block |

`Blocked` are the tasks that hold a worker of the runtime without ever giving it back
by themselves: `encode` and the drop of a context are synchronous. `Move` therefore
needs a worker that is free. A chunk is computed as the code does it (`ChunkSize`,
`First`), and `RetryRound` has no limit, because the counters that the tasks change
are copies (`client/src/main.rs:140`).

The `MC` modules hold the definitions the configurations use, the modules named
`...Proofs` the theorems about the module they are named after (section 6),
`QueueProofs` the lemmas on queues that two of them share, and `NumberProofs` those on
least and greatest numbers.

How the modules compose: `RemoteCall` implements `Invocation` and `ServiceRegistry`
implements `RemoteObject` (both checked and proved);
`ServiceRegistry` and `ContextLifecycle` take from it that a call is executed once and
answered unless the connection closes or a method panics; `ImageProvider` takes from
`ContextLifecycle` when dropping a context succeeds, and from `LeaderElection` that the
lead comes and goes; `ImageClient` takes from `RemoteCall` that a call ends.

## 3. Runs

| Run | Shows | Bounds |
|---|---|---|
| `election_safety` | whom an election names, who serves, how a term ends, what the lists hold | 3 nodes, 2 messages in flight, no crash |
| `election_crash` | who may lead and serve, also after a crash: what old messages can tell a restarted node; there is a leader again and again | 3 nodes, 1 message, 1 crash |
| `election_serving` | **violated**: only a leader serves | as `election_safety` |
| `call_slots` | own responses, slots, packets, counters; nothing is lost, and a call that goes no further waits for a panicked method or a starved pool | 3 calls of one end, 2 slots, 2 threads, any method may panic |
| `call_nested` | the connection implements `Invocation`; every call ends; a closed connection lets the server threads end | a chain of 3 nested calls, 2 slots and 2 threads per end |
| `call_panic` | **violated**: `call_timeout` bounds every call | nested calls, a method that panics |
| `call_shutdown` | **violated**: the server thread ends once the transport is closed | nested calls, closing |
| `registry` | the registries implement `RemoteObject`; ids and proxies correspond, ids are conserved, every drop of a proxy goes on and ends | 4 objects, 2 ids per end, a service that keeps a callback's proxy |
| `registry_chain` | **violated**: every drop of a proxy ends | 4 objects, a wrapped proxy of a wrapped proxy |
| `context` | the port outlives the jobs; a quiet context is dropped without a panic; every drop completes, although it may find the registry locked | 3 requests (one calls back and exports an object, one deletes, one is plain), 3 objects, 2 of them with a proxy of their own, 2 user threads |
| `provider` | contexts are for tracked connections; an answer hides its own secret; who is admitted is looked after | 2 clients, 2 ports, 1 accepting task at a time, 2 streams per connection, one output file for both |
| `client` | permits are conserved; no image waits for ever | up to 4 images, 2 servers, 2 permits, 3 workers; any context may panic, any file fail |

Why the bounds are enough. Two votes end a term, so three nodes are the least with
which a leader can be voted out, and one of them can crash while the two others go
on; one node is always busier, so that votes are both cast and withheld. Two
messages in flight let an old one overtake a new one; `MaxCopies` bounds equal
copies, which only a repeated heartbeat produces. With two slots and three calls a
slot is waited for, used again, and two responses overtake each other. A chain of
three calls holds two slots and two threads of the same end at once: with fewer the
calls would wait for each other, and with as many every call must end. `Indicator` is 2 there instead of 2^31: all that counts is that
slot numbers lie below it (`CallAssumption`). Nothing in `RemoteCall` grows without
bound, so it has no other limit. With two ids and three objects at an end, one of
them its initial service, ids run out and are used again; each object is exported
once, so that `ServiceRegistry` too is finite. 

In `context` there is one request of each kind that holds the port or an object in
its own way, two of them for the same object, so that either may be the last to let
it go; and two user threads, so that one can find the port left by a panicking owner
while the other still holds it. Requests are finite in number, so nothing else is
bounded. In `provider` two clients are enough to be told one port, to be paired with
each other's task and to write the same file at once; `MaxAcceptors` bounds the
accepting tasks that wait, not those that have a client; `UniStreams` is 2 instead of
quinn's 100, so that a live connection runs out of them and is removed. `client` has
as many images as make one chunk of two and leave one empty; six tasks then wait for
two permits, and one more worker than permits is the least with which it ends. Its `MC` module also evaluates the
chunk formula against a partition for up to 30 images (`ChunksOfFew`), which a
theorem extends to every number.

`CHECK_DEADLOCK FALSE` is set in the call, registry, context and provider runs, because
calls end, objects and contexts go, and the clients' attempts are used up. The
election runs and `client` do check for deadlock; `Finished` is the end of the client.

Each property has a mutant: a plausible bug of the code with which TLC finds the
property violated in the same run.

## 4. Fairness

`election_crash` assumes, of each process that is up, that its follower timer fires
when nobody leads (`NoLeader /\ FollowerTimeout(n)`: then no heartbeat is sent and
those in flight run out, so `last_heartbeat` grows old), and that `run` carries out
the election once its state asks for it (`HandleElection(n)`). Nothing is assumed of
messages, which may all be lost, of restarts, of heartbeats or of who is elected.

`call_nested` assumes that the threads of the library are scheduled, that a pool
thread takes a job when one is free, that methods end once the calls they made have
ended, and that a connection closed at one end becomes known at the other (QUIC's
idle time-out). It does not assume that a caller calls, that a method panics of
itself, or that the connection ever closes.

`registry` and `registry_chain` assume that an export, an import, a call and a
delete request, once begun, go on when no lock is in the way, that methods end, and
that an object which is dropped drops the proxies it owns. They do not assume that
anybody exports, calls or drops anything.

`context` assumes that the threads of the library and the thread that drops the
context are scheduled, and of a job that holds the registry's lock that it goes on:
that the `Drop` of a service object ends (`Removed`), which the owner's own
`clear_registry` takes for granted as well, and that a delete request which waits on a
closed connection fails (`ProxyNotDeleted`), since the client's thread ends then and
drops the channels the callers wait on. It assumes nothing of other jobs, of methods, of
the other end or of the user's threads. Each wait in `Drop` is bounded by a time-out,
for a thread of the library, or for such a job; the last one is the lock in `clear`, and
without the second assumption TLC finds the owner waiting there for ever.

`provider` assumes that the serving loop goes on, that the threads of a context execute
what they have, and strong fairness of `Push`: the loop releases the list again and
again, and tokio's `Mutex` serves its waiters in order. It assumes nothing of clients,
of the election, of Ctrl-C or of accepting. `LookedAfter` is conditional on the lead: of
what waits in the list while the node does not lead it says what happens once it leads
again, and it counts a connection that the provider itself closed, be it for want of
streams, as over.

`client` assumes that the runtime executes something as long as anything can run, that
an `encode` that was sent ends (`Step`), and that a chunk whose rounds
go on for ever does not get a failing `Context::new` in every one of them. The last
assumption stands in for the retry limit, which never takes effect (section 5);
`EveryImageEnds` says nothing of it.

## 5. Findings

- `call_panic`: a call whose method panics never ends while the connection lives;
  `context.rs:50-51` promises that all calls have the configured time-out, but only
  the wait for a slot has it.
- `call_shutdown`: if the connection closes while a method waits for its own call,
  that method unwinds, its job is never counted down, and `Server::shutdown` panics
  although it was called as `server.rs:52` demands.
- `election_serving`: a leader that was voted out and named another node keeps its
  own id in `CURRENT_LEADER_ID` and goes on serving, against the comment at
  `service_provider/src/main.rs:218`.
- `registry_chain`: a registry drops a removed object in the statement that holds its
  write lock (`forwarder.rs:105`). If the object owns a proxy, as `lib.rs:30` allows,
  the drop sends a delete request and waits for it with the lock held; if that makes
  the other end drop a proxy of an object of the first end, both wait for ever, and
  so does every later call.

What else the models show, which no comment or test of the repository contradicts
or which is a consequence of the above:

- A provider that removes a connection whose request still runs after half a second,
  or panicked, ends as a process (`Abort`): `Server::shutdown` panics, and the
  assertion in `Drop for Server` panics while it unwinds. `QuietDrop` is the other half:
  with nothing under way a drop does not panic.
- `is_active` opens a stream that nobody accepts, so a connection that outlives 100
  looks is removed although it lives (`main.rs` looks every few seconds).
- An object that a method exports after `ClearRegistry` is dropped with the port
  already gone. If it owns a proxy, that drop panics; the comment at
  `context.rs:319-320` thinks only of the objects registered before.
- Two requests with the same output name may answer each with the other's image, or
  read a torn file and panic. With different names they cannot (`DistinctFilesSuffice`).
- Nothing is lost, and no lock or channel blocks the library by itself: a call hangs
  only when its method, or one it waits for, has panicked, or when all threads of a pool
  wait for calls of their own (`CallsNeverStick`).
- As soon as objects of both ends own proxies, two delete requests that cross each
  other can each hold one registry's lock and wait for the other's; no chain as in
  `registry_chain` is needed. With owners at one end only it cannot happen
  (`RemovalsAlwaysMove`).
- The noise that each comparison of `elect_leader` draws anew can drift: a candidate
  may be named although an earlier one beats it whatever the factors, through others in
  between. One that beats all others is always named, and nobody is whom a later one
  beats (`ElectionsAlwaysDecide`).
- With no more workers than permits, the client can block for ever: TLC finds the
  deadlock when `Workers` is set to `Permits` (a machine with no more than five cores).
- An image counts as processed although every call for it failed
  (`client/src/main.rs:192`), and `max_retries` is never reached.

## 6. Proofs

`LeaderElectionProofs` proves, for any finite or infinite set of nodes, any bounds
and any metrics, that the specification implies type correctness and every safety
property of the election runs. The arguments:

- `TypeCorrect` by the actions.
- `ElectedLead`: `OnlyElectedLead` is inductive with the types because it also
  speaks of messages in flight and of every node's view.
- `TermInvariant`: `LeadersServe` and `VotesOfOneTerm` are not inductive: a restart
  must not resurrect a leader, and a leader must not count its own vote. `TermInv`
  adds that a stopped process neither leads nor knows a leader and that nobody
  sends itself a message. `election_crash` checks `TermInv` itself.
- `TermsEndOnTwoVotes` and `StaleServiceIsHandover` are action properties, proved
  for each step from `TermInv`; the latter needs that `InitialLeaderId` is no
  node's id (in the code it is 0, and so is no provider's).
- `RosterInvariant`: the four properties of candidate lists hold together and only
  together: a list stays without doubles because an update replaces an entry, and
  names only voters because heartbeats spread only lists that do.
- `ElectionsAlwaysDecide` is about every list that can be elected from, of any length.
  The passes of `max_by` are functions, built step by step, so each claim is an
  induction on the position in the list. It is made by the least counterexample: of the
  positions at which it fails, were there any, one is the least (`LeastNumber` in
  `NumberProofs`), and it does not fail before. That every list has a pass takes a
  greatest position up to which there is one. Where the candidate that beats all
  stands it takes the lead, and no later one can take it; and whoever leads at the end
  was compared with each one behind it.

`RemoteCallProofs` proves, for any calls and nesting, any number of slots and of
pool threads and any `Indicator` not below the slots, every safety property of the
call runs and that `RemoteCall` implements `Invocation`.

- `Inv` is `TypeOK /\ CallerInv /\ ThreadInv /\ PacketInv /\ SlotsConserved`. None of
  the last four is inductive alone: that a response finds its slot's channel empty
  (`PacketInv`) needs that no other caller holds the slot (`SlotsConserved`), that a
  slot is given back only when no packet bears it needs `CallerInv`, and that a
  failed caller's response is never handed out needs the order in which threads end
  (`ThreadInv`). There is one lemma per action; `PacketsMove` is the common part of
  all in which a packet moves from one place to the next.
- `CountsAreJobs` adds that the sets counted are finite; no constant need be finite.
- `ServersEndIdle`: once the server thread has ended the count stays 0, because a
  count of 0 leaves nothing that could lower it and no request is received any more.
- `PacketsAreNotLost`: `NothingLost` is inductive with `Inv`: a multiplexer waits while
  a channel is full, so nothing in a channel is overwritten.
- `CallsNeverStick`: suppose a call is out and nothing can go on. Then no packet is on
  a wire or in a channel, so that by `NothingLost` the active calls wait for jobs that
  queue, run or have panicked. If none has panicked and no pool is starved, no job
  queues, each running method waits for an active call it has made, and so on
  without end. `NestingAssumption` forbids it: among finitely many calls there is one that
  is not the parent of another. It holds of every program, for a call is made after
  the one it is nested in, and TLC evaluates it for the constants of the runs.
- `StepsAreBounded` is the other half of an argument that calls end: every step raises
  the stage of a call (of twelve) or of an end (of five) and lowers none. Together they
  say of any finite set of calls that threads which go on come to an end or to one of the two
  ways to hang, and it is the fairness of section 4 by which they go on.
- `CallsKeepPromise` maps `TakeSlot` to `Invoke`; `TooManyCalls`, `SendFails` and
  `Abort` to `Fail`; `StartJob` to `Execute`, `Respond` to `End`, `Panic` and `Return`
  to their namesakes; every other step to a stutter.

`ServiceRegistryProofs` proves, for any objects, homes and owners and any number of
ids, the safety properties of `registry`, `RemovalsMove` under the hypothesis below. The
invariant of the first three is
`TypeOK /\ LifeInv /\ MapInv /\ IdsConserved`: `LifeInv` says what the stage of an object
implies for its id and proxy, `MapInv` that the map holds nothing but registered
objects. That a taken id is free in the map needs `IdsConserved`, and that a delete
request removes the very object its proxy belongs to needs `LifeInv`; `OneToOne` follows
from the two.

- `OwnersAreCalled`: an object is registered, and executes a method, while a call
  through a proxy that it owns is under way. It is proved by a second invariant on top
  (`WholeInv`), which also says what holds each lock.
- `ObjectsKeepPromise` maps `Register` to `Export`, `TooManyServices` to `Abandon`, the
  other steps of a use or a removal to their namesakes, and `PopId`, `Import`, `Die` and
  `PushId` to stutters. That `Execute` calls, and `Delete` drops, the object of the very
  proxy is `MapInv` with `LifeInv`; that an object is not dropped under a call, and an
  owned proxy only after its owner, is `WholeInv`.
- `RemovalsAlwaysMove` assumes `OneSided`, that the objects which own proxies live at one
  end: then the lock a removal waits for is that of an end whose objects own nothing
  and are dropped at once. Without it the claim is false, as section 5 says.

`ContextLifecycleProofs` proves, for any finite set of requests, any objects, users and
ownership of proxies, the two safety properties of `context`. The invariant is
`TypeOK /\ OrderInv /\ CountInv /\ HandInv /\ LateInv`: what the owner's place says about
the threads and the port (`OrderInv`), that the counter is the number of `Counted`
requests (`CountInv`), that a request, or a use of a proxy, that is left once the
transport is closed is in `inHand` (`HandInv`), and that objects registered after the
clearing, and those whose proxies found no port, are `late` (`LateInv`). That the port outlives the jobs rests on `CountInv`
(a server ends at a count of 0 only), and that `QuietDrop` holds on all four.

Two theorems beside the run take the place of a proof that drops end: `DropNeverSticks`
(as long as a drop is not over and the process lives, a thread of the library or the one
that drops has a step to take, or the owner waits for the registry's lock and the job
that holds it has one: the object's own `Drop` goes on, or the delete request fails,
because the transport is closed by then) and `DropStepsAreBounded` (each of these steps
uses up one of finitely many, and no other step gives one back, unless the process
aborts).

`ImageProviderProofs` proves, for any clients, ports, output names and bounds, the
safety properties of `provider`. The invariant is
`TypeOK /\ SetupInv /\ ListInv /\ FileInv`. `ContextsTracked` is not inductive: that a
pushed connection is nobody else's needs that a task paired with a client is the only
one (`SetupInv`), for which a client that is open is told no more; and that a pass
removes both entries needs `todo \subseteq ends` (`ListInv`). `OwnImage` needs `FileInv`:
two requests that run at once on one file both clash, and a file that has been written
holds the secret of its writer or of one it clashed with. `DistinctFilesSuffice` is its
consequence for a caller.

`ImageClientProofs` proves, for any finite set of servers, any number of images, permits
and workers, `CallsLimited`, and three theorems that are not in a run: `ChunksPartImages`
(the chunks part every number of images), `ImagesAreHandledOnce`, and `ClientNeverSticks`
(something can go on until the chunks are done). The last one assumes a permit and more
workers than permits: without the second it is false (section 5). `CallsLimited` needs
beside `PermitInv` that a chunk outside a round has no tasks (`RoundInv`): otherwise a
new round would forget a permit that is held.

From TLC only, because liveness is out of the prover's reach: `LeaderAgain`,
`EveryCallEnds`, `ServerEndsUnlessPanicked`, `DropEnds`, `LookedAfter`, `EveryImageEnds` and
`DropCompletes`. Of `EveryCallEnds`, `DropEnds`, `EveryImageEnds` and `DropCompletes` the
part that is no liveness, that something can always go on, is proved
(`CallsNeverStick`, `RemovalsAlwaysMove`, `ClientNeverSticks`, `DropNeverSticks`), and of the
first and the last also that the steps are bounded. Every safety property that a
passing run checks is proved, `RemovalsMove` under `OneSided` only. No module with a theorem uses a RECURSIVE operator.

## 7. Plan

1. `LeaderElection`, its runs and proofs: done.
2. `Invocation`, `RemoteCall`, their runs, proofs and refinement: done.
3. `RemoteObject`, `ServiceRegistry`, its runs, proofs and refinement: done.
4. `ContextLifecycle`, its run and proofs: done. Left: `clear_service_registry` called
   by the user while the context lives.
5. `ImageProvider` (with the set-up of connections), its run and proofs: done.
6. `ImageClient`, its run and proofs: done.
7. Left: what bounds the steps of a chunk's rounds and of a removal, and that a
   provider's serving loop always goes on.

## 8. Not modelled, and why

- The service macro has no run-time state; the test suites are programs that use the
  library, and were read for how it is meant to be used.
- The prototypes: `src/cloud_leader_election.rs` under `src/` belongs to no program that
  is built, `src/server.rs` and `src/client.rs` there are no modules of its `main.rs`, `bin/`
  is not built, and `cloud-service-provider/` is an older demonstration. The client and
  service_provider crates replace all of them. The two copies of the library are the
  same text; a definition is mapped to the copy that the actor it is about uses.
- Certificates, sockets and the QUIC protocol belong to quinn; the pixels of an image
  to the external `steganography` crate; `decode` is called by nobody.
- Argument serialization is generic glue, apart from the exports and imports in it,
  which are `Register` and `Import`. Left out of the registry: the meta service, null proxies,
  raw handles that are never imported, one object exported several times.
- The queue of endpoints in `service_provider/src/main.rs:124-178` is never filled, for
  the permit it waits for is always there.
- A `recv` of the transport fails only when the connection is closed: that a packet over
  the limit of `read_to_end` ends the multiplexer of a live connection is left out, and so
  is the chance that a thread needs longer than the tenth of a second that
  `Client::shutdown` gives it.
- Temporary files are assumed to have different names; the file of times that the
  client writes at its end is left out.
- Clock time is not modelled: a time-out may fire whenever what it waits for has not
  come. Hence nothing is said about a second waiter's time-out at `queue.rs:33`, and
  the waits without a time-out at `LE:216` are bounded only by quinn's own timers.
