--------------------------- MODULE ImageClientProofs ---------------------------
(***************************************************************************)
(* Theorems about ImageClient, for any servers, any number of images, of   *)
(* permits and of workers.                                                 *)
(***************************************************************************)
EXTENDS ImageClient, FiniteSetTheorems, TLAPS

(* The chunks part the images: every image is in exactly one of the three,  *)
(* however many images there are.                                           *)
THEOREM ChunksPartImages ==
  ASSUME NEW n \in Nat, NEW i \in 1 .. n
  PROVE  \E k \in Chunk : /\ i \in ChunkOf(k, n)
                          /\ \A m \in Chunk : i \in ChunkOf(m, n) => m = k
  <1>0. DEFINE c == ChunkSize(n)
  <1>1. c \in Nat /\ 3 * c >= n
    BY DEF ChunkSize
  <1>2. /\ ChunkOf(1, n) = {j \in 1 .. n : 1 <= j /\ j <= c}
        /\ ChunkOf(2, n) = {j \in 1 .. n : c + 1 <= j /\ j <= 2 * c}
        /\ ChunkOf(3, n) = {j \in 1 .. n : 2 * c + 1 <= j /\ j <= 3 * c}
    BY <1>1 DEF ChunkOf, First
  <1> HIDE DEF c
  <1>3. Chunk = {1, 2, 3}
    BY DEF Chunk
  <1>4. CASE i <= c
    BY <1>1, <1>2, <1>3, <1>4
  <1>5. CASE c < i /\ i <= 2 * c
    BY <1>1, <1>2, <1>3, <1>5
  <1>6. CASE 2 * c < i
    BY <1>1, <1>2, <1>3, <1>6
  <1> QED
    BY <1>1, <1>4, <1>5, <1>6

LEMMA FirstImage ==
  ASSUME NEW n \in Nat, NEW k \in Chunk
  PROVE  First(k, n) \in Nat \ {0}
  <1>1. ChunkSize(n) \in Nat
    BY DEF ChunkSize
  <1>2. k = 1 \/ k = 2 \/ k = 3
    BY DEF Chunk
  <1> QED
    BY <1>1, <1>2 DEF First
-------------------------------------------------------------------------------
(* A chunk's task has an image of its own chunk in hand, and there are      *)
(* tasks for servers only in a round.                                       *)
InHand == \A k \in Chunk : chunk[k] = "round" => at[k] \in ChunkOf(k, images)
RoundInv ==
  /\ \A k \in Chunk : chunk[k] # "round" => \A s \in Server : task[k][s] = "none"
  /\ main = "start" => \A k \in Chunk : chunk[k] = "none"
PermitInv == free + Cardinality(Holding) = Permits

Inv == TypeOK /\ InHand /\ RoundInv /\ PermitInv

LEMMA HoldingFinite == IsFiniteSet(Holding) /\ Cardinality(Holding) \in Nat
  <1>1. IsFiniteSet(1 .. 3)
    <2>1. 1 \in Int /\ 3 \in Int
      OBVIOUS
    <2> QED
      BY <2>1, FS_Interval, Zenon
  <1>2. IsFiniteSet(Chunk \X Server)
    BY <1>1, FS_Product, ClientAssumption DEF Chunk
  <1>3. Holding \in SUBSET (Chunk \X Server)
    BY DEF Holding, At
  <1> QED
    BY <1>2, <1>3, FS_Subset, FS_CardinalityType

LEMMA HeldIs ==
  ASSUME NEW k \in Chunk, NEW s \in Server
  PROVE  <<k, s>> \in Holding <=> task[k][s] \in {"creating", "encoding"}
  BY DEF Holding, At

LEMMA HoldingIs ==
  Holding = {x \in Chunk \X Server : task[x[1]][x[2]] \in {"creating", "encoding"}}
  BY DEF Holding, At

(* Steps in which nobody takes or gives back a permit.                      *)
LEMMA SameHolding ==
  ASSUME \A k \in Chunk, s \in Server :
           task'[k][s] \in {"creating", "encoding"} <=> task[k][s] \in {"creating", "encoding"}
  PROVE  Holding' = Holding
  <1>1. \A x \in Chunk \X Server : x[1] \in Chunk /\ x[2] \in Server
    OBVIOUS
  <1>2. Holding' = {x \in Chunk \X Server : task'[x[1]][x[2]] \in {"creating", "encoding"}}
    BY DEF Holding, At
  <1> QED
    BY <1>1, <1>2, HoldingIs

LEMMA MoveHolding ==
  ASSUME TypeOK, NEW k \in Chunk, NEW s \in Server, NEW from, NEW to,
         task[k][s] = from, task' = [task EXCEPT ![k][s] = to]
  PROVE  /\ from \notin {"creating", "encoding"} /\ to \in {"creating", "encoding"}
              => Holding' = Holding \cup {<<k, s>>} /\ <<k, s>> \notin Holding
         /\ from \in {"creating", "encoding"} /\ to \notin {"creating", "encoding"}
              => Holding' = Holding \ {<<k, s>>} /\ <<k, s>> \in Holding
         /\ from \notin {"creating", "encoding"} /\ to \notin {"creating", "encoding"}
              => Holding' = Holding
         /\ from \in {"creating", "encoding"} /\ to \in {"creating", "encoding"}
              => Holding' = Holding
  <1>1. \A x \in Chunk \X Server : x = <<x[1], x[2]>> /\ x[1] \in Chunk /\ x[2] \in Server
    OBVIOUS
  <1>2. Holding' = {x \in Chunk \X Server : task'[x[1]][x[2]] \in {"creating", "encoding"}}
    BY DEF Holding, At
  <1>3. \A x \in Chunk \X Server :
          task'[x[1]][x[2]] = IF x = <<k, s>> THEN to ELSE task[x[1]][x[2]]
    BY <1>1 DEF TypeOK
  <1>4. <<k, s>> \in Chunk \X Server
    OBVIOUS
  <1> QED
    BY <1>2, <1>3, <1>4, HoldingIs
-------------------------------------------------------------------------------
LEMMA InitInv == Init => Inv
  <1> SUFFICES ASSUME Init PROVE Inv
    OBVIOUS
  <1>1. TypeOK
    BY ClientAssumption DEF Init, TypeOK
  <1>2. Holding = {}
    BY HoldingIs DEF Init
  <1>3. PermitInv
    BY <1>2, FS_EmptySet, ClientAssumption DEF PermitInv, Init
  <1> QED
    BY <1>1, <1>3 DEF Init, Inv, InHand, RoundInv

(* A step that leaves the permits alone.                                    *)
LEMMA PermitsKept ==
  ASSUME Inv, free' = free, Holding' = Holding
  PROVE  PermitInv'
  BY DEF Inv, PermitInv

LEMMA SplitInv == Inv /\ Split => Inv'
  <1> SUFFICES ASSUME Inv, Split PROVE Inv'
    OBVIOUS
  <1>1. Holding' = Holding
    BY SameHolding DEF Split
  <1>2. PermitInv'
    BY <1>1, PermitsKept DEF Split
  <1>3. CASE images = 0
    BY <1>2, <1>3 DEF Inv, TypeOK, Split, InHand, RoundInv
  <1>4. CASE images > 0
    <2>1. \A k \in Chunk : at'[k] \in 1 .. images + 1
      <3>1. images \in Nat
        BY DEF Inv, TypeOK
      <3>2. \A k \in Chunk : First(k, images) \in Nat \ {0}
        BY <3>1, FirstImage
      <3>3. \A k \in Chunk : at'[k] = IF First(k, images) <= images
                                      THEN First(k, images) ELSE images + 1
        BY <1>4 DEF Split
      <3> QED
        BY <3>1, <3>2, <3>3
    <2>2. \A k \in Chunk : chunk'[k] = "next"
      BY <1>4 DEF Split
    <2>3. TypeOK'
      BY <1>4, <2>1 DEF Inv, TypeOK, Split
    <2>4. RoundInv'
      BY <1>4, <2>2 DEF Inv, RoundInv, Split
    <2> QED
      BY <1>2, <2>2, <2>3, <2>4 DEF Inv, InHand
  <1> QED
    BY <1>3, <1>4 DEF Inv, TypeOK

LEMMA RoundStarts ==
  ASSUME Inv, NEW k \in Chunk, main' = main, main = "joining",
         images' = images, at' = at, free' = free,
         \A s \in Server : task[k][s] \notin {"creating", "encoding"},
         chunk' \in [Chunk -> {"none", "next", "round", "ended"}],
         chunk'[k] = "round", at[k] \in ChunkOf(k, images),
         \A m \in Chunk \ {k} : chunk'[m] = chunk[m],
         task' = [task EXCEPT ![k] = Round]
  PROVE  Inv'
  <1>1. \A m \in Chunk, s \in Server :
          task'[m][s] = IF m = k THEN "waiting" ELSE task[m][s]
    BY DEF Inv, TypeOK, Round
  <1>2. Holding' = Holding
    BY <1>1, SameHolding
  <1>3. TypeOK'
    BY DEF Inv, TypeOK, Round
  <1>4. InHand' /\ RoundInv'
    BY <1>1 DEF Inv, InHand, RoundInv
  <1> QED
    BY <1>2, <1>3, <1>4, PermitsKept DEF Inv

LEMMA TakeImageInv ==
  ASSUME Inv, NEW k \in Chunk, TakeImage(k)
  PROVE  Inv'
  <1>1. \A s \in Server : task[k][s] \notin {"creating", "encoding"}
    BY DEF Inv, RoundInv, TakeImage
  <1>2. main = "joining" /\ at[k] \in ChunkOf(k, images)
    BY DEF TakeImage, Runs
  <1>3. /\ chunk' \in [Chunk -> {"none", "next", "round", "ended"}]
        /\ chunk'[k] = "round" /\ \A m \in Chunk \ {k} : chunk'[m] = chunk[m]
    BY DEF Inv, TypeOK, TakeImage
  <1> QED
    BY <1>1, <1>2, <1>3, RoundStarts DEF TakeImage

LEMMA RetryRoundInv ==
  ASSUME Inv, NEW k \in Chunk, RetryRound(k)
  PROVE  Inv'
  <1>1. \A s \in Server : task[k][s] \notin {"creating", "encoding"}
    BY DEF RetryRound
  <1>2. main = "joining" /\ chunk[k] = "round" /\ at[k] \in ChunkOf(k, images)
    BY DEF Inv, InHand, RetryRound, RoundOver, Runs
  <1> QED
    BY <1>1, <1>2, RoundStarts DEF RetryRound, Inv, TypeOK

LEMMA ChunkEnds ==
  ASSUME Inv, NEW k \in Chunk, OpenFails(k) \/ ChunkDone(k)
  PROVE  Inv'
  <1>1. /\ chunk' = [chunk EXCEPT ![k] = "ended"] /\ chunk[k] = "next"
        /\ UNCHANGED <<main, images, at, task, free>> /\ main = "joining"
    BY DEF OpenFails, ChunkDone, Runs
  <1>2. Holding' = Holding
    BY <1>1, SameHolding
  <1>3. TypeOK' /\ InHand' /\ RoundInv'
    BY <1>1 DEF Inv, TypeOK, InHand, RoundInv
  <1> QED
    BY <1>1, <1>2, <1>3, PermitsKept DEF Inv

LEMMA NextImageInv ==
  ASSUME Inv, NEW k \in Chunk, NextImage(k)
  PROVE  Inv'
  <1>1. at[k] \in 1 .. images /\ chunk[k] = "round" /\ main = "joining"
    BY DEF Inv, InHand, ChunkOf, NextImage, RoundOver, Runs
  <1>2. \A m \in Chunk, s \in Server :
          task'[m][s] = IF m = k THEN "none" ELSE task[m][s]
    BY DEF Inv, TypeOK, NextImage
  <1>3. \A s \in Server : task[k][s] \notin {"creating", "encoding"}
    BY DEF NextImage, RoundOver
  <1>4. Holding' = Holding
    BY <1>2, <1>3, SameHolding
  <1>5. images \in Nat /\ images' = images
    BY ClientAssumption DEF Inv, TypeOK, NextImage
  <1>6. TypeOK'
    BY <1>1, <1>5 DEF Inv, TypeOK, NextImage
  <1>7. InHand'
    BY DEF Inv, TypeOK, InHand, NextImage
  <1>8. RoundInv'
    BY <1>1, <1>2 DEF Inv, TypeOK, RoundInv, NextImage
  <1> QED
    BY <1>4, <1>6, <1>7, <1>8, PermitsKept DEF Inv, NextImage
-------------------------------------------------------------------------------
Step6 == {"waiting", "creating", "encoding", "closing", "ended", "panicked"}

(* The task for a server takes a step.                                      *)
LEMMA TaskMoves ==
  ASSUME Inv, NEW k \in Chunk, NEW s \in Server, NEW from \in Step6, NEW to \in Step6,
         main = "joining", task[k][s] = from, task' = [task EXCEPT ![k][s] = to],
         UNCHANGED <<main, images, at, chunk>>, free' \in 0 .. Permits
  PROVE  TypeOK' /\ InHand' /\ RoundInv'
  <1>1. chunk[k] = "round"
    BY DEF Inv, RoundInv, Step6
  <1>2. TypeOK'
    BY DEF Inv, TypeOK, Step6
  <1>3. \A m \in Chunk \ {k} : task'[m] = task[m]
    BY DEF Inv, TypeOK
  <1> QED
    BY <1>1, <1>2, <1>3 DEF Inv, InHand, RoundInv

LEMMA Gives ==
  ASSUME Inv, NEW k \in Chunk, NEW s \in Server, <<k, s>> \in Holding
  PROVE  /\ free + 1 \in 0 .. Permits
         /\ Cardinality(Holding \ {<<k, s>>}) = Cardinality(Holding) - 1
  <1>1. Cardinality(Holding \ {<<k, s>>}) = Cardinality(Holding) - 1
    BY HoldingFinite, FS_RemoveElement
  <1>2. Cardinality(Holding \ {<<k, s>>}) \in Nat
    BY HoldingFinite, FS_RemoveElement, FS_CardinalityType
  <1> QED
    BY <1>1, <1>2, HoldingFinite, ClientAssumption DEF Inv, PermitInv, TypeOK

LEMMA AcquireInv ==
  ASSUME Inv, NEW k \in Chunk, NEW s \in Server, Acquire(k, s)
  PROVE  Inv'
  <1>1. /\ task[k][s] = "waiting" /\ task' = [task EXCEPT ![k][s] = "creating"]
        /\ main = "joining" /\ UNCHANGED <<main, images, at, chunk>>
        /\ free > 0 /\ free' = free - 1
    BY DEF Acquire, Move
  <1>2. free' \in 0 .. Permits
    BY <1>1, ClientAssumption DEF Inv, TypeOK
  <1>3. Holding' = Holding \cup {<<k, s>>} /\ <<k, s>> \notin Holding
    BY <1>1, MoveHolding DEF Inv
  <1>4. Cardinality(Holding') = Cardinality(Holding) + 1
    BY <1>3, HoldingFinite, FS_AddElement
  <1>5. PermitInv'
    BY <1>1, <1>4, HoldingFinite, ClientAssumption DEF Inv, PermitInv, TypeOK
  <1> QED
    BY <1>1, <1>2, <1>5, TaskMoves DEF Inv, Step6

LEMMA ReleaseInv ==
  ASSUME Inv, NEW k \in Chunk, NEW s \in Server,
         NEW from \in {"creating", "encoding"}, NEW to \in {"closing", "ended", "panicked"},
         Move(k, s, from, to), free' = free + 1
  PROVE  Inv'
  <1>1. /\ task[k][s] = from /\ task' = [task EXCEPT ![k][s] = to]
        /\ main = "joining" /\ UNCHANGED <<main, images, at, chunk>>
    BY DEF Move
  <1>2. Holding' = Holding \ {<<k, s>>} /\ <<k, s>> \in Holding
    BY <1>1, MoveHolding DEF Inv
  <1>3. free + 1 \in 0 .. Permits /\ Cardinality(Holding') = Cardinality(Holding) - 1
    BY <1>2, Gives
  <1>4. PermitInv'
    BY <1>3, HoldingFinite, ClientAssumption DEF Inv, PermitInv, TypeOK
  <1> QED
    BY <1>1, <1>3, <1>4, TaskMoves DEF Inv, Step6

LEMMA KeepInv ==
  ASSUME Inv, NEW k \in Chunk, NEW s \in Server, Created(k, s) \/ Closed(k, s)
  PROVE  Inv'
  <1>1. PICK from \in Step6, to \in Step6 :
          /\ task[k][s] = from /\ task' = [task EXCEPT ![k][s] = to]
          /\ \/ from = "creating" /\ to = "encoding"
             \/ from = "closing" /\ to = "ended"
    BY DEF Created, Closed, Move, Step6
  <1>2. main = "joining" /\ UNCHANGED <<main, images, at, chunk, free>>
    BY DEF Created, Closed, Move
  <1>3. Holding' = Holding
    BY <1>1, MoveHolding DEF Inv
  <1>4. free' \in 0 .. Permits
    BY <1>2 DEF Inv, TypeOK
  <1> QED
    BY <1>1, <1>2, <1>3, <1>4, TaskMoves, PermitsKept DEF Inv
-------------------------------------------------------------------------------
LEMMA NextInv == Inv /\ [Next]_vars => Inv'
  <1> SUFFICES ASSUME Inv, [Next]_vars PROVE Inv'
    OBVIOUS
  <1>1. CASE Split
    BY <1>1, SplitInv
  <1>2. ASSUME main' \in {"joining", "done"}, main # "start",
               UNCHANGED <<images, at, chunk, task, free>>
        PROVE  Inv'
    <2>1. Holding' = Holding
      BY <1>2, SameHolding
    <2> QED
      BY <1>2, <2>1, PermitsKept DEF Inv, TypeOK, InHand, RoundInv
  <1>3. CASE Join
    BY <1>2, <1>3 DEF Join
  <1>4. CASE UNCHANGED vars
    <2>1. Holding' = Holding
      BY <1>4, SameHolding DEF vars
    <2> QED
      BY <1>4, <2>1, PermitsKept DEF vars, Inv, TypeOK, InHand, RoundInv
  <1>5. ASSUME NEW k \in Chunk, ChunkStep(k) PROVE Inv'
    BY <1>5, TakeImageInv, RetryRoundInv, ChunkEnds, NextImageInv DEF ChunkStep
  <1>6. ASSUME NEW k \in Chunk, NEW s \in Server, TaskStep(k, s) PROVE Inv'
    <2>1. CASE CreateFails(k, s)
      BY <2>1, ReleaseInv DEF CreateFails
    <2>2. CASE ContextPanics(k, s)
      BY <2>2, ReleaseInv DEF ContextPanics
    <2>3. CASE Encoded(k, s)
      BY <2>3, ReleaseInv DEF Encoded
    <2> QED
      BY <1>6, <2>1, <2>2, <2>3, AcquireInv, KeepInv DEF TaskStep, Creates
  <1> QED
    BY <1>1, <1>3, <1>4, <1>5, <1>6 DEF Next, Step, Finished

LEMMA Invariance == Spec => []Inv
  BY InitInv, NextInv, PTL DEF Spec
-------------------------------------------------------------------------------
(* Every variable keeps its type: a chunk's task never runs past its images *)
(* by more than one, and there are never more permits than Permits.         *)
THEOREM TypeCorrect == Spec => []TypeOK
  <1>1. Inv => TypeOK
    BY DEF Inv
  <1> QED
    BY <1>1, Invariance, PTL

(* The semaphore limits the calls, and calls alone do not block the runtime *)
(* as long as it has more workers than there are permits.                   *)
THEOREM CallsAreLimited == Spec => []CallsLimited
  <1>1. Inv => CallsLimited
    <2> SUFFICES ASSUME Inv PROVE CallsLimited
      OBVIOUS
    <2>1. At("encoding") \in SUBSET Holding
      BY DEF Holding
    <2>2. /\ Cardinality(At("encoding")) \in Nat
          /\ Cardinality(At("encoding")) <= Cardinality(Holding)
      BY <2>1, HoldingFinite, FS_Subset, FS_CardinalityType
    <2> QED
      BY <2>2, HoldingFinite, ClientAssumption DEF Inv, PermitInv, TypeOK, CallsLimited
  <1> QED
    BY <1>1, Invariance, PTL

(* No image is in the hands of two chunks' tasks, or of one that does not   *)
(* have it: no image is encoded twice at a time, in rounds of two chunks    *)
(* whose requests name the same output file.                                *)
OneTaskPerImage ==
  \A k, m \in Chunk :
    chunk[k] = "round" /\ chunk[m] = "round" /\ at[k] = at[m] => k = m

THEOREM ImagesAreHandledOnce == Spec => []OneTaskPerImage
  <1>1. Inv => OneTaskPerImage
    <2> SUFFICES ASSUME Inv, NEW k \in Chunk, NEW m \in Chunk,
                        chunk[k] = "round", chunk[m] = "round", at[k] = at[m]
                 PROVE  k = m
      BY DEF OneTaskPerImage
    <2>1. at[k] \in ChunkOf(k, images) /\ at[k] \in ChunkOf(m, images)
      BY DEF Inv, InHand
    <2>2. images \in Nat /\ at[k] \in 1 .. images
      BY <2>1, ClientAssumption DEF Inv, TypeOK, ChunkOf
    <2> QED
      BY <2>1, <2>2, ChunksPartImages
  <1> QED
    BY <1>1, Invariance, PTL
-------------------------------------------------------------------------------
(* The client does not get stuck.  The guards of its steps:                 *)
TaskGoes ==
  \/ At("closing") # {}
  \/ WorkerFree /\ (At("creating") # {} \/ At("encoding") # {})
  \/ WorkerFree /\ At("waiting") # {} /\ free > 0
ChunkGoes ==
  /\ WorkerFree
  /\ \E k \in Chunk :
       \/ chunk[k] = "next"
       \/ /\ chunk[k] = "round"
          /\ \A s \in Server : task[k][s] \in {"ended", "panicked"}
JoinGoes == \A k \in Chunk : chunk[k] = "ended"

(* Every chunk has its task, and in a round every server has one.           *)
Started ==
  /\ main = "joining" => \A k \in Chunk : chunk[k] # "none"
  /\ \A k \in Chunk : chunk[k] = "round" => \A s \in Server : task[k][s] # "none"

LEMMA StartedNext ==
  ASSUME Inv, Started, Next
  PROVE  Started'
  <1>0. /\ chunk \in [Chunk -> {"none", "next", "round", "ended"}]
        /\ task \in [Chunk -> [Server -> Step6 \cup {"none"}]]
    BY DEF Inv, TypeOK, Step6
  <1>1. CASE Split
    BY <1>1 DEF Split, Started
  <1>2. CASE Join \/ Finished
    BY <1>2 DEF Join, Finished, vars, Started
  <1>3. ASSUME NEW k \in Chunk, ChunkStep(k) PROVE Started'
    <2>1. main' = main /\ main = "joining"
      BY <1>3 DEF ChunkStep, TakeImage, OpenFails, ChunkDone, NextImage, RetryRound,
                  RoundOver, Runs
    <2>2. CASE TakeImage(k) \/ RetryRound(k)
      <3>1. \A s \in Server : task'[k][s] = "waiting"
        BY <1>0, <2>2 DEF TakeImage, RetryRound, Round
      <3>2. \A m \in Chunk \ {k} : task'[m] = task[m] /\ chunk'[m] = chunk[m]
        BY <1>0, <2>2 DEF TakeImage, RetryRound
      <3>3. chunk'[k] = "round"
        BY <1>0, <2>2 DEF TakeImage, RetryRound, RoundOver
      <3> QED
        BY <2>1, <3>1, <3>2, <3>3 DEF Started
    <2>3. CASE OpenFails(k) \/ ChunkDone(k) \/ NextImage(k)
      <3>1. chunk'[k] \in {"next", "ended"}
        BY <1>0, <2>3 DEF OpenFails, ChunkDone, NextImage
      <3>2. \A m \in Chunk \ {k} : task'[m] = task[m] /\ chunk'[m] = chunk[m]
        BY <1>0, <2>3 DEF OpenFails, ChunkDone, NextImage
      <3> QED
        BY <2>1, <3>1, <3>2 DEF Started
    <2> QED
      BY <1>3, <2>2, <2>3 DEF ChunkStep
  <1>4. ASSUME NEW k \in Chunk, NEW s \in Server, TaskStep(k, s) PROVE Started'
    <2>1. PICK to \in Step6 : task' = [task EXCEPT ![k][s] = to]
      BY <1>4 DEF TaskStep, Acquire, Creates, Created, CreateFails, ContextPanics,
                  Encoded, Closed, Move, Step6
    <2>2. UNCHANGED <<main, chunk>>
      BY <1>4 DEF TaskStep, Acquire, Creates, Created, CreateFails, ContextPanics,
                  Encoded, Closed, Move
    <2>3. \A m \in Chunk, t \in Server : task'[m][t] = task[m][t] \/ task'[m][t] = to
      BY <1>0, <2>1
    <2> QED
      BY <2>2, <2>3 DEF Started, Step6
  <1> QED
    BY <1>1, <1>2, <1>3, <1>4 DEF Next, Step

LEMMA StartedAlways == Spec => []Started
  <1>1. Init => Started
    BY DEF Init, Started
  <1>2. Inv /\ Started /\ [Next]_vars => Started'
    <2>1. Started /\ UNCHANGED vars => Started'
      BY DEF Started, vars
    <2> QED
      BY <2>1, StartedNext
  <1> QED
    BY <1>1, <1>2, Invariance, PTL DEF Spec

(* With a permit, and with more workers than permits, something can run     *)
(* until all chunks are done: the calls that block workers are never so     *)
(* many that no worker is left for the tasks the calls wait for.            *)
NeverStuck == main = "joining" => TaskGoes \/ ChunkGoes \/ JoinGoes

THEOREM ClientNeverSticks ==
  ASSUME Permits > 0, Permits < Workers
  PROVE  Spec => []NeverStuck
  <1>1. Inv /\ Started /\ CallsLimited => NeverStuck
    <2> SUFFICES ASSUME Inv, Started, CallsLimited, main = "joining",
                        ~ TaskGoes, ~ ChunkGoes, ~ JoinGoes
                 PROVE  FALSE
      BY DEF NeverStuck
    <2>1. At("closing") = {}
      BY DEF TaskGoes
    <2>2. WorkerFree
      <3>1. Blocked = At("encoding")
        BY <2>1 DEF Blocked
      <3> QED
        BY <3>1 DEF CallsLimited, WorkerFree
    <2>3. At("creating") = {} /\ At("encoding") = {}
      BY <2>2 DEF TaskGoes
    <2>4. free = Permits
      <3>1. Holding = {}
        BY <2>3 DEF Holding
      <3>2. Cardinality(Holding) = 0
        BY <3>1, FS_EmptySet
      <3> QED
        BY <3>2, ClientAssumption DEF CallsLimited, Inv, TypeOK
    <2>5. At("waiting") = {}
      BY <2>2, <2>4 DEF TaskGoes
    <2>6. PICK k \in Chunk : chunk[k] # "ended"
      BY DEF JoinGoes
    <2>7. chunk[k] = "round"
      BY <2>2, <2>6 DEF Started, ChunkGoes, Inv, TypeOK
    <2>8. PICK s \in Server : task[k][s] \notin {"ended", "panicked", "none"}
      BY <2>2, <2>7 DEF ChunkGoes, Started
    <2>9. task[k][s] \in {"waiting", "creating", "encoding", "closing"}
      BY <2>8 DEF Inv, TypeOK
    <2>10. \A w : task[k][s] = w => <<k, s>> \in At(w)
      BY DEF At
    <2> QED
      BY <2>1, <2>3, <2>5, <2>9, <2>10
  <1> QED
    BY <1>1, Invariance, StartedAlways, CallsAreLimited, PTL
===============================================================================
