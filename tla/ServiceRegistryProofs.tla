------------------------- MODULE ServiceRegistryProofs -------------------------
(***************************************************************************)
(* Theorems about ServiceRegistry, for any objects, any ownership of their *)
(* proxies and any number of ids.                                          *)
(***************************************************************************)
EXTENDS ServiceRegistry, QueueProofs

(* What the stage of an object says of its id, its place and its proxy.     *)
LifeOf(o) ==
  /\ stage[o] = "local" => id[o] = NoId /\ proxy[o] = "none"
  /\ stage[o] = "popped" => id[o] \in Id /\ proxy[o] = "none"
  /\ stage[o] = "registered" =>
       /\ id[o] \in Id /\ objects[Home[o]][id[o]] = o
       /\ proxy[o] \in InUse \/ (proxy[o] = "dropped" /\ noDrop[Importer(o)])
  /\ stage[o] = "dying" => \/ id[o] = NoId /\ proxy[o] = "none"
                           \/ id[o] \in Id /\ proxy[o] = "deleting"
  /\ stage[o] = "dead" => id[o] \in Id /\ proxy[o] = "deleting"
  /\ stage[o] = "gone" => \/ id[o] = NoId /\ proxy[o] = "none"
                          \/ id[o] \in Id /\ proxy[o] \in {"deleting", "dropped"}
LifeInv == \A o \in Obj : LifeOf(o)

(* The map holds nothing but registered objects, under their ids.           *)
MapInv ==
  \A e \in End, i \in Id :
    objects[e][i] # NoObj =>
      /\ objects[e][i] \in Obj /\ Home[objects[e][i]] = e
      /\ stage[objects[e][i]] = "registered" /\ id[objects[e][i]] = i

Inv == TypeOK /\ LifeInv /\ MapInv /\ IdsConserved

LEMMA Ends ==
  /\ \A e \in End : Other(e) \in End
  /\ \A o \in Obj : Home[o] \in End /\ Importer(o) \in End
  /\ NoObj \notin Obj /\ NoId \notin Id
  BY ObjAssumption DEF End, Other, Importer, Id, NoId

LEMMA Types ==
  ASSUME TypeOK, NEW e \in End
  PROVE  /\ available[e] \in Seq(Id)
         /\ Range(available[e]) \subseteq Id
  <1>1. available[e] \in Seq(Id)
    BY DEF TypeOK
  <1> QED
    BY <1>1, MembersOf
-------------------------------------------------------------------------------
LEMMA InitInv == Init => Inv
  <1> SUFFICES ASSUME Init PROVE Inv
    OBVIOUS
  <1>0. /\ MaxServices \in Nat /\ MaxServices >= 2 /\ 1 \in Id /\ 0 \notin Id
        /\ \A e \in End : Initial[e] \in Obj /\ Home[Initial[e]] = e
    BY ObjAssumption DEF Id
  <1>1. \A e \in End : /\ available[e] \in Seq(Id)
                       /\ DOMAIN available[e] = 1 .. MaxServices - 2
                       /\ \A i \in 1 .. MaxServices - 2 : available[e][i] = i + 1
    <2>1. InitialIds \in Seq(Id)
      <3>1. MaxServices - 2 \in Nat
        BY <1>0
      <3>2. \A i \in 1 .. MaxServices - 2 : i + 1 \in Id
        BY <1>0 DEF Id
      <3> QED
        BY <3>1, <3>2, IsASeq DEF InitialIds
    <2> QED
      BY <2>1 DEF Init, InitialIds
  <1>2. TypeOK
    <2>1. stage \in [Obj -> Stage] /\ proxy \in [Obj -> Proxy]
      BY DEF Init, Stage, Proxy
    <2>2. id \in [Obj -> Id \cup {NoId}]
      BY <1>0 DEF Init, INITIAL_SERVICE_OBJECT_ID
    <2>3. objects \in [End -> [Id -> Obj \cup {NoObj}]]
      BY <1>0 DEF Init
    <2>4. available \in [End -> Seq(Id)]
      BY <1>1 DEF Init
    <2>5. lock \in [End -> Obj \cup {NoObj}] /\ noDrop \in [End -> BOOLEAN]
      BY DEF Init
    <2> QED
      BY <2>1, <2>2, <2>3, <2>4, <2>5 DEF TypeOK
  <1>3. LifeInv
    BY <1>0, Ends DEF Init, LifeInv, LifeOf, IsInitial, INITIAL_SERVICE_OBJECT_ID, InUse, NoId
  <1>4. MapInv
    BY <1>0, Ends DEF Init, MapInv, IsInitial, INITIAL_SERVICE_OBJECT_ID
  <1>5. ASSUME NEW e \in End PROVE IdsOf(e)
    <2>1. Between(e) = {}
      BY DEF Init, Between
    <2>2. IsInjective(available[e])
      BY <1>0, <1>1 DEF IsInjective
    <2>3. \A i \in Id : i \in Range(available[e]) <=> i # 1
      <3>1. PICK n \in Nat : n = MaxServices - 2 /\ Id = 1 .. n + 1
        BY <1>0 DEF Id
      <3>2. DOMAIN available[e] = 1 .. n /\ \A i \in 1 .. n : available[e][i] = i + 1
        BY <1>1, <3>1
      <3>3. ASSUME NEW i \in Id, i # 1 PROVE i \in Range(available[e])
        <4>1. i - 1 \in 1 .. n /\ (i - 1) + 1 = i
          BY <3>1, <3>3
        <4> QED
          BY <3>2, <4>1 DEF Range
      <3>4. 1 \notin Range(available[e])
        BY <3>2 DEF Range
      <3> QED
        BY <3>3, <3>4
    <2>4. \A i \in Id : objects[e][i] = NoObj <=> i # 1
      BY <1>0, Ends DEF Init, INITIAL_SERVICE_OBJECT_ID
    <2> QED
      BY <2>1, <2>2, <2>3, <2>4 DEF IdsOf
  <1> QED
    BY <1>2, <1>3, <1>4, <1>5 DEF Inv, IdsConserved
-------------------------------------------------------------------------------
(* Steps that leave the ids alone.                                          *)

LEMMA IdsKept ==
  ASSUME Inv, UNCHANGED <<id, objects, available>>,
         \A e \in End : Between(e)' = Between(e)
  PROVE  IdsConserved'
  BY DEF Inv, IdsConserved, IdsOf

LEMMA ProxyStep ==
  ASSUME Inv, UNCHANGED <<stage, id, objects, available>>,
         NEW o \in Obj, NEW x \in Proxy, proxy' = [proxy EXCEPT ![o] = x],
         lock' \in [End -> Obj \cup {NoObj}], UNCHANGED noDrop, LifeOf(o)'
  PROVE  Inv'
  <1>1. TypeOK'
    BY DEF Inv, TypeOK
  <1>2. LifeInv'
    BY DEF Inv, TypeOK, LifeInv, LifeOf
  <1>3. MapInv'
    BY DEF Inv, MapInv
  <1>4. IdsConserved'
    BY IdsKept DEF Between
  <1> QED
    BY <1>1, <1>2, <1>3, <1>4 DEF Inv

LEMMA UseInv ==
  ASSUME Inv, NEW o \in Obj,
         Import(o) \/ Call(o) \/ Return(o) \/ DropProxy(o) \/ Deleted(o)
  PROVE  Inv'
  <1>1. LifeOf(o)
    BY DEF Inv, LifeInv
  <1>2. PICK x \in Proxy : proxy' = [proxy EXCEPT ![o] = x]
    <2>1. CASE Import(o) \/ Call(o) \/ Return(o) \/ Deleted(o)
      BY <2>1 DEF Import, Call, Return, Deleted, SetProxy, Proxy
    <2>2. CASE DropProxy(o)
      BY <2>2 DEF DropProxy, SetProxy, Proxy
    <2> QED
      BY <2>1, <2>2
  <1>3. UNCHANGED <<stage, id, objects, available, lock, noDrop>>
    BY DEF Import, Call, Return, DropProxy, Deleted
  <1>4. LifeOf(o)'
    <2>1. proxy'[o] = x /\ proxy \in [Obj -> Proxy]
      BY <1>2 DEF Inv, TypeOK
    <2>2. CASE Import(o) \/ Call(o) \/ Return(o)
      <3>1. proxy[o] \in InUse /\ x \in InUse
        BY <1>2, <2>1, <2>2 DEF Import, Call, Return, SetProxy, InUse
      <3> QED
        BY <1>1, <1>3, <2>1, <3>1 DEF LifeOf, InUse
    <2>3. CASE DropProxy(o)
      <3>1. proxy[o] \in InUse /\ (x = "dropping" \/ (x = "dropped" /\ noDrop[Importer(o)]))
        BY <1>2, <2>1, <2>3 DEF DropProxy, SetProxy, InUse
      <3> QED
        BY <1>1, <1>3, <2>1, <3>1 DEF LifeOf, InUse
    <2>4. CASE Deleted(o)
      <3>1. proxy[o] = "deleting" /\ stage[o] = "gone" /\ x = "dropped"
        BY <1>2, <2>1, <2>4 DEF Deleted, SetProxy
      <3> QED
        BY <1>1, <1>3, <2>1, <3>1 DEF LifeOf, InUse
    <2> QED
      BY <2>2, <2>3, <2>4
  <1>5. lock' \in [End -> Obj \cup {NoObj}] /\ UNCHANGED noDrop
    BY <1>3 DEF Inv, TypeOK
  <1> QED
    BY <1>2, <1>3, <1>4, <1>5, ProxyStep

LEMMA ExecuteInv ==
  ASSUME Inv, NEW o \in Obj, Execute(o)
  PROVE  Inv'
  <1>1. LifeOf(o) /\ proxy[o] = "calling"
    BY DEF Inv, LifeInv, Execute
  <1>2. stage[o] = "registered" /\ objects[Home[o]][id[o]] = o
    <2>1. stage[o] \in Stage
      BY DEF Inv, TypeOK
    <2> QED
      BY <1>1, <2>1 DEF LifeOf, Stage
  <1>3. proxy' = [proxy EXCEPT ![o] = "executing"]
        /\ UNCHANGED <<stage, id, objects, available, lock, noDrop>>
    BY <1>2 DEF Execute, SetProxy
  <1>4. LifeOf(o)'
    BY <1>1, <1>2, <1>3 DEF LifeOf, InUse, Inv, TypeOK
  <1>5. lock' \in [End -> Obj \cup {NoObj}] /\ "executing" \in Proxy
    BY <1>3 DEF Inv, TypeOK, Proxy
  <1> QED
    BY <1>3, <1>4, <1>5, ProxyStep

LEMMA DisableInv ==
  ASSUME Inv, NEW e \in End, DisableGarbageCollection(e)
  PROVE  Inv'
  <1>1. /\ UNCHANGED <<stage, id, proxy, objects, available, lock>>
        /\ noDrop' = [noDrop EXCEPT ![e] = TRUE]
    BY DEF DisableGarbageCollection
  <1>2. TypeOK'
    BY <1>1 DEF Inv, TypeOK
  <1>3. LifeInv'
    <2> SUFFICES ASSUME NEW o \in Obj PROVE LifeOf(o)'
      BY DEF LifeInv
    <2>1. LifeOf(o)
      BY DEF Inv, LifeInv
    <2>2. noDrop[Importer(o)] => noDrop'[Importer(o)]
      BY <1>1, Ends DEF Inv, TypeOK
    <2> QED
      BY <1>1, <2>1, <2>2 DEF LifeOf
  <1>4. MapInv'
    BY <1>1 DEF Inv, MapInv
  <1>5. IdsConserved'
    BY <1>1, IdsKept DEF Between
  <1> QED
    BY <1>2, <1>3, <1>4, <1>5 DEF Inv

(* The end of an object's drop, which keeps its id for PushId.              *)
LEMMA StageStep ==
  ASSUME Inv, NEW o \in Obj, NEW s \in Stage, stage' = [stage EXCEPT ![o] = s],
         UNCHANGED <<id, proxy, objects, available, noDrop>>,
         lock' \in [End -> Obj \cup {NoObj}], LifeOf(o)',
         stage[o] # "registered",
         o \in Between(Home[o]) <=> o \in Between(Home[o])'
  PROVE  Inv'
  <1>0. stage \in [Obj -> Stage]
    BY DEF Inv, TypeOK
  <1>1. TypeOK'
    BY DEF Inv, TypeOK
  <1>2. LifeInv'
    BY <1>0 DEF Inv, LifeInv, LifeOf
  <1>3. MapInv'
    BY <1>0 DEF Inv, MapInv
  <1>4. \A e \in End : Between(e)' = Between(e)
    BY <1>0, Ends DEF Between
  <1>5. IdsConserved'
    BY <1>4, IdsKept
  <1> QED
    BY <1>1, <1>2, <1>3, <1>5 DEF Inv

LEMMA DieInv ==
  ASSUME Inv, NEW o \in Obj, Die(o) \/ TooManyServices(o)
  PROVE  Inv'
  <1>0. LifeOf(o) /\ stage \in [Obj -> Stage] /\ Home[o] \in End
    BY Ends DEF Inv, TypeOK, LifeInv
  <1>1. CASE Die(o)
    <2>1. PICK s \in Stage : /\ stage' = [stage EXCEPT ![o] = s]
                             /\ s = IF id[o] = NoId THEN "gone" ELSE "dead"
      BY <1>1 DEF Die, SetStage, Stage
    <2>2. /\ stage[o] = "dying" /\ stage'[o] = s
          /\ UNCHANGED <<id, proxy, objects, available, noDrop>>
      BY <1>0, <1>1, <2>1 DEF Die
    <2>3. lock' \in [End -> Obj \cup {NoObj}]
      BY <1>1 DEF Die, Inv, TypeOK
    <2>4. LifeOf(o)'
      BY <1>0, <2>1, <2>2, Ends DEF LifeOf
    <2>5. o \in Between(Home[o]) <=> o \in Between(Home[o])'
      BY <1>0, <2>1, <2>2 DEF Between
    <2> QED
      BY <2>1, <2>2, <2>3, <2>4, <2>5, StageStep
  <1>2. CASE TooManyServices(o)
    <2>1. /\ stage[o] = "local" /\ stage' = [stage EXCEPT ![o] = "dying"]
          /\ UNCHANGED <<id, proxy, objects, available, lock, noDrop>>
      BY <1>2 DEF TooManyServices, SetStage
    <2>2. stage'[o] = "dying" /\ "dying" \in Stage /\ lock' \in [End -> Obj \cup {NoObj}]
      BY <1>0, <2>1 DEF Stage, Inv, TypeOK
    <2>3. id[o] = NoId /\ proxy[o] = "none"
      BY <1>0, <2>1 DEF LifeOf
    <2>4. LifeOf(o)'
      BY <2>1, <2>2, <2>3 DEF LifeOf
    <2>5. o \in Between(Home[o]) <=> o \in Between(Home[o])'
      BY <2>1, <2>2, <2>3 DEF Between
    <2> QED
      BY <2>1, <2>2, <2>4, <2>5, StageStep
  <1> QED
    BY <1>1, <1>2
-------------------------------------------------------------------------------
(* Steps that move an id on.  The other end keeps what it has.              *)

LEMMA OtherIds ==
  ASSUME Inv, NEW o \in Obj, NEW f \in End, f # Home[o],
         objects'[f] = objects[f], available'[f] = available[f],
         \A q \in Obj \ {o} : stage'[q] = stage[q] /\ id'[q] = id[q]
  PROVE  IdsOf(f)'
  <1>1. Between(f)' = Between(f) /\ \A q \in Between(f) : q # o /\ id'[q] = id[q]
    BY DEF Between
  <1>2. IdsOf(f)
    BY DEF Inv, IdsConserved
  <1> QED
    BY <1>1, <1>2 DEF IdsOf

LEMMA PopIdInv ==
  ASSUME Inv, NEW o \in Obj, PopId(o)
  PROVE  Inv'
  <1>0. PICK e \in End : e = Home[o]
    BY Ends
  <1>1. PICK h : h = Head(available[e])
    OBVIOUS
  <1>2. /\ stage[o] = "local" /\ available[e] # <<>>
        /\ id' = [id EXCEPT ![o] = h]
        /\ available' = [available EXCEPT ![e] = Tail(available[e])]
        /\ stage' = [stage EXCEPT ![o] = "popped"]
        /\ UNCHANGED <<proxy, objects, lock, noDrop>>
    BY <1>0, <1>1 DEF PopId, SetStage
  <1>3. /\ stage \in [Obj -> Stage] /\ id \in [Obj -> Id \cup {NoId}]
        /\ available \in [End -> Seq(Id)] /\ LifeOf(o) /\ IdsOf(e)
    BY DEF Inv, TypeOK, LifeInv, IdsConserved
  <1>4. /\ Tail(available[e]) \in Seq(Id) /\ h \in Id /\ h \in Range(available[e])
        /\ Range(available[e]) = Range(Tail(available[e])) \cup {h}
    BY <1>1, <1>2, <1>3, TailMembers
  <1>5. IsInjective(Tail(available[e])) /\ h \notin Range(Tail(available[e]))
    BY <1>1, <1>2, <1>3, TailDistinct DEF IdsOf
  <1>6. /\ stage'[o] = "popped" /\ id'[o] = h /\ available'[e] = Tail(available[e])
        /\ \A q \in Obj \ {o} : stage'[q] = stage[q] /\ id'[q] = id[q]
        /\ \A f \in End \ {e} : available'[f] = available[f]
    BY <1>2, <1>3
  <1>7. TypeOK'
    <2>1. stage' \in [Obj -> Stage] /\ id' \in [Obj -> Id \cup {NoId}]
          /\ available' \in [End -> Seq(Id)]
      BY <1>2, <1>3, <1>4 DEF Stage
    <2> QED
      BY <1>2, <2>1 DEF Inv, TypeOK
  <1>8. LifeInv'
    <2>1. LifeOf(o)'
      BY <1>2, <1>3, <1>4, <1>6 DEF LifeOf
    <2>2. \A q \in Obj \ {o} : LifeOf(q)'
      BY <1>2, <1>6 DEF Inv, LifeInv, LifeOf
    <2> QED
      BY <2>1, <2>2 DEF LifeInv
  <1>9. MapInv'
    BY <1>2, <1>6 DEF Inv, MapInv
  <1>10. IdsOf(e)'
    <2>1. Between(e)' = Between(e) \cup {o} /\ o \notin Between(e)
      BY <1>0, <1>2, <1>3, <1>6 DEF Between
    <2>2. \A q \in Between(e) : q \in Obj \ {o}
      BY <2>1 DEF Between
    <2>3. \A q \in Between(e) : id[q] # h
      BY <1>3, <1>4 DEF IdsOf
    <2>4. objects[e][h] = NoObj
      BY <1>3, <1>4 DEF IdsOf
    <2>5. \A q \in Between(e) : id'[q] = id[q]
      BY <1>6, <2>2
    <2>6. IsInjective(available'[e])
      BY <1>5, <1>6
    <2>7. \A p, q \in Between(e)' : id'[p] = id'[q] => p = q
      BY <1>3, <1>6, <2>1, <2>3, <2>5 DEF IdsOf
    <2>8. ASSUME NEW i \in Id
          PROVE  /\ i \in Range(available'[e]) <=>
                      objects'[e][i] = NoObj /\ \A q \in Between(e)' : id'[q] # i
                 /\ objects'[e][i] # NoObj => \A q \in Between(e)' : id'[q] # i
      <3>1. i \in Range(available'[e]) <=> i \in Range(available[e]) /\ i # h
        BY <1>4, <1>5, <1>6
      <3>2. (\A q \in Between(e)' : id'[q] # i) <=>
              i # h /\ \A q \in Between(e) : id[q] # i
        BY <1>6, <2>1, <2>5
      <3>3. objects'[e][i] = objects[e][i]
        BY <1>2
      <3> QED
        BY <1>3, <2>4, <3>1, <3>2, <3>3 DEF IdsOf
    <2> QED
      BY <2>6, <2>7, <2>8 DEF IdsOf
  <1>11. \A f \in End \ {e} : IdsOf(f)'
    BY <1>0, <1>2, <1>6, OtherIds
  <1> QED
    BY <1>7, <1>8, <1>9, <1>10, <1>11 DEF Inv, IdsConserved

LEMMA RegisterInv ==
  ASSUME Inv, NEW o \in Obj, Register(o)
  PROVE  Inv'
  <1>0. PICK e \in End : e = Home[o]
    BY Ends
  <1>1. PICK h : h = id[o]
    OBVIOUS
  <1>2. /\ stage[o] = "popped"
        /\ objects' = [objects EXCEPT ![e][h] = o]
        /\ stage' = [stage EXCEPT ![o] = "registered"]
        /\ proxy' = [proxy EXCEPT ![o] = "transit"]
        /\ UNCHANGED <<id, available, lock, noDrop>>
    BY <1>0, <1>1 DEF Register, SetStage, SetProxy
  <1>3. /\ stage \in [Obj -> Stage] /\ proxy \in [Obj -> Proxy]
        /\ objects \in [End -> [Id -> Obj \cup {NoObj}]] /\ LifeOf(o) /\ IdsOf(e)
        /\ available \in [End -> Seq(Id)]
    BY DEF Inv, TypeOK, LifeInv, IdsConserved
  <1>4. h \in Id /\ o \in Between(e)
    BY <1>0, <1>1, <1>2, <1>3 DEF LifeOf, Between
  <1>5. objects[e][h] = NoObj /\ h \notin Range(available[e])
    BY <1>1, <1>3, <1>4 DEF IdsOf
  <1>6. /\ stage'[o] = "registered" /\ proxy'[o] = "transit"
        /\ objects'[e] = [objects[e] EXCEPT ![h] = o] /\ objects'[e][h] = o
        /\ \A i \in Id \ {h} : objects'[e][i] = objects[e][i]
        /\ \A f \in End \ {e} : objects'[f] = objects[f]
        /\ \A q \in Obj \ {o} : stage'[q] = stage[q] /\ proxy'[q] = proxy[q]
    BY <1>2, <1>3, <1>4
  <1>7. TypeOK'
    <2>1. stage' \in [Obj -> Stage] /\ proxy' \in [Obj -> Proxy]
      BY <1>2, <1>3 DEF Stage, Proxy
    <2>2. objects' \in [End -> [Id -> Obj \cup {NoObj}]]
      BY <1>2, <1>3, <1>4
    <2> QED
      BY <1>2, <2>1, <2>2 DEF Inv, TypeOK
  <1>8. LifeInv'
    <2>1. LifeOf(o)'
      BY <1>0, <1>1, <1>2, <1>4, <1>6 DEF LifeOf, InUse
    <2>2. ASSUME NEW q \in Obj \ {o} PROVE LifeOf(q)'
      <3>1. LifeOf(q)
        BY DEF Inv, LifeInv
      <3>2. stage[q] = "registered" => objects'[Home[q]][id[q]] = q
        <4> SUFFICES ASSUME stage[q] = "registered"
                     PROVE  objects'[Home[q]][id[q]] = q
          OBVIOUS
        <4>1. id[q] \in Id /\ objects[Home[q]][id[q]] = q /\ Home[q] \in End
          BY <3>1, Ends DEF LifeOf
        <4>2. q # NoObj
          BY Ends
        <4>3. ~ (Home[q] = e /\ id[q] = h)
          BY <1>5, <4>1, <4>2
        <4> QED
          BY <1>6, <4>1, <4>3
      <3> QED
        BY <1>2, <1>6, <3>1, <3>2 DEF LifeOf
    <2> QED
      BY <2>1, <2>2 DEF LifeInv
  <1>9. MapInv'
    <2> SUFFICES ASSUME NEW f \in End, NEW i \in Id, objects'[f][i] # NoObj
                 PROVE  /\ objects'[f][i] \in Obj /\ Home[objects'[f][i]] = f
                        /\ stage'[objects'[f][i]] = "registered" /\ id[objects'[f][i]] = i
      BY <1>2 DEF MapInv
    <2>1. CASE f = e /\ i = h
      BY <1>0, <1>1, <1>6, <2>1
    <2>2. CASE ~ (f = e /\ i = h)
      <3>1. objects'[f][i] = objects[f][i]
        BY <1>6, <2>2
      <3>2. /\ objects[f][i] \in Obj /\ Home[objects[f][i]] = f
            /\ stage[objects[f][i]] = "registered" /\ id[objects[f][i]] = i
        BY <3>1 DEF Inv, MapInv
      <3> QED
        BY <1>2, <1>6, <3>1, <3>2
    <2> QED
      BY <2>1, <2>2
  <1>10. IdsOf(e)'
    <2>1. Between(e)' = Between(e) \ {o}
      BY <1>0, <1>2, <1>3, <1>6 DEF Between
    <2>2. \A q \in Between(e) \ {o} : id[q] # h
      BY <1>1, <1>3, <1>4 DEF IdsOf
    <2>3. \A p, q \in Between(e)' : id'[p] = id'[q] => p = q
      BY <1>2, <1>3, <2>1 DEF IdsOf
    <2>4. ASSUME NEW i \in Id
          PROVE  /\ i \in Range(available'[e]) <=>
                      objects'[e][i] = NoObj /\ \A q \in Between(e)' : id'[q] # i
                 /\ objects'[e][i] # NoObj => \A q \in Between(e)' : id'[q] # i
      <3>1. CASE i = h
        BY <1>2, <1>5, <1>6, <2>1, <2>2, <3>1, Ends
      <3>2. CASE i # h
        <4>1. (\A q \in Between(e)' : id'[q] # i) <=> \A q \in Between(e) : id[q] # i
          BY <1>1, <1>2, <2>1, <3>2
        <4> QED
          BY <1>2, <1>3, <1>6, <3>2, <4>1 DEF IdsOf
      <3> QED
        BY <3>1, <3>2
    <2> QED
      BY <1>2, <1>3, <2>3, <2>4 DEF IdsOf
  <1>11. \A f \in End \ {e} : IdsOf(f)'
    BY <1>0, <1>2, <1>6, OtherIds
  <1> QED
    BY <1>7, <1>8, <1>9, <1>10, <1>11 DEF Inv, IdsConserved

LEMMA DeleteInv ==
  ASSUME Inv, NEW o \in Obj, Delete(o)
  PROVE  Inv'
  <1>0. PICK e \in End : e = Home[o]
    BY Ends
  <1>1. PICK h : h = id[o]
    OBVIOUS
  <1>2. /\ stage \in [Obj -> Stage] /\ proxy \in [Obj -> Proxy]
        /\ objects \in [End -> [Id -> Obj \cup {NoObj}]] /\ LifeOf(o) /\ IdsOf(e)
        /\ available \in [End -> Seq(Id)] /\ proxy[o] = "dropping"
    BY DEF Inv, TypeOK, LifeInv, IdsConserved, Delete
  <1>3. stage[o] = "registered" /\ h \in Id /\ objects[e][h] = o
    <2>1. stage[o] \in Stage
      BY <1>2
    <2> QED
      BY <1>0, <1>1, <1>2, <2>1 DEF LifeOf, Stage
  <1>4. /\ objects' = [objects EXCEPT ![e][h] = NoObj]
        /\ lock' = [lock EXCEPT ![e] = o]
        /\ stage' = [stage EXCEPT ![o] = "dying"]
        /\ proxy' = [proxy EXCEPT ![o] = "deleting"]
        /\ UNCHANGED <<id, available, noDrop>>
    BY <1>0, <1>1, <1>3 DEF Delete, SetStage, SetProxy
  <1>5. /\ stage'[o] = "dying" /\ proxy'[o] = "deleting"
        /\ objects'[e][h] = NoObj
        /\ \A i \in Id \ {h} : objects'[e][i] = objects[e][i]
        /\ \A f \in End \ {e} : objects'[f] = objects[f]
        /\ \A q \in Obj \ {o} : stage'[q] = stage[q] /\ proxy'[q] = proxy[q]
    BY <1>2, <1>3, <1>4
  <1>6. TypeOK'
    <2>1. stage' \in [Obj -> Stage] /\ proxy' \in [Obj -> Proxy]
      BY <1>2, <1>4 DEF Stage, Proxy
    <2>2. objects' \in [End -> [Id -> Obj \cup {NoObj}]]
      BY <1>2, <1>3, <1>4
    <2>3. lock' \in [End -> Obj \cup {NoObj}]
      BY <1>4 DEF Inv, TypeOK
    <2> QED
      BY <1>4, <2>1, <2>2, <2>3 DEF Inv, TypeOK
  <1>7. LifeInv'
    <2>1. LifeOf(o)'
      BY <1>1, <1>3, <1>4, <1>5 DEF LifeOf
    <2>2. ASSUME NEW q \in Obj \ {o} PROVE LifeOf(q)'
      <3>1. LifeOf(q)
        BY DEF Inv, LifeInv
      <3>2. stage[q] = "registered" => objects'[Home[q]][id[q]] = q
        <4> SUFFICES ASSUME stage[q] = "registered"
                     PROVE  objects'[Home[q]][id[q]] = q
          OBVIOUS
        <4>1. id[q] \in Id /\ objects[Home[q]][id[q]] = q /\ Home[q] \in End
          BY <3>1, Ends DEF LifeOf
        <4>2. ~ (Home[q] = e /\ id[q] = h)
          BY <1>3, <4>1
        <4> QED
          BY <1>5, <4>1, <4>2
      <3> QED
        BY <1>4, <1>5, <3>1, <3>2 DEF LifeOf
    <2> QED
      BY <2>1, <2>2 DEF LifeInv
  <1>8. MapInv'
    <2> SUFFICES ASSUME NEW f \in End, NEW i \in Id, objects'[f][i] # NoObj
                 PROVE  /\ objects'[f][i] \in Obj /\ Home[objects'[f][i]] = f
                        /\ stage'[objects'[f][i]] = "registered" /\ id[objects'[f][i]] = i
      BY <1>4 DEF MapInv
    <2>1. objects'[f][i] = objects[f][i] /\ ~ (f = e /\ i = h)
      BY <1>5
    <2>2. /\ objects[f][i] \in Obj /\ Home[objects[f][i]] = f
          /\ stage[objects[f][i]] = "registered" /\ id[objects[f][i]] = i
      BY <2>1 DEF Inv, MapInv
    <2>3. objects[f][i] # o
      BY <1>0, <1>1, <2>1, <2>2
    <2> QED
      BY <1>5, <2>1, <2>2, <2>3
  <1>9. IdsOf(e)'
    <2>1. Between(e)' = Between(e) \cup {o}
      BY <1>0, <1>1, <1>3, <1>4, <1>5, Ends DEF Between
    <2>2. \A q \in Between(e) : id[q] # h
      BY <1>2, <1>3, Ends DEF IdsOf
    <2>3. \A p, q \in Between(e)' : id'[p] = id'[q] => p = q
      BY <1>1, <1>2, <1>4, <2>1, <2>2 DEF IdsOf
    <2>4. ASSUME NEW i \in Id
          PROVE  /\ i \in Range(available'[e]) <=>
                      objects'[e][i] = NoObj /\ \A q \in Between(e)' : id'[q] # i
                 /\ objects'[e][i] # NoObj => \A q \in Between(e)' : id'[q] # i
      <3>1. CASE i = h
        <4>1. i \notin Range(available[e])
          BY <1>2, <1>3, <3>1, Ends DEF IdsOf
        <4> QED
          BY <1>1, <1>4, <1>5, <2>1, <3>1, <4>1
      <3>2. CASE i # h
        <4>1. (\A q \in Between(e)' : id'[q] # i) <=> \A q \in Between(e) : id[q] # i
          BY <1>1, <1>4, <2>1, <3>2
        <4> QED
          BY <1>2, <1>4, <1>5, <3>2, <4>1 DEF IdsOf
      <3> QED
        BY <3>1, <3>2
    <2> QED
      BY <1>2, <1>4, <2>3, <2>4 DEF IdsOf
  <1>10. \A f \in End \ {e} : IdsOf(f)'
    BY <1>0, <1>4, <1>5, OtherIds
  <1> QED
    BY <1>6, <1>7, <1>8, <1>9, <1>10 DEF Inv, IdsConserved

LEMMA PushIdInv ==
  ASSUME Inv, NEW o \in Obj, PushId(o)
  PROVE  Inv'
  <1>0. PICK e \in End : e = Home[o]
    BY Ends
  <1>1. PICK h : h = id[o]
    OBVIOUS
  <1>2. /\ stage[o] = "dead" /\ stage' = [stage EXCEPT ![o] = "gone"]
        /\ available' = [available EXCEPT ![e] = Append(available[e], h)]
        /\ UNCHANGED <<id, proxy, objects, lock, noDrop>>
    BY <1>0, <1>1 DEF PushId, SetStage
  <1>3. /\ stage \in [Obj -> Stage] /\ available \in [End -> Seq(Id)]
        /\ LifeOf(o) /\ IdsOf(e)
    BY DEF Inv, TypeOK, LifeInv, IdsConserved
  <1>4. h \in Id /\ o \in Between(e)
    BY <1>0, <1>1, <1>2, <1>3 DEF LifeOf, Between
  <1>5. objects[e][h] = NoObj /\ h \notin Range(available[e])
    BY <1>1, <1>3, <1>4 DEF IdsOf
  <1>6. /\ Append(available[e], h) \in Seq(Id)
        /\ Range(Append(available[e], h)) = Range(available[e]) \cup {h}
        /\ IsInjective(Append(available[e], h))
    BY <1>3, <1>4, <1>5, AppendMembers, AppendDistinct DEF IdsOf
  <1>7. /\ stage'[o] = "gone" /\ available'[e] = Append(available[e], h)
        /\ \A q \in Obj \ {o} : stage'[q] = stage[q]
        /\ \A f \in End \ {e} : available'[f] = available[f]
    BY <1>2, <1>3
  <1>8. TypeOK'
    <2>1. stage' \in [Obj -> Stage] /\ available' \in [End -> Seq(Id)]
      BY <1>2, <1>3, <1>6 DEF Stage
    <2> QED
      BY <1>2, <2>1 DEF Inv, TypeOK
  <1>9. LifeInv'
    <2>1. LifeOf(o)'
      BY <1>2, <1>3, <1>7 DEF LifeOf
    <2>2. \A q \in Obj \ {o} : LifeOf(q)'
      BY <1>2, <1>7 DEF Inv, LifeInv, LifeOf
    <2> QED
      BY <2>1, <2>2 DEF LifeInv
  <1>10. MapInv'
    BY <1>2, <1>7 DEF Inv, MapInv
  <1>11. IdsOf(e)'
    <2>1. Between(e)' = Between(e) \ {o}
      BY <1>0, <1>2, <1>3, <1>7 DEF Between
    <2>2. \A q \in Between(e) \ {o} : id[q] # h
      BY <1>1, <1>3, <1>4 DEF IdsOf
    <2>3. \A p, q \in Between(e)' : id'[p] = id'[q] => p = q
      BY <1>2, <1>3, <2>1 DEF IdsOf
    <2>4. ASSUME NEW i \in Id
          PROVE  /\ i \in Range(available'[e]) <=>
                      objects'[e][i] = NoObj /\ \A q \in Between(e)' : id'[q] # i
                 /\ objects'[e][i] # NoObj => \A q \in Between(e)' : id'[q] # i
      <3>1. CASE i = h
        BY <1>2, <1>5, <1>6, <1>7, <2>1, <2>2, <3>1
      <3>2. CASE i # h
        <4>1. (\A q \in Between(e)' : id'[q] # i) <=> \A q \in Between(e) : id[q] # i
          BY <1>1, <1>2, <2>1, <3>2
        <4>2. i \in Range(available'[e]) <=> i \in Range(available[e])
          BY <1>6, <1>7, <3>2
        <4> QED
          BY <1>2, <1>3, <3>2, <4>1, <4>2 DEF IdsOf
      <3> QED
        BY <3>1, <3>2
    <2> QED
      BY <1>6, <1>7, <2>3, <2>4 DEF IdsOf
  <1>12. \A f \in End \ {e} : IdsOf(f)'
    BY <1>0, <1>2, <1>7, OtherIds
  <1> QED
    BY <1>8, <1>9, <1>10, <1>11, <1>12 DEF Inv, IdsConserved
-------------------------------------------------------------------------------
LEMMA StutterInv == Inv /\ UNCHANGED vars => Inv'
  <1> SUFFICES ASSUME Inv, UNCHANGED vars PROVE Inv'
    OBVIOUS
  <1> USE DEF vars
  <1>1. TypeOK'
    BY DEF Inv, TypeOK
  <1>2. LifeInv'
    BY DEF Inv, LifeInv, LifeOf
  <1>3. MapInv'
    BY DEF Inv, MapInv
  <1>4. IdsConserved'
    BY IdsKept DEF Between
  <1> QED
    BY <1>1, <1>2, <1>3, <1>4 DEF Inv

LEMMA NextInv == Inv /\ [Next]_vars => Inv'
  BY PopIdInv, DieInv, RegisterInv, UseInv, ExecuteInv, DeleteInv, PushIdInv, DisableInv,
     StutterInv DEF Next

LEMMA Invariance == Spec => []Inv
  BY InitInv, NextInv, PTL DEF Spec

(* Every variable keeps its type: the maps and queues of ids hold ids of    *)
(* their range and objects that exist.                                      *)
THEOREM TypeCorrect == Spec => []TypeOK
  <1>1. Inv => TypeOK
    BY DEF Inv
  <1> QED
    BY <1>1, Invariance, PTL

(* A proxy leads to its own object for as long as it exists, however often  *)
(* its id was used before; and no object is removed before its proxy is     *)
(* dropped.  So forward_and_call and delete never fail to find their object.*)
THEOREM ProxiesAreOneToOne == Spec => []OneToOne
  <1>1. Inv => OneToOne
    <2> SUFFICES ASSUME Inv, NEW o \in Obj
                 PROVE  /\ proxy[o] \in InUse =>
                             stage[o] = "registered" /\ objects[Home[o]][id[o]] = o
                        /\ stage[o] = "registered" =>
                             \/ proxy[o] \in InUse
                             \/ proxy[o] = "dropped" /\ noDrop[Importer(o)]
      BY DEF OneToOne
    <2>1. LifeOf(o) /\ stage[o] \in Stage
      BY DEF Inv, LifeInv, TypeOK
    <2> QED
      BY <2>1 DEF LifeOf, Stage, InUse
  <1> QED
    BY <1>1, Invariance, PTL

(* No id of a registry is lost or given out twice, although it is taken     *)
(* before its object is inserted and given back after it is removed, under  *)
(* another lock.                                                            *)
THEOREM IdsAreConserved == Spec => []IdsConserved
  <1>1. Inv => IdsConserved
    BY DEF Inv
  <1> QED
    BY <1>1, Invariance, PTL
-------------------------------------------------------------------------------
(* The lock of a map is held by the object of its end whose removal is under *)
(* way, and by nobody else.                                                 *)
LockInv ==
  /\ \A e \in End : lock[e] # NoObj =>
       Home[lock[e]] = e /\ stage[lock[e]] = "dying" /\ id[lock[e]] # NoId
  /\ \A o \in Obj : stage[o] = "dying" /\ id[o] # NoId => lock[Home[o]] = o

BusyInv ==
  \A o \in Obj :
    proxy[o] \in {"calling", "executing"} /\ Owner[o] # NoObj =>
      proxy[Owner[o]] = "executing"

WholeInv == Inv /\ LockInv /\ BusyInv

(* What a proxy that exists says of its object.                             *)
LEMMA ProxyLife ==
  ASSUME Inv, NEW o \in Obj
  PROVE  /\ proxy[o] \in InUse =>
              stage[o] = "registered" /\ id[o] \in Id /\ objects[Home[o]][id[o]] = o
         /\ proxy[o] = "deleting" =>
              stage[o] \in {"dying", "dead", "gone"} /\ id[o] \in Id
         /\ stage[o] \in Stage /\ proxy[o] \in Proxy /\ Home[o] \in End
         /\ Owner[o] # NoObj => Owner[o] \in Obj
  <1>1. LifeOf(o) /\ stage[o] \in Stage /\ proxy[o] \in Proxy
    BY DEF Inv, LifeInv, TypeOK
  <1> QED
    BY <1>1, Ends, ObjAssumption DEF LifeOf, Stage, InUse

(* The steps that find an object by its id find the one that is meant.      *)
LEMMA FindsItsObject ==
  ASSUME Inv, NEW o \in Obj
  PROVE  /\ Execute(o) =>
              /\ proxy[o] = "calling" /\ lock[Home[o]] = NoObj
              /\ proxy' = [proxy EXCEPT ![o] = "executing"]
              /\ UNCHANGED <<stage, id, objects, available, lock, noDrop>>
         /\ Delete(o) =>
              /\ proxy[o] = "dropping" /\ lock[Home[o]] = NoObj
              /\ stage[o] = "registered" /\ id[o] # NoId
              /\ lock' = [lock EXCEPT ![Home[o]] = o]
              /\ stage' = [stage EXCEPT ![o] = "dying"]
              /\ proxy' = [proxy EXCEPT ![o] = "deleting"]
              /\ UNCHANGED <<id, available, noDrop>>
  <1>1. CASE Execute(o)
    <2>1. proxy[o] \in InUse
      BY <1>1 DEF Execute, InUse
    <2>2. objects[Home[o]][id[o]] = o
      BY <2>1, ProxyLife
    <2> QED
      BY <1>1, <2>2 DEF Execute, Delete, SetProxy
  <1>2. CASE Delete(o)
    <2>1. proxy[o] \in InUse
      BY <1>2 DEF Delete, InUse
    <2>2. objects[Home[o]][id[o]] = o /\ stage[o] = "registered" /\ id[o] # NoId
      BY <2>1, ProxyLife, Ends
    <2> QED
      BY <1>2, <2>2 DEF Execute, Delete, SetProxy, SetStage
  <1> QED
    BY <1>1, <1>2

LEMMA LockStep ==
  ASSUME WholeInv, [Next]_vars
  PROVE  LockInv'
  <1>0. /\ stage \in [Obj -> Stage] /\ lock \in [End -> Obj \cup {NoObj}]
        /\ Inv /\ LockInv
    BY DEF WholeInv, Inv, TypeOK
  <1>1. ASSUME NEW o \in Obj, Import(o) \/ Call(o) \/ Return(o) \/ DropProxy(o)
                              \/ Deleted(o) \/ Execute(o)
        PROVE  LockInv'
    <2>1. UNCHANGED <<stage, id, lock>>
      BY <1>1 DEF Import, Call, Return, DropProxy, Deleted, Execute
    <2> QED
      BY <1>0, <2>1 DEF LockInv
  <1>2. ASSUME NEW o \in Obj, PopId(o) \/ TooManyServices(o) \/ Register(o) \/ PushId(o)
        PROVE  LockInv'
    <2>1. /\ stage[o] # "dying" /\ UNCHANGED lock
          /\ \A q \in Obj \ {o} : stage'[q] = stage[q] /\ id'[q] = id[q]
      BY <1>0, <1>2
         DEF PopId, TooManyServices, Register, PushId, SetStage, Inv, TypeOK
    <2>2. stage'[o] = "dying" => id'[o] = NoId
      <3>1. stage[o] = "local" => id[o] = NoId
        BY <1>0 DEF Inv, LifeInv, LifeOf
      <3> QED
        BY <1>0, <1>2, <3>1 DEF PopId, TooManyServices, Register, PushId, SetStage
    <2> QED
      BY <1>0, <2>1, <2>2, Ends DEF LockInv
  <1>3. ASSUME NEW o \in Obj, Delete(o) PROVE LockInv'
    <2>1. /\ lock[Home[o]] = NoObj /\ Home[o] \in End /\ o # NoObj
          /\ lock' = [lock EXCEPT ![Home[o]] = o]
          /\ stage' = [stage EXCEPT ![o] = "dying"]
          /\ id[o] # NoId /\ UNCHANGED id
      BY <1>0, <1>3, FindsItsObject, Ends
    <2>2. ASSUME NEW e \in End, lock'[e] # NoObj
          PROVE  Home[lock'[e]] = e /\ stage'[lock'[e]] = "dying" /\ id[lock'[e]] # NoId
      <3>1. CASE e = Home[o]
        BY <1>0, <2>1, <3>1
      <3>2. CASE e # Home[o]
        <4>1. lock'[e] = lock[e] /\ lock[e] \in Obj
          BY <1>0, <2>1, <2>2, <3>2
        <4> QED
          BY <1>0, <2>1, <2>2, <4>1 DEF LockInv
      <3> QED
        BY <3>1, <3>2
    <2>3. ASSUME NEW q \in Obj, stage'[q] = "dying", id[q] # NoId
          PROVE  lock'[Home[q]] = q
      <3>1. CASE q = o
        BY <1>0, <2>1, <3>1
      <3>2. CASE q # o
        <4>1. lock[Home[q]] = q /\ Home[q] \in End /\ q # NoObj
          BY <1>0, <2>1, <2>3, <3>2, Ends DEF LockInv
        <4> QED
          BY <1>0, <2>1, <4>1
      <3> QED
        BY <3>1, <3>2
    <2> QED
      BY <2>1, <2>2, <2>3 DEF LockInv
  <1>4. ASSUME NEW o \in Obj, Die(o) PROVE LockInv'
    <2>1. PICK s \in {"gone", "dead"} : stage' = [stage EXCEPT ![o] = s]
      BY <1>4 DEF Die, SetStage
    <2>2. /\ UNCHANGED id
          /\ lock' = [e \in End |-> IF lock[e] = o THEN NoObj ELSE lock[e]]
      BY <1>4 DEF Die
    <2> QED
      BY <1>0, <2>1, <2>2, Ends DEF LockInv
  <1>5. ASSUME NEW e \in End, DisableGarbageCollection(e) PROVE LockInv'
    BY <1>0, <1>5 DEF DisableGarbageCollection, LockInv
  <1>6. CASE UNCHANGED vars
    BY <1>0, <1>6 DEF vars, LockInv
  <1> QED
    BY <1>1, <1>2, <1>3, <1>4, <1>5, <1>6 DEF Next

LEMMA BusyStep ==
  ASSUME WholeInv, [Next]_vars
  PROVE  BusyInv'
  <1>0. /\ proxy \in [Obj -> Proxy] /\ Inv /\ BusyInv
        /\ \A o \in Obj : Owner[o] # NoObj => Owner[o] \in Obj
    BY ProxyLife DEF WholeInv, Inv, TypeOK
  <1>1. ASSUME NEW o \in Obj, PopId(o) \/ TooManyServices(o) \/ Die(o) \/ PushId(o)
        PROVE  BusyInv'
    <2>1. UNCHANGED proxy
      BY <1>1 DEF PopId, TooManyServices, Die, PushId
    <2> QED
      BY <1>0, <2>1 DEF BusyInv
  (* A proxy that begins or ends to exist, or is called, is not executing a *)
  (* method that a call waits for.                                          *)
  <1>2. ASSUME NEW o \in Obj, NEW x \in Proxy \ {"calling", "executing"},
               proxy[o] # "executing", proxy' = [proxy EXCEPT ![o] = x]
        PROVE  BusyInv'
    BY <1>0, <1>2 DEF BusyInv
  <1>3. ASSUME NEW o \in Obj, Register(o) \/ Import(o) \/ DropProxy(o) \/ Delete(o)
                              \/ Deleted(o)
        PROVE  BusyInv'
    <2>1. stage[o] = "popped" => proxy[o] = "none"
      BY <1>0 DEF Inv, LifeInv, LifeOf
    <2>2. proxy[o] # "executing"
      BY <1>3, <2>1 DEF Register, Import, DropProxy, Delete, Deleted
    <2>3. \E x \in Proxy \ {"calling", "executing"} : proxy' = [proxy EXCEPT ![o] = x]
      <3>1. CASE Register(o) \/ Import(o) \/ DropProxy(o) \/ Deleted(o)
        BY <3>1 DEF Register, Import, DropProxy, Deleted, SetProxy, Proxy
      <3>2. CASE Delete(o)
        BY <1>0, <3>2, FindsItsObject DEF Proxy
      <3> QED
        BY <1>3, <3>1, <3>2
    <2> QED
      BY <1>2, <2>2, <2>3
  <1>4. ASSUME NEW o \in Obj, Call(o) PROVE BusyInv'
    <2>1. /\ proxy[o] = "held" /\ proxy' = [proxy EXCEPT ![o] = "calling"]
          /\ Owner[o] # NoObj => proxy[Owner[o]] = "executing"
      BY <1>4 DEF Call, SetProxy
    <2> QED
      BY <1>0, <2>1 DEF BusyInv
  <1>5. ASSUME NEW o \in Obj, Execute(o) PROVE BusyInv'
    <2>1. proxy[o] = "calling" /\ proxy' = [proxy EXCEPT ![o] = "executing"]
      BY <1>0, <1>5, FindsItsObject
    <2> QED
      BY <1>0, <2>1 DEF BusyInv
  <1>6. ASSUME NEW o \in Obj, Return(o) PROVE BusyInv'
    <2>1. /\ proxy' = [proxy EXCEPT ![o] = "held"]
          /\ \A q \in Obj : Owner[q] = o => proxy[q] \notin {"calling", "executing"}
      BY <1>6 DEF Return, SetProxy, Owned
    <2> QED
      BY <1>0, <2>1 DEF BusyInv
  <1>7. ASSUME NEW e \in End, DisableGarbageCollection(e) PROVE BusyInv'
    BY <1>0, <1>7 DEF DisableGarbageCollection, BusyInv
  <1>8. CASE UNCHANGED vars
    BY <1>0, <1>8 DEF vars, BusyInv
  <1> QED
    BY <1>1, <1>3, <1>4, <1>5, <1>6, <1>7, <1>8 DEF Next

LEMMA WholeInvariance == Spec => []WholeInv
  <1>1. Init => WholeInv
    BY InitInv, Ends DEF Init, WholeInv, LockInv, BusyInv
  <1>2. WholeInv /\ [Next]_vars => WholeInv'
    BY NextInv, LockStep, BusyStep DEF WholeInv
  <1> QED
    BY <1>1, <1>2, PTL DEF Spec

(* An object is never removed while a call through a proxy that it owns is  *)
(* under way: its method is executing, so its own proxy is in use.          *)
THEOREM OwnersAreCalled == Spec => []OwnersStay
  <1>1. WholeInv => OwnersStay
    BY ProxyLife DEF WholeInv, BusyInv, OwnersStay, InUse
  <1> QED
    BY <1>1, WholeInvariance, PTL

(* The objects that own proxies all live at one end.                        *)
OneSided == \E e \in End : \A o \in Obj : Owner[o] # NoObj => Home[Owner[o]] = e

(* An object that holds the lock of its map, and whose proxies are nobody's *)
(* concern any more, can be dropped to its end.                             *)
LEMMA ChildlessDies ==
  ASSUME WholeInv, NEW o \in Obj, stage[o] = "dying", Owned(o) = {}
  PROVE  RemovalMoves
  BY DEF RemovalMoves

(* One proxy whose drop is under way gets on, if its own object owns no     *)
(* proxies, nor does any other of the same end.                             *)
LEMMA DropMoves ==
  ASSUME WholeInv, NEW o \in Obj, proxy[o] \in {"dropping", "deleting"},
         \A q \in Obj : Home[q] = Home[o] => Owned(q) = {}
  PROVE  RemovalMoves
  <1>0. Inv /\ LockInv /\ lock \in [End -> Obj \cup {NoObj}]
    BY DEF WholeInv, Inv, TypeOK
  <1>1. CASE proxy[o] = "dropping"
    <2>1. Home[o] \in End /\ objects[Home[o]][id[o]] = o /\ o # NoObj
      BY <1>0, <1>1, ProxyLife, Ends DEF InUse
    <2>2. CASE lock[Home[o]] = NoObj
      BY <1>1, <2>1, <2>2 DEF RemovalMoves
    <2>3. CASE lock[Home[o]] # NoObj
      <3>1. PICK w \in Obj : w = lock[Home[o]]
        BY <1>0, <2>1, <2>3
      <3>2. stage[w] = "dying" /\ Home[w] = Home[o]
        BY <1>0, <2>1, <2>3, <3>1 DEF LockInv
      <3> QED
        BY <3>2, ChildlessDies
    <2> QED
      BY <2>2, <2>3
  <1>2. CASE proxy[o] = "deleting"
    <2>1. stage[o] \in {"dying", "dead", "gone"}
      BY <1>0, <1>2, ProxyLife
    <2>2. CASE stage[o] = "dying"
      BY <2>2, ChildlessDies
    <2>3. CASE stage[o] \in {"dead", "gone"}
      BY <1>2, <2>3 DEF RemovalMoves
    <2> QED
      BY <2>1, <2>2, <2>3
  <1> QED
    BY <1>1, <1>2

(* An object being dropped gets on, if no object of the other end owns a    *)
(* proxy.                                                                   *)
LEMMA DyingMoves ==
  ASSUME WholeInv, NEW w \in Obj, stage[w] = "dying", id[w] # NoId,
         \A q \in Obj : Home[q] # Home[w] => Owned(q) = {}
  PROVE  RemovalMoves
  <1>0. Inv /\ BusyInv /\ LifeOf(w)
    BY DEF WholeInv, Inv, LifeInv
  <1>1. proxy[w] = "deleting" /\ w # NoObj
    BY <1>0, Ends DEF LifeOf
  <1>2. CASE \A q \in Owned(w) : proxy[q] \in {"none", "transit", "dropped"}
    BY <1>2 DEF RemovalMoves
  <1>3. CASE \E q \in Owned(w) : proxy[q] \notin {"none", "transit", "dropped"}
    <2>1. PICK q \in Obj : /\ Owner[q] = w
                           /\ proxy[q] \notin {"none", "transit", "dropped"}
      BY <1>3 DEF Owned
    <2>2. \A r \in Obj : Owner[r] = w => Home[r] # Home[w]
      BY <1>1, ObjAssumption DEF Importer, Other, End
    <2>3. \A r \in Obj : Owner[r] = w /\ proxy[r] \in {"dropping", "deleting"}
                          => RemovalMoves
      <3> SUFFICES ASSUME NEW r \in Obj, Owner[r] = w,
                          proxy[r] \in {"dropping", "deleting"}
                   PROVE  RemovalMoves
        OBVIOUS
      <3>1. \A p \in Obj : Home[p] = Home[r] => Owned(p) = {}
        BY <2>2
      <3> QED
        BY <3>1, DropMoves
    <2>4. proxy[q] \notin {"calling", "executing"}
      BY <1>0, <1>1, <2>1 DEF BusyInv
    <2>5. proxy[q] \in {"held", "dropping", "deleting"}
      BY <1>0, <2>1, <2>4, ProxyLife DEF Proxy
    <2>6. CASE \E r \in Obj : Owner[r] = w /\ proxy[r] \in {"dropping", "deleting"}
      BY <2>3, <2>6
    <2>7. CASE \A r \in Obj : Owner[r] = w => proxy[r] \notin {"dropping", "deleting"}
      <3>1. proxy[q] = "held" /\ MayDrop(q)
        BY <2>1, <2>5, <2>7 DEF MayDrop
      <3> QED
        BY <1>1, <2>1, <3>1 DEF RemovalMoves
    <2> QED
      BY <2>6, <2>7
  <1> QED
    BY <1>2, <1>3

(* The registries drop objects, and wait for the delete requests of their   *)
(* proxies, under their locks.  As long as objects of one end only own      *)
(* proxies this cannot block: whenever a lock is held or a drop is under    *)
(* way, some step of a removal can be taken.                                *)
THEOREM RemovalsAlwaysMove ==
  ASSUME OneSided
  PROVE  Spec => []RemovalsMove
  <1>1. WholeInv => RemovalsMove
    <2> SUFFICES ASSUME WholeInv,
                        \/ \E e \in End : lock[e] # NoObj
                        \/ \E o \in Obj : proxy[o] \in {"dropping", "deleting"}
                 PROVE  RemovalMoves
      BY DEF RemovalsMove
    <2>0. Inv /\ LockInv /\ lock \in [End -> Obj \cup {NoObj}]
      BY DEF WholeInv, Inv, TypeOK
    <2>1. PICK e \in End : \A o \in Obj : Home[o] # e => Owned(o) = {}
      BY ObjAssumption DEF OneSided, Owned
    <2>2. ASSUME NEW w \in Obj, stage[w] = "dying", id[w] # NoId PROVE RemovalMoves
      <3>1. CASE Home[w] = e
        BY <2>1, <2>2, <3>1, DyingMoves
      <3>2. CASE Home[w] # e
        BY <2>1, <2>2, <3>2, ChildlessDies
      <3> QED
        BY <3>1, <3>2
    <2>3. ASSUME NEW f \in End, lock[f] # NoObj PROVE RemovalMoves
      <3>1. PICK w \in Obj : w = lock[f]
        BY <2>0, <2>3
      <3>2. stage[w] = "dying" /\ id[w] # NoId
        BY <2>0, <2>3, <3>1 DEF LockInv
      <3> QED
        BY <2>2, <3>2
    <2>4. ASSUME NEW o \in Obj, proxy[o] \in {"dropping", "deleting"}
          PROVE  RemovalMoves
      <3>1. CASE proxy[o] = "dropping" /\ lock[Home[o]] = NoObj
        <4>1. objects[Home[o]][id[o]] = o /\ o # NoObj
          BY <2>0, <3>1, ProxyLife, Ends DEF InUse
        <4> QED
          BY <3>1, <4>1 DEF RemovalMoves
      <3>2. CASE lock[Home[o]] # NoObj
        BY <2>0, <2>3, <3>2, ProxyLife
      <3>3. CASE proxy[o] = "deleting"
        <4>1. stage[o] \in {"dying", "dead", "gone"} /\ id[o] # NoId
          BY <2>0, <3>3, ProxyLife, Ends
        <4> QED
          BY <2>2, <3>3, <4>1 DEF RemovalMoves
      <3> QED
        BY <2>4, <3>1, <3>2, <3>3
    <2> QED
      BY <2>3, <2>4
  <1> QED
    BY <1>1, WholeInvariance, PTL
-------------------------------------------------------------------------------
(* The refinement.  A step of the registry changes the state of one object  *)
(* or of one proxy as RemoteObject sees it, of both, or of neither.         *)

Objects == [o \in Obj |-> ObjectState(o)]
Proxies == [o \in Obj |-> ProxyState(o)]

Step == Promise!Next \/ UNCHANGED Promise!vars

LEMMA Same ==
  ASSUME NEW o \in Obj
  PROVE  /\ stage'[o] = stage[o] => ObjectState(o)' = ObjectState(o)
         /\ proxy'[o] = proxy[o] => ProxyState(o)' = ProxyState(o)
  BY DEF ObjectState, ProxyState

LEMMA ObjectChanges ==
  ASSUME NEW o \in Obj, NEW s \in Stage, NEW t,
         stage \in [Obj -> Stage], stage' = [stage EXCEPT ![o] = s],
         t = CASE s \in {"local", "popped"} -> "private"
               [] s = "registered" -> "exported"
               [] s \in {"dying", "dead", "gone"} -> "dropped"
  PROVE  Objects' = [Objects EXCEPT ![o] = t]
  <1>1. ObjectState(o)' = t
    BY DEF ObjectState
  <1>2. \A q \in Obj \ {o} : ObjectState(q)' = ObjectState(q)
    BY Same
  <1> QED
    BY <1>1, <1>2 DEF Objects

LEMMA ProxyChanges ==
  ASSUME NEW o \in Obj, NEW x \in Proxy, NEW y,
         proxy \in [Obj -> Proxy], proxy' = [proxy EXCEPT ![o] = x],
         y = CASE x \in {"transit", "held"} -> "usable"
               [] x = "deleting" -> "dropping"
               [] OTHER -> x
  PROVE  Proxies' = [Proxies EXCEPT ![o] = y]
  <1>1. ProxyState(o)' = y
    BY DEF ProxyState
  <1>2. \A q \in Obj \ {o} : ProxyState(q)' = ProxyState(q)
    BY Same
  <1> QED
    BY <1>1, <1>2 DEF Proxies

LEMMA Unchanged ==
  /\ UNCHANGED stage => Objects' = Objects
  /\ UNCHANGED proxy => Proxies' = Proxies
  BY Same DEF Objects, Proxies

LEMMA States ==
  ASSUME Inv, NEW o \in Obj
  PROVE  /\ Objects[o] = "private" <=> stage[o] \in {"local", "popped"}
         /\ Objects[o] = "exported" <=> stage[o] = "registered"
         /\ Objects[o] = "dropped" <=> stage[o] \in {"dying", "dead", "gone"}
         /\ Proxies[o] = "none" <=> proxy[o] = "none"
         /\ Proxies[o] = "usable" <=> proxy[o] \in {"transit", "held"}
         /\ Proxies[o] = "calling" <=> proxy[o] = "calling"
         /\ Proxies[o] = "executing" <=> proxy[o] = "executing"
         /\ Proxies[o] = "dropping" <=> proxy[o] \in {"dropping", "deleting"}
  <1>1. stage[o] \in Stage /\ proxy[o] \in Proxy
    BY DEF Inv, TypeOK
  <1> QED
    BY <1>1 DEF Objects, Proxies, ObjectState, ProxyState, Stage, Proxy

(* The steps of RemoteObject in terms of Objects and Proxies.               *)
LEMMA Steps ==
  ASSUME NEW o \in Obj
  PROVE  /\ /\ Objects[o] = "private"
            /\ Objects' = [Objects EXCEPT ![o] = "exported"]
            /\ Proxies' = [Proxies EXCEPT ![o] = "usable"] /\ UNCHANGED noDrop
            => Step
         /\ /\ Objects[o] = "private"
            /\ Objects' = [Objects EXCEPT ![o] = "dropped"]
            /\ Proxies' = Proxies /\ UNCHANGED noDrop
            => Step
         /\ /\ Proxies[o] = "usable"
            /\ Owner[o] # NoObj => Proxies[Owner[o]] = "executing"
            /\ Proxies' = [Proxies EXCEPT ![o] = "calling"]
            /\ Objects' = Objects /\ UNCHANGED noDrop
            => Step
         /\ /\ Proxies[o] = "calling" /\ Objects[o] = "exported"
            /\ Proxies' = [Proxies EXCEPT ![o] = "executing"]
            /\ Objects' = Objects /\ UNCHANGED noDrop
            => Step
         /\ /\ Proxies[o] = "executing"
            /\ \A q \in Obj : Owner[q] = o => Proxies[q] \notin {"calling", "executing"}
            /\ Proxies' = [Proxies EXCEPT ![o] = "usable"]
            /\ Objects' = Objects /\ UNCHANGED noDrop
            => Step
         /\ /\ Proxies[o] = "usable"
            /\ Owner[o] # NoObj => Objects[Owner[o]] = "dropped"
            /\ Proxies' = [Proxies EXCEPT ![o] =
                             IF noDrop[3 - Home[o]] THEN "dropped" ELSE "dropping"]
            /\ Objects' = Objects /\ UNCHANGED noDrop
            => Step
         /\ /\ Proxies[o] = "dropping" /\ Objects[o] = "exported"
            /\ Objects' = [Objects EXCEPT ![o] = "dropped"]
            /\ Proxies' = Proxies /\ UNCHANGED noDrop
            => Step
         /\ /\ Proxies[o] = "dropping" /\ Objects[o] = "dropped"
            /\ Proxies' = [Proxies EXCEPT ![o] = "dropped"]
            /\ Objects' = Objects /\ UNCHANGED noDrop
            => Step
  <1> USE DEF Objects, Proxies, Promise!BecomeObject, Promise!BecomeProxy
  <1>1. Promise!Export(o) \/ Promise!Abandon(o) \/ Promise!Call(o)
        \/ Promise!Execute(o) \/ Promise!Return(o) \/ Promise!DropProxy(o)
        \/ Promise!Delete(o) \/ Promise!Deleted(o) => Step
    BY DEF Step, Promise!Next
  <1>2. /\ Objects[o] = "private"
        /\ Objects' = [Objects EXCEPT ![o] = "exported"]
        /\ Proxies' = [Proxies EXCEPT ![o] = "usable"] /\ UNCHANGED noDrop
        => Promise!Export(o)
    BY DEF Promise!Export
  <1>3. /\ Objects[o] = "private"
        /\ Objects' = [Objects EXCEPT ![o] = "dropped"]
        /\ Proxies' = Proxies /\ UNCHANGED noDrop
        => Promise!Abandon(o)
    BY DEF Promise!Abandon
  <1>4. /\ Proxies[o] = "usable"
        /\ Owner[o] # NoObj => Proxies[Owner[o]] = "executing"
        /\ Proxies' = [Proxies EXCEPT ![o] = "calling"]
        /\ Objects' = Objects /\ UNCHANGED noDrop
        => Promise!Call(o)
    BY DEF Promise!Call
  <1>5. /\ Proxies[o] = "calling" /\ Objects[o] = "exported"
        /\ Proxies' = [Proxies EXCEPT ![o] = "executing"]
        /\ Objects' = Objects /\ UNCHANGED noDrop
        => Promise!Execute(o)
    BY DEF Promise!Execute
  <1>6. /\ Proxies[o] = "executing"
        /\ \A q \in Obj : Owner[q] = o => Proxies[q] \notin {"calling", "executing"}
        /\ Proxies' = [Proxies EXCEPT ![o] = "usable"]
        /\ Objects' = Objects /\ UNCHANGED noDrop
        => Promise!Return(o)
    BY DEF Promise!Return
  <1>7. /\ Proxies[o] = "usable"
        /\ Owner[o] # NoObj => Objects[Owner[o]] = "dropped"
        /\ Proxies' = [Proxies EXCEPT ![o] =
                         IF noDrop[3 - Home[o]] THEN "dropped" ELSE "dropping"]
        /\ Objects' = Objects /\ UNCHANGED noDrop
        => Promise!DropProxy(o)
    BY DEF Promise!DropProxy
  <1>8. /\ Proxies[o] = "dropping" /\ Objects[o] = "exported"
        /\ Objects' = [Objects EXCEPT ![o] = "dropped"]
        /\ Proxies' = Proxies /\ UNCHANGED noDrop
        => Promise!Delete(o)
    BY DEF Promise!Delete
  <1>9. /\ Proxies[o] = "dropping" /\ Objects[o] = "dropped"
        /\ Proxies' = [Proxies EXCEPT ![o] = "dropped"]
        /\ Objects' = Objects /\ UNCHANGED noDrop
        => Promise!Deleted(o)
    BY DEF Promise!Deleted
  <1> HIDE DEF Objects, Proxies
  <1> QED
    BY <1>1, <1>2, <1>3, <1>4, <1>5, <1>6, <1>7, <1>8, <1>9

LEMMA Stutters ==
  Objects' = Objects /\ Proxies' = Proxies /\ UNCHANGED noDrop => Step
  BY DEF Step, Promise!vars, Objects, Proxies

LEMMA NextIsStep ==
  ASSUME Inv, [Next]_vars
  PROVE  Step
  <1>0. /\ stage \in [Obj -> Stage] /\ proxy \in [Obj -> Proxy]
        /\ \A o \in Obj : Owner[o] # NoObj => Owner[o] \in Obj
    BY ProxyLife DEF Inv, TypeOK
  <1> USE DEF SetStage, SetProxy
  <1>1. ASSUME NEW o \in Obj, PopId(o) PROVE Step
    <2>1. stage' = [stage EXCEPT ![o] = "popped"] /\ UNCHANGED <<proxy, noDrop>>
          /\ stage[o] = "local"
      BY <1>1 DEF PopId
    <2>2. \A q \in Obj : ObjectState(q)' = ObjectState(q)
      BY <1>0, <2>1 DEF ObjectState
    <2>3. Objects' = Objects
      BY <2>2 DEF Objects
    <2> QED
      BY <2>1, <2>3, Unchanged, Stutters
  <1>2. ASSUME NEW o \in Obj, TooManyServices(o) PROVE Step
    <2>1. stage[o] = "local" /\ stage' = [stage EXCEPT ![o] = "dying"]
          /\ UNCHANGED <<proxy, noDrop>> /\ "dying" \in Stage
      BY <1>2 DEF TooManyServices, Stage
    <2>2. Objects' = [Objects EXCEPT ![o] = "dropped"]
      BY <1>0, <2>1, ObjectChanges
    <2>3. Objects[o] = "private"
      BY <2>1, States
    <2> QED
      BY <2>1, <2>2, <2>3, Unchanged, Steps
  <1>3. ASSUME NEW o \in Obj, Register(o) PROVE Step
    <2>1. stage[o] = "popped" /\ stage' = [stage EXCEPT ![o] = "registered"]
          /\ proxy' = [proxy EXCEPT ![o] = "transit"] /\ UNCHANGED noDrop
          /\ "registered" \in Stage /\ "transit" \in Proxy
      BY <1>3 DEF Register, Stage, Proxy
    <2>2. Objects' = [Objects EXCEPT ![o] = "exported"] /\ Objects[o] = "private"
      BY <1>0, <2>1, ObjectChanges, States
    <2>3. Proxies' = [Proxies EXCEPT ![o] = "usable"]
      BY <1>0, <2>1, ProxyChanges
    <2> QED
      BY <2>1, <2>2, <2>3, Steps
  <1>4. ASSUME NEW o \in Obj, Import(o) PROVE Step
    <2>1. proxy[o] = "transit" /\ proxy' = [proxy EXCEPT ![o] = "held"]
          /\ UNCHANGED <<stage, noDrop>>
      BY <1>4 DEF Import
    <2>2. \A q \in Obj : ProxyState(q)' = ProxyState(q)
      BY <1>0, <2>1 DEF ProxyState
    <2>3. Proxies' = Proxies
      BY <2>2 DEF Proxies
    <2> QED
      BY <2>1, <2>3, Unchanged, Stutters
  <1>5. ASSUME NEW o \in Obj, Call(o) PROVE Step
    <2>1. /\ proxy[o] = "held" /\ proxy' = [proxy EXCEPT ![o] = "calling"]
          /\ UNCHANGED <<stage, noDrop>> /\ "calling" \in Proxy
          /\ Owner[o] # NoObj => proxy[Owner[o]] = "executing"
      BY <1>5 DEF Call, Proxy
    <2>2. Proxies' = [Proxies EXCEPT ![o] = "calling"] /\ Proxies[o] = "usable"
      <3>1. Proxies' = [Proxies EXCEPT ![o] = "calling"]
        BY <1>0, <2>1, ProxyChanges
      <3>2. Proxies[o] = "usable"
        BY <2>1, States
      <3> QED
        BY <3>1, <3>2
    <2>3. Owner[o] # NoObj => Proxies[Owner[o]] = "executing"
      BY <1>0, <2>1, States
    <2> QED
      BY <2>1, <2>2, <2>3, Unchanged, Steps
  <1>6. ASSUME NEW o \in Obj, Execute(o) PROVE Step
    <2>1. proxy[o] = "calling" /\ proxy' = [proxy EXCEPT ![o] = "executing"]
          /\ UNCHANGED <<stage, noDrop>> /\ "executing" \in Proxy
      BY <1>6, FindsItsObject DEF Proxy
    <2>2. Proxies' = [Proxies EXCEPT ![o] = "executing"] /\ Proxies[o] = "calling"
      BY <1>0, <2>1, ProxyChanges, States
    <2>3. Objects[o] = "exported"
      BY <2>1, ProxyLife, States DEF InUse
    <2> QED
      BY <2>1, <2>2, <2>3, Unchanged, Steps
  <1>7. ASSUME NEW o \in Obj, Return(o) PROVE Step
    <2>1. proxy[o] = "executing" /\ proxy' = [proxy EXCEPT ![o] = "held"]
          /\ UNCHANGED <<stage, noDrop>> /\ "held" \in Proxy
          /\ \A q \in Obj : Owner[q] = o => proxy[q] \notin {"calling", "executing"}
      BY <1>7 DEF Return, Proxy, Owned
    <2>2. Proxies' = [Proxies EXCEPT ![o] = "usable"] /\ Proxies[o] = "executing"
      BY <1>0, <2>1, ProxyChanges, States
    <2>3. \A q \in Obj : Owner[q] = o => Proxies[q] \notin {"calling", "executing"}
      BY <2>1, States
    <2> QED
      BY <2>1, <2>2, <2>3, Unchanged, Steps
  <1>8. ASSUME NEW o \in Obj, DropProxy(o) PROVE Step
    <2> DEFINE x == IF noDrop[3 - Home[o]] THEN "dropped" ELSE "dropping"
    <2>1. /\ proxy[o] = "held" /\ proxy' = [proxy EXCEPT ![o] = x]
          /\ UNCHANGED <<stage, noDrop>> /\ x \in Proxy
          /\ Owner[o] # NoObj => stage[Owner[o]] \in {"dying", "dead", "gone"}
      BY <1>8 DEF DropProxy, Proxy, MayDrop, Importer, Other
    <2>2. Proxies' = [Proxies EXCEPT ![o] = x] /\ Proxies[o] = "usable"
      <3>1. Proxies' = [Proxies EXCEPT ![o] = x]
        BY <1>0, <2>1, ProxyChanges
      <3>2. Proxies[o] = "usable"
        BY <2>1, States
      <3> QED
        BY <3>1, <3>2
    <2>3. Owner[o] # NoObj => Objects[Owner[o]] = "dropped"
      BY <1>0, <2>1, States
    <2> QED
      BY <2>1, <2>2, <2>3, Unchanged, Steps
  <1>9. ASSUME NEW o \in Obj, Delete(o) PROVE Step
    <2>1. /\ proxy[o] = "dropping" /\ stage[o] = "registered"
          /\ stage' = [stage EXCEPT ![o] = "dying"]
          /\ proxy' = [proxy EXCEPT ![o] = "deleting"]
          /\ UNCHANGED noDrop /\ "dying" \in Stage
      BY <1>9, FindsItsObject DEF Stage
    <2>2. Objects' = [Objects EXCEPT ![o] = "dropped"]
      BY <1>0, <2>1, ObjectChanges
    <2>3. Objects[o] = "exported"
      BY <2>1, States
    <2>4. \A q \in Obj : ProxyState(q)' = ProxyState(q)
      BY <1>0, <2>1 DEF ProxyState
    <2>5. Proxies' = Proxies /\ Proxies[o] = "dropping"
      BY <2>1, <2>4, States DEF Proxies
    <2> QED
      BY <2>1, <2>2, <2>3, <2>5, Steps
  <1>10. ASSUME NEW o \in Obj, Die(o) \/ PushId(o) PROVE Step
    <2>1. /\ stage[o] \in {"dying", "dead"} /\ UNCHANGED <<proxy, noDrop>>
          /\ \E s \in {"dead", "gone"} : stage' = [stage EXCEPT ![o] = s]
      BY <1>10 DEF Die, PushId
    <2>2. \A q \in Obj : ObjectState(q)' = ObjectState(q)
      BY <1>0, <2>1 DEF ObjectState
    <2>3. Objects' = Objects
      BY <2>2 DEF Objects
    <2> QED
      BY <2>1, <2>3, Unchanged, Stutters
  <1>11. ASSUME NEW o \in Obj, Deleted(o) PROVE Step
    <2>1. proxy[o] = "deleting" /\ proxy' = [proxy EXCEPT ![o] = "dropped"]
          /\ UNCHANGED <<stage, noDrop>> /\ "dropped" \in Proxy /\ stage[o] = "gone"
      BY <1>11 DEF Deleted, Proxy
    <2>2. Proxies' = [Proxies EXCEPT ![o] = "dropped"]
      BY <1>0, <2>1, ProxyChanges
    <2>3. Proxies[o] = "dropping" /\ Objects[o] = "dropped"
      BY <2>1, States
    <2> QED
      BY <2>1, <2>2, <2>3, Unchanged, Steps
  <1>12. ASSUME NEW e \in End, DisableGarbageCollection(e) PROVE Step
    <2>1. Promise!DisableGarbageCollection(e)
      BY <1>12, Unchanged DEF DisableGarbageCollection, Objects, Proxies,
                              Promise!DisableGarbageCollection
    <2> QED
      BY <2>1 DEF Step, Promise!Next, End
  <1>13. CASE UNCHANGED vars
    BY <1>13, Unchanged, Stutters DEF vars
  <1> QED
    BY <1>1, <1>2, <1>3, <1>4, <1>5, <1>6, <1>7, <1>8, <1>9, <1>10, <1>11, <1>12,
       <1>13 DEF Next

(* The registries keep the promise of a remote object: whatever ids are     *)
(* used again, whatever waits for a lock and whatever owns a proxy, a call  *)
(* is executed by the object it is meant for, and an object is dropped only *)
(* on the request of its own proxy, which nobody uses any more.             *)
THEOREM ObjectsKeepPromise == Spec => KeepsPromise
  <1>1. Init => Promise!Init
    <2> SUFFICES ASSUME Init PROVE Promise!Init
      OBVIOUS
    <2>1. \A o \in Obj :
            /\ ObjectState(o) = IF o = Initial[Home[o]] THEN "exported" ELSE "private"
            /\ ProxyState(o) = IF o = Initial[Home[o]] THEN "usable" ELSE "none"
      BY DEF Init, ObjectState, ProxyState, IsInitial
    <2> QED
      BY <2>1 DEF Init, Promise!Init, End
  <1>2. Inv /\ [Next]_vars => [Promise!Next]_(Promise!vars)
    BY NextIsStep DEF Step
  <1> QED
    BY <1>1, <1>2, Invariance, PTL DEF Spec, KeepsPromise, Promise!Spec
===============================================================================
