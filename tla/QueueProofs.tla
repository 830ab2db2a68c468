------------------------------ MODULE QueueProofs ------------------------------
(***************************************************************************)
(* What an Append or a Tail does to the elements of a queue.               *)
(***************************************************************************)
EXTENDS Integers, Functions, SequenceTheorems, TLAPS

LEMMA MembersOf ==
  ASSUME NEW S, NEW s \in Seq(S)
  PROVE  Range(s) \subseteq S /\ (s = <<>> <=> Range(s) = {})
  <1>1. DOMAIN s = 1 .. Len(s) /\ Len(s) \in Nat
    OBVIOUS
  <1>2. \A i \in 1 .. Len(s) : s[i] \in S
    BY ElementOfSeq
  <1>3. Range(s) \subseteq S
    BY <1>1, <1>2 DEF Range
  <1>4. CASE s = <<>>
    BY <1>4, <1>3 DEF Range
  <1>5. CASE s # <<>>
    <2>1. 1 \in DOMAIN s
      BY <1>5, <1>1, EmptySeq
    <2>2. s[1] \in Range(s)
      BY <2>1 DEF Range
    <2> QED
      BY <1>5, <1>3, <2>2
  <1> QED
    BY <1>4, <1>5

LEMMA AppendMembers ==
  ASSUME NEW S, NEW s \in Seq(S), NEW x \in S
  PROVE  /\ Append(s, x) \in Seq(S)
         /\ Range(Append(s, x)) = Range(s) \cup {x}
         /\ Append(s, x) # <<>>
         /\ Len(Append(s, x)) = Len(s) + 1
  <1> DEFINE t == Append(s, x)
  <1>1. /\ t \in Seq(S) /\ Len(t) = Len(s) + 1 /\ Len(s) \in Nat
        /\ DOMAIN s = 1 .. Len(s) /\ DOMAIN t = 1 .. Len(s) + 1
        /\ \A i \in 1 .. Len(s) : t[i] = s[i]
        /\ t[Len(s) + 1] = x
    OBVIOUS
  <1> HIDE DEF t
  <1>2. Range(t) = Range(s) \cup {x}
    BY <1>1 DEF Range
  <1>3. t # <<>>
    BY <1>1
  <1> QED
    BY <1>1, <1>2, <1>3 DEF t

LEMMA TailMembers ==
  ASSUME NEW S, NEW s \in Seq(S), s # <<>>
  PROVE  /\ Tail(s) \in Seq(S) /\ Head(s) \in S /\ Head(s) \in Range(s)
         /\ Range(s) = Range(Tail(s)) \cup {Head(s)}
         /\ Len(Tail(s)) = Len(s) - 1
         /\ Len(s) <= 1 => Tail(s) = <<>> /\ Range(s) = {Head(s)}
  <1> DEFINE t == Tail(s)
  <1>1. /\ t \in Seq(S) /\ Len(t) = Len(s) - 1 /\ Len(s) \in Nat \ {0}
        /\ DOMAIN s = 1 .. Len(s) /\ DOMAIN t = 1 .. Len(s) - 1
        /\ \A i \in 1 .. Len(s) - 1 : t[i] = s[i + 1]
        /\ Head(s) = s[1] /\ Head(s) \in S
    OBVIOUS
  <1> HIDE DEF t
  <1>2. \A i \in 1 .. Len(s) : i = 1 \/ (i - 1 \in 1 .. Len(s) - 1 /\ s[i] = t[i - 1])
    BY <1>1
  <1>3. Range(s) = Range(t) \cup {s[1]}
    <2>1. ASSUME NEW x \in Range(s) PROVE x \in Range(t) \cup {s[1]}
      <3>1. PICK i \in 1 .. Len(s) : x = s[i]
        BY <2>1, <1>1 DEF Range
      <3>2. CASE i = 1
        BY <3>1, <3>2
      <3>3. CASE i - 1 \in 1 .. Len(s) - 1 /\ s[i] = t[i - 1]
        BY <3>1, <3>3, <1>1 DEF Range
      <3> QED
        BY <3>2, <3>3, <1>2
    <2>2. \A x \in Range(t) : x \in Range(s)
      <3>1. \A i \in 1 .. Len(s) - 1 : i + 1 \in 1 .. Len(s)
        BY <1>1
      <3> QED
        BY <1>1, <3>1 DEF Range
    <2>3. s[1] \in Range(s)
      BY <1>1 DEF Range
    <2> QED
      BY <2>1, <2>2, <2>3
  <1>4. Len(s) <= 1 => t = <<>> /\ Range(s) = {s[1]}
    <2>1. Len(s) <= 1 => Len(t) = 0
      BY <1>1
    <2>2. Len(t) = 0 => t = <<>>
      BY <1>1, EmptySeq
    <2> QED
      BY <1>1, <2>1, <2>2 DEF Range
  <1> QED
    BY <1>1, <1>3, <1>4 DEF t

LEMMA MembersOfNone == Range(<<>>) = {} /\ Len(<<>>) = 0
  BY DEF Range

LEMMA MembersOfOne ==
  ASSUME NEW x
  PROVE  Range(<<x>>) = {x} /\ Len(<<x>>) = 1
  BY DEF Range

LEMMA AppendDistinct ==
  ASSUME NEW S, NEW s \in Seq(S), NEW x \in S, IsInjective(s), x \notin Range(s)
  PROVE  IsInjective(Append(s, x))
  <1> DEFINE t == Append(s, x)
  <1>1. /\ Len(s) \in Nat
        /\ DOMAIN s = 1 .. Len(s) /\ DOMAIN t = 1 .. Len(s) + 1
        /\ \A i \in 1 .. Len(s) : t[i] = s[i]
        /\ t[Len(s) + 1] = x
    OBVIOUS
  <1> HIDE DEF t
  <1>2. \A i \in 1 .. Len(s) : t[i] # x
    BY <1>1 DEF Range
  <1>3. IsInjective(t)
    BY <1>1, <1>2 DEF IsInjective
  <1> QED
    BY <1>3 DEF t

LEMMA TailDistinct ==
  ASSUME NEW S, NEW s \in Seq(S), s # <<>>, IsInjective(s)
  PROVE  IsInjective(Tail(s)) /\ Head(s) \notin Range(Tail(s))
  <1> DEFINE t == Tail(s)
  <1>1. /\ Len(s) \in Nat \ {0}
        /\ DOMAIN s = 1 .. Len(s) /\ DOMAIN t = 1 .. Len(s) - 1
        /\ \A i \in 1 .. Len(s) - 1 : t[i] = s[i + 1]
        /\ Head(s) = s[1]
    OBVIOUS
  <1> HIDE DEF t
  <1>2. \A i, j \in 1 .. Len(s) - 1 : t[i] = t[j] => i + 1 = j + 1
    BY <1>1 DEF IsInjective
  <1>3. IsInjective(t)
    BY <1>1, <1>2 DEF IsInjective
  <1>4. \A i \in 1 .. Len(s) - 1 : t[i] # s[1]
    BY <1>1 DEF IsInjective
  <1>5. Head(s) \notin Range(t)
    BY <1>1, <1>4 DEF Range
  <1> QED
    BY <1>3, <1>5 DEF t
===============================================================================
