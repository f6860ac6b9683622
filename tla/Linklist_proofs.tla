-------------------------- MODULE Linklist_proofs --------------------------
(***************************************************************************)
(* What taking items from a list leaves.                                   *)
(***************************************************************************)
EXTENDS Linklist, SequenceTheorems, WellFoundedInduction, TLAPS

\* A set of numbers has a least one, and so induction holds for such a set.
LEMMA Least ==
  ASSUME NEW T, T \subseteq Nat, T # {}
  PROVE  \E x \in T : \A y \in T : x <= y
  <1> DEFINE less == OpToRel(<, Nat)
  <1>1. PICK x \in T : \A y \in T : <<y, x>> \notin less
    <2>1. IsWellFoundedOn(less, Nat)
      BY NatLessThanWellFounded
    <2> HIDE DEF less
    <2> QED
      BY <2>1, WFMin
  <1>2. \A y \in T : ~(y < x)
    BY <1>1 DEF OpToRel
  <1> QED
    BY <1>2

LEMMA Induction ==
  ASSUME NEW P \in SUBSET Nat, 0 \in P, \A n \in P : n + 1 \in P
  PROVE  P = Nat
  <1> SUFFICES ASSUME Nat \ P # {}
               PROVE  FALSE
    OBVIOUS
  <1>1. PICK x \in Nat \ P : \A y \in Nat \ P : x <= y
    BY Least
  <1>2. x - 1 \in P /\ x - 1 + 1 = x
    BY <1>1
  <1> QED
    BY <1>1, <1>2

-----------------------------------------------------------------------------
(* The items of a list.                                                    *)

LEMMA AppendItems ==
  ASSUME NEW S, NEW s \in Seq(S), NEW e \in S
  PROVE  ToSet(Append(s, e)) = ToSet(s) \cup {e}
  <1> DEFINE t == Append(s, e)
  <1>1. /\ Len(s) \in Nat /\ t \in Seq(S) /\ Len(t) = Len(s) + 1
        /\ \A i \in 1 .. Len(s) : t[i] = s[i]
        /\ t[Len(s) + 1] = e
    BY AppendProperties, LenProperties
  <1>2. DOMAIN s = 1 .. Len(s) /\ DOMAIN t = 1 .. (Len(s) + 1)
    BY <1>1, LenProperties
  <1> HIDE DEF t
  <1>3. ToSet(s) \cup {e} \subseteq ToSet(t)
    BY <1>1, <1>2 DEF ToSet
  <1>4. ToSet(t) \subseteq ToSet(s) \cup {e}
    BY <1>1, <1>2 DEF ToSet
  <1> QED
    BY <1>3, <1>4 DEF t

LEMMA AppendDistinct ==
  ASSUME NEW S, NEW s \in Seq(S), NEW e \in S \ ToSet(s), IsInjective(s)
  PROVE  IsInjective(Append(s, e))
  <1> DEFINE t == Append(s, e)
  <1>1. /\ Len(s) \in Nat /\ t \in Seq(S) /\ Len(t) = Len(s) + 1
        /\ \A i \in 1 .. Len(s) : t[i] = s[i]
        /\ t[Len(s) + 1] = e
    BY AppendProperties, LenProperties
  <1>2. DOMAIN s = 1 .. Len(s) /\ DOMAIN t = 1 .. (Len(s) + 1)
    BY <1>1, LenProperties
  <1>3. \A i \in 1 .. Len(s) : s[i] # e
    BY <1>2 DEF ToSet
  <1> HIDE DEF t
  <1>4. IsInjective(t)
    BY <1>1, <1>2, <1>3 DEF IsInjective
  <1> QED
    BY <1>4 DEF t

LEMMA ConcatItems ==
  ASSUME NEW S, NEW s \in Seq(S), NEW t \in Seq(S)
  PROVE  ToSet(s \o t) = ToSet(s) \cup ToSet(t)
  <1> DEFINE u == s \o t
  <1>1. /\ Len(s) \in Nat /\ Len(t) \in Nat /\ u \in Seq(S) /\ Len(u) = Len(s) + Len(t)
        /\ \A i \in 1 .. Len(s) : u[i] = s[i]
        /\ \A i \in 1 .. Len(t) : u[Len(s) + i] = t[i]
    BY ConcatProperties, LenProperties
  <1>2. DOMAIN s = 1 .. Len(s) /\ DOMAIN t = 1 .. Len(t) /\ DOMAIN u = 1 .. (Len(s) + Len(t))
    BY <1>1, LenProperties
  <1> HIDE DEF u
  <1>3. ToSet(s) \cup ToSet(t) \subseteq ToSet(u)
    <2>1. ASSUME NEW i \in 1 .. Len(s)
          PROVE  i \in DOMAIN u /\ s[i] = u[i]
      BY <1>1, <1>2
    <2>2. ASSUME NEW i \in 1 .. Len(t)
          PROVE  Len(s) + i \in DOMAIN u /\ t[i] = u[Len(s) + i]
      BY <1>1, <1>2
    <2>3. ToSet(s) \subseteq ToSet(u)
      BY <1>2, <2>1 DEF ToSet
    <2>4. ToSet(t) \subseteq ToSet(u)
      BY <1>2, <2>2 DEF ToSet
    <2> QED
      BY <2>3, <2>4
  <1>4. ASSUME NEW i \in 1 .. (Len(s) + Len(t))
        PROVE  u[i] \in ToSet(s) \cup ToSet(t)
    <2>1. CASE i \in 1 .. Len(s)
      BY <1>1, <1>2, <2>1 DEF ToSet
    <2>2. CASE i \notin 1 .. Len(s)
      <3>1. i - Len(s) \in 1 .. Len(t) /\ Len(s) + (i - Len(s)) = i
        BY <1>1, <2>2
      <3> QED
        BY <1>1, <1>2, <3>1 DEF ToSet
    <2> QED
      BY <2>1, <2>2
  <1> QED
    BY <1>2, <1>3, <1>4 DEF ToSet, u

LEMMA TailItems ==
  ASSUME NEW S, NEW s \in Seq(S), s # <<>>
  PROVE  /\ Head(s) \in S /\ Head(s) = s[1] /\ Tail(s) \in Seq(S)
         /\ ToSet(s) = {Head(s)} \cup ToSet(Tail(s))
  <1> DEFINE t == Tail(s)
  <1>1. /\ Len(s) \in Nat \ {0} /\ t \in Seq(S) /\ Len(t) = Len(s) - 1
        /\ Head(s) = s[1] /\ Head(s) \in S
        /\ \A i \in 1 .. Len(t) : t[i] = s[i + 1]
    BY HeadTailProperties, EmptySeq
  <1>2. DOMAIN s = 1 .. Len(s) /\ DOMAIN t = 1 .. (Len(s) - 1)
    BY <1>1, LenProperties
  <1> HIDE DEF t
  <1>3. {s[1]} \cup ToSet(t) \subseteq ToSet(s)
    BY <1>1, <1>2 DEF ToSet
  <1>4. ASSUME NEW i \in 1 .. Len(s)
        PROVE  s[i] \in {s[1]} \cup ToSet(t)
    <2>1. i = 1 \/ (i - 1 \in 1 .. (Len(s) - 1) /\ i - 1 + 1 = i)
      BY <1>1
    <2> QED
      BY <1>1, <1>2, <2>1 DEF ToSet
  <1> QED
    BY <1>1, <1>2, <1>3, <1>4 DEF ToSet, t

-----------------------------------------------------------------------------
(* Only() and Without().                                                   *)

\* The recursive function in Only() is defined: it satisfies its equation.
Step(s, T, g, n) ==
  IF n = 0 THEN <<>> ELSE IF s[n] \in T THEN Append(g[n - 1], s[n]) ELSE g[n - 1]

LEMMA OnlyDefined ==
  ASSUME NEW S, NEW s \in Seq(S), NEW T
  PROVE  \E g : g = [n \in 0 .. Len(s) |-> Step(s, T, g, n)]
  <1> DEFINE P == {m \in Nat : \E g : g = [n \in 0 .. m |-> Step(s, T, g, n)]}
  <1>1. 0 \in P
    <2> DEFINE g == [n \in 0 .. 0 |-> <<>>]
    <2>1. g = [n \in 0 .. 0 |-> Step(s, T, g, n)]
      BY DEF Step
    <2> QED
      BY <2>1
  <1>2. \A m \in P : m + 1 \in P
    <2> TAKE m \in P
    <2>1. PICK g : g = [n \in 0 .. m |-> Step(s, T, g, n)]
      OBVIOUS
    <2> DEFINE h == [n \in 0 .. (m + 1) |-> IF n = m + 1 THEN Step(s, T, g, m + 1) ELSE g[n]]
    <2>2. \A n \in 0 .. (m + 1) : h[n] = Step(s, T, h, n)
      <3> TAKE n \in 0 .. (m + 1)
      <3>1. CASE n = m + 1
        <4>1. h[n] = Step(s, T, g, m + 1) /\ h[m] = g[m] /\ m + 1 - 1 = m
          BY <3>1
        <4> HIDE DEF h
        <4> QED
          BY <3>1, <4>1 DEF Step
      <3>2. CASE n # m + 1
        <4>1. n \in 0 .. m /\ (n # 0 => n - 1 \in 0 .. m)
          BY <3>2
        <4>2. h[n] = g[n] /\ (n # 0 => h[n - 1] = g[n - 1])
          BY <3>2, <4>1
        <4>3. g[n] = Step(s, T, g, n)
          BY <2>1, <4>1
        <4> HIDE DEF h
        <4> QED
          BY <4>2, <4>3 DEF Step
      <3> QED
        BY <3>1, <3>2
    <2>3. h = [n \in 0 .. (m + 1) |-> Step(s, T, h, n)]
      <3>1. h = [n \in 0 .. (m + 1) |-> h[n]]
        OBVIOUS
      <3> HIDE DEF h
      <3> QED
        BY <2>2, <3>1
    <2> HIDE DEF h
    <2> QED
      BY <2>3
  <1> HIDE DEF P
  <1>3. P = Nat
    BY <1>1, <1>2, Induction DEF P
  <1> QED
    BY <1>3, LenProperties DEF P

\* Only(s, T) is a list of the items of s that are in T, each as often.
LEMMA OnlyProperties ==
  ASSUME NEW S, NEW s \in Seq(S), NEW T
  PROVE  /\ Only(s, T) \in Seq(S)
         /\ ToSet(Only(s, T)) = ToSet(s) \cap T
         /\ IsInjective(s) => IsInjective(Only(s, T))
  <1> DEFINE f == CHOOSE g : g = [n \in 0 .. Len(s) |-> Step(s, T, g, n)]
             Items(m) == {s[i] : i \in 1 .. m} \cap T
             P == {m \in Nat : m <= Len(s) =>
                     /\ f[m] \in Seq(S) /\ ToSet(f[m]) = Items(m)
                     /\ IsInjective(s) => IsInjective(f[m])}
  <1>1. f = [n \in 0 .. Len(s) |-> Step(s, T, f, n)]
    BY OnlyDefined
  <1>2. Only(s, T) = f[Len(s)]
    BY DEF Only, Step
  <1> HIDE DEF f
  <1>0. \A n \in 0 .. Len(s) : f[n] = Step(s, T, f, n)
    BY <1>1, Zenon
  <1>3. 0 \in P
    <2>1. f[0] = <<>>
      BY <1>0, LenProperties DEF Step
    <2>2. ToSet(<<>>) = {} /\ Items(0) = {}
      BY DEF ToSet
    <2>3. f[0] \in Seq(S) /\ ToSet(f[0]) = Items(0) /\ IsInjective(f[0])
      BY <2>1, <2>2, EmptySeq DEF IsInjective
    <2> QED
      BY <2>3
  <1>4. \A m \in P : m + 1 \in P
    <2> TAKE m \in P
    <2> SUFFICES ASSUME m + 1 <= Len(s)
                 PROVE  /\ f[m + 1] \in Seq(S) /\ ToSet(f[m + 1]) = Items(m + 1)
                        /\ IsInjective(s) => IsInjective(f[m + 1])
      OBVIOUS
    <2>1. m \in Nat /\ Len(s) \in Nat /\ m + 1 - 1 = m
      BY LenProperties
    <2>2. f[m] \in Seq(S) /\ ToSet(f[m]) = Items(m) /\ (IsInjective(s) => IsInjective(f[m]))
      BY <2>1
    <2>3. s[m + 1] \in S
      BY <2>1, ElementOfSeq
    <2>4. f[m + 1] = IF s[m + 1] \in T THEN Append(f[m], s[m + 1]) ELSE f[m]
      <3>1. m + 1 \in 0 .. Len(s) /\ m + 1 # 0
        BY <2>1
      <3>2. f[m + 1] = Step(s, T, f, m + 1)
        BY <1>0, <3>1
      <3> QED
        BY <2>1, <3>1, <3>2 DEF Step
    <2>5. Items(m + 1) = IF s[m + 1] \in T THEN Items(m) \cup {s[m + 1]} ELSE Items(m)
      BY <2>1
    <2>6. CASE s[m + 1] \in T
      <3>1. f[m + 1] = Append(f[m], s[m + 1])
        BY <2>4, <2>6
      <3>2. f[m + 1] \in Seq(S)
        BY <2>2, <2>3, <3>1, AppendProperties
      <3>4. ToSet(f[m + 1]) = ToSet(f[m]) \cup {s[m + 1]}
        BY <2>2, <2>3, <3>1, AppendItems
      <3>5. ASSUME IsInjective(s)
            PROVE  IsInjective(f[m + 1])
        <4>1. s[m + 1] \notin Items(m)
          <5>1. DOMAIN s = 1 .. Len(s)
            BY LenProperties
          <5> QED
            BY <2>1, <3>5, <5>1 DEF IsInjective
        <4> QED
          BY <2>2, <2>3, <3>1, <3>5, <4>1, AppendDistinct
      <3> QED
        BY <2>2, <2>5, <2>6, <3>2, <3>4, <3>5
    <2>7. CASE s[m + 1] \notin T
      BY <2>1, <2>2, <2>4, <2>5, <2>7
    <2> QED
      BY <2>6, <2>7
  <1>5. Len(s) \in P
    <2> HIDE DEF P
    <2>1. P = Nat
      BY <1>3, <1>4, Induction DEF P
    <2> QED
      BY <2>1, LenProperties
  <1>6. Items(Len(s)) = ToSet(s) \cap T
    BY LenProperties DEF ToSet
  <1> QED
    BY <1>2, <1>5, <1>6, LenProperties

\* Without(s, e) loses e and nothing else.
LEMMA WithoutProperties ==
  ASSUME NEW S, NEW s \in Seq(S), NEW e
  PROVE  /\ Without(s, e) \in Seq(S)
         /\ ToSet(Without(s, e)) = ToSet(s) \ {e}
         /\ IsInjective(s) => IsInjective(Without(s, e))
  BY OnlyProperties DEF Without

LEMMA WithoutOneOfMany ==
  ASSUME NEW S, NEW s \in Seq(S), s # <<>>, Len(s) # 1, IsInjective(s), NEW e
  PROVE  Without(s, e) # <<>>
  <1>1. Len(s) \in Nat /\ Len(s) # 0 /\ DOMAIN s = 1 .. Len(s)
    BY EmptySeq, LenProperties
  <1>2. 1 \in DOMAIN s /\ 2 \in DOMAIN s
    BY <1>1
  <1>3. s[1] # s[2]
    BY <1>2 DEF IsInjective
  <1>4. s[1] \in ToSet(s) /\ s[2] \in ToSet(s)
    BY <1>2 DEF ToSet
  <1>5. ToSet(Without(s, e)) # {}
    BY <1>3, <1>4, WithoutProperties
  <1> QED
    BY <1>5 DEF ToSet

-----------------------------------------------------------------------------
(* The activations of getfiles() and putfiles(): a stack of lists.         *)

Walks(I, P) == [todo : Seq(I), out : Seq(P), tags : BOOLEAN]

\* The first item of one of the lists is done.
Popped(fs, l) == [fs EXCEPT ![l].todo = Tail(@)]
Callers(fs) == SubSeq(fs, 1, Len(fs) - 1)

LEMMA PoppedProperties ==
  ASSUME NEW I, NEW P, NEW fs \in Seq(Walks(I, P)), NEW l \in 1 .. Len(fs), fs[l].todo # <<>>
  PROVE  /\ Popped(fs, l) \in Seq(Walks(I, P)) /\ Len(Popped(fs, l)) = Len(fs) /\ Popped(fs, l) # <<>>
         /\ Popped(fs, l)[l].out = fs[l].out
         /\ \A k \in 1 .. Len(fs) : k # l => Popped(fs, l)[k] = fs[k]
  <1> DEFINE f == [fs[l] EXCEPT !.todo = Tail(fs[l].todo)]
             new == Popped(fs, l)
  <1>1. fs[l] \in Walks(I, P) /\ Len(fs) \in Nat
    BY ElementOfSeq, LenProperties
  <1>2. Tail(fs[l].todo) \in Seq(I)
    BY <1>1, TailItems DEF Walks
  <1>3. f \in Walks(I, P) /\ f.out = fs[l].out
    BY <1>1, <1>2 DEF Walks
  <1>4. new = [fs EXCEPT ![l] = f]
    BY DEF Popped
  <1> HIDE DEF f, new
  <1>5. /\ new \in Seq(Walks(I, P)) /\ Len(new) = Len(fs)
        /\ \A k \in 1 .. Len(fs) : new[k] = IF k = l THEN f ELSE fs[k]
    <2>1. /\ [fs EXCEPT ![l] = f] \in Seq(Walks(I, P)) /\ Len([fs EXCEPT ![l] = f]) = Len(fs)
          /\ \A k \in 1 .. Len(fs) : [fs EXCEPT ![l] = f][k] = IF k = l THEN f ELSE fs[k]
      BY <1>3, ExceptSeq
    <2> QED
      BY <1>4, <2>1
  <1>6. new # <<>>
    BY <1>1, <1>5, EmptySeq
  <1> QED
    BY <1>3, <1>5, <1>6 DEF new

\* An activation returns to its caller, which is done with the item it was at.
LEMMA CallerProperties ==
  ASSUME NEW I, NEW P, NEW fs \in Seq(Walks(I, P)), Len(fs) > 1,
         \A k \in 1 .. Len(fs) - 1 : fs[k].todo # <<>>
  PROVE  /\ Len(Callers(fs)) = Len(fs) - 1 /\ Callers(fs)[Len(fs) - 1] = fs[Len(fs) - 1]
         /\ Popped(Callers(fs), Len(fs) - 1) \in Seq(Walks(I, P))
         /\ Len(Popped(Callers(fs), Len(fs) - 1)) = Len(fs) - 1
         /\ Popped(Callers(fs), Len(fs) - 1) # <<>>
         /\ Popped(Callers(fs), Len(fs) - 1)[Len(fs) - 1].out = fs[Len(fs) - 1].out
         /\ \A k \in 1 .. Len(fs) - 2 : Popped(Callers(fs), Len(fs) - 1)[k] = fs[k]
  <1> DEFINE outer == Callers(fs)
  <1>1. Len(fs) \in Nat /\ \A k \in 1 .. Len(fs) : fs[k] \in Walks(I, P)
    BY LenProperties, ElementOfSeq
  <1>2. /\ outer \in Seq(Walks(I, P)) /\ Len(outer) = Len(fs) - 1
        /\ \A k \in 1 .. Len(fs) - 1 : outer[k] = fs[k]
    <2>1. \A k \in 1 .. Len(fs) - 1 : fs[k] \in Walks(I, P)
      BY <1>1
    <2>2. /\ SubSeq(fs, 1, Len(fs) - 1) \in Seq(Walks(I, P))
          /\ Len(SubSeq(fs, 1, Len(fs) - 1)) = IF 1 <= Len(fs) - 1 THEN Len(fs) - 1 - 1 + 1 ELSE 0
          /\ \A k \in 1 .. Len(fs) - 1 - 1 + 1 : SubSeq(fs, 1, Len(fs) - 1)[k] = fs[1 + k - 1]
      BY <1>1, <2>1, SubSeqProperties
    <2> QED
      BY <1>1, <2>2 DEF Callers
  <1> HIDE DEF outer
  <1>3. Len(fs) - 1 \in 1 .. Len(outer) /\ outer[Len(fs) - 1].todo # <<>>
    BY <1>1, <1>2
  <1> DEFINE l == Len(fs) - 1
             new == Popped(outer, l)
  <1>4. /\ new \in Seq(Walks(I, P)) /\ Len(new) = Len(outer) /\ new # <<>> /\ new[l].out = outer[l].out
        /\ \A k \in 1 .. Len(outer) : k # l => new[k] = outer[k]
    <2> HIDE DEF l
    <2>1. outer \in Seq(Walks(I, P)) /\ l \in 1 .. Len(outer) /\ outer[l].todo # <<>>
      BY <1>2, <1>3 DEF l
    <2> QED
      BY <2>1, PoppedProperties
  <1> HIDE DEF new
  <1>5. /\ outer[Len(fs) - 1] = fs[Len(fs) - 1]
        /\ \A k \in 1 .. Len(fs) - 2 : new[k] = fs[k]
    BY <1>1, <1>2, <1>4
  <1> QED
    BY <1>2, <1>4, <1>5 DEF new, outer
=============================================================================
