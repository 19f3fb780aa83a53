---------------------------- MODULE RepliesProofs ----------------------------
(***************************************************************************)
(* Proofs about the three places where the text of a conversation is cut   *)
(* and put together, for replies, conversations and streams of any length: *)
(* HoldBack, ContextWindow and StreamShim.                                 *)
(*                                                                         *)
(* The first section is about sums over finite sets, of which Functions    *)
(* has the definition, a fold, and no theorem.  The induction is that of a *)
(* smallest counterexample.                                                *)
(***************************************************************************)
EXTENDS HoldBack, ContextWindow, StreamShim,
        FiniteSetTheorems, SequenceTheorems, WellFoundedInduction, TLAPS

-----------------------------------------------------------------------------
LEMMA SmallestNumber ==
    ASSUME NEW S \in SUBSET Nat, S # {}
    PROVE  \E n \in S : \A m \in S : n <= m
<1> DEFINE R == {ss \in Nat \X Nat : ss[1] < ss[2]}
<1>1. IsWellFoundedOn(R, Nat)
    BY NatLessThanWellFounded DEF OpToRel
<1>2. PICK n \in S : \A m \in S : <<m, n>> \notin R
    <2> HIDE DEF R
    <2> QED
        BY <1>1, WFMin
<1>3. ASSUME NEW m \in S
      PROVE  n <= m
    <2>1. <<m, n>> \notin R
        BY <1>2
    <2>2. ~(m < n)
        BY <2>1
    <2> QED
        BY <2>2
<1> QED
    BY <1>3

\* Min and Max of FiniteSetsExt are what their names say.
LEMMA MinIsSmallest ==
    ASSUME NEW S \in SUBSET Nat, S # {}
    PROVE  Min(S) \in S /\ \A m \in S : Min(S) <= m
    BY SmallestNumber DEF Min

LEMMA MaxIsLargest ==
    ASSUME NEW S \in SUBSET Nat, S # {}, NEW b \in Nat, \A m \in S : m <= b
    PROVE  Max(S) \in S /\ \A m \in S : m <= Max(S)
<1> DEFINE Below == {b - m : m \in S}
<1>1. Below \in SUBSET Nat /\ Below # {}
    <2>1. \A m \in S : b - m \in Nat
        OBVIOUS
    <2> QED
        BY <2>1
<1>2. PICK d \in Below : \A x \in Below : d <= x
    <2> HIDE DEF Below
    <2> QED
        BY <1>1, SmallestNumber
<1>3. PICK n \in S : d = b - n
    BY <1>2
<1>4. ASSUME NEW m \in S
      PROVE  m <= n
    <2>1. b - m \in Below
        OBVIOUS
    <2>2. b - n <= b - m
        BY <1>2, <1>3, <2>1
    <2>3. m \in Nat /\ n \in Nat
        OBVIOUS
    <2> QED
        BY <2>2, <2>3
<1> QED
    BY <1>4 DEF Max

LEMMA SmallestSet ==
    ASSUME NEW S, IsFiniteSet(S), NEW Sets \in SUBSET SUBSET S, Sets # {}
    PROVE  \E U \in Sets : \A V \in Sets : V \subseteq U => V = U
<1>1. IsWellFoundedOn(StrictSubsetOrdering(S), SUBSET S)
    BY FS_StrictSubsetOrderingWellFounded, FS_FiniteSubsetsOfFinite
<1>2. PICK U \in Sets : \A V \in Sets : <<V, U>> \notin StrictSubsetOrdering(S)
    BY <1>1, WFMin
<1> QED
    BY <1>2 DEF StrictSubsetOrdering

Some(s) == CHOOSE x \in s : TRUE
Sums(f, S, iter) ==
    iter = [s \in SUBSET S |-> IF s = {} THEN 0 ELSE f[Some(s)] + iter[s \ {Some(s)}]]

LEMMA SumIsIter ==
    ASSUME NEW f, NEW S
    PROVE  SumFunctionOnSet(f, S) = (CHOOSE iter : Sums(f, S, iter))[S]
    BY DEF SumFunctionOnSet, FoldFunctionOnSet, MapThenFoldSet, Sums, Some

LEMMA SumsUnique ==
    ASSUME NEW f, NEW S, IsFiniteSet(S), NEW g, NEW h, Sums(f, S, g), Sums(f, S, h)
    PROVE  g[S] = h[S]
<1> DEFINE Differ == {s \in SUBSET S : g[s] # h[s]}
<1> SUFFICES ASSUME Differ # {}
             PROVE  FALSE
    OBVIOUS
<1>1. PICK U \in Differ : \A V \in Differ : V \subseteq U => V = U
    <2>1. Differ \in SUBSET SUBSET S
        OBVIOUS
    <2> HIDE DEF Differ
    <2> QED
        BY <2>1, SmallestSet
<1>2. ASSUME NEW s \in SUBSET S
      PROVE  /\ g[s] = IF s = {} THEN 0 ELSE f[Some(s)] + g[s \ {Some(s)}]
             /\ h[s] = IF s = {} THEN 0 ELSE f[Some(s)] + h[s \ {Some(s)}]
    BY DEF Sums
<1>3. U # {}
    BY <1>1, <1>2
<1>4. Some(U) \in U
    BY <1>3 DEF Some
<1>5. U \ {Some(U)} \notin Differ
    BY <1>1, <1>4
<1> QED
    BY <1>1, <1>2, <1>3, <1>5

LEMMA SumEmpty ==
    ASSUME NEW f
    PROVE  SumFunctionOnSet(f, {}) = 0
<1> DEFINE g == [s \in SUBSET {} |-> 0]
<1>1. Sums(f, {}, g)
    BY DEF Sums
<1>2. Sums(f, {}, CHOOSE iter : Sums(f, {}, iter))
    <2> HIDE DEF g
    <2> QED
        BY <1>1
<1>3. (CHOOSE iter : Sums(f, {}, iter))[{}] = 0
    BY <1>2 DEF Sums
<1> QED
    BY <1>3, SumIsIter

LEMMA SumSome ==
    ASSUME NEW f, NEW S, IsFiniteSet(S), S # {}
    PROVE  SumFunctionOnSet(f, S) = f[Some(S)] + SumFunctionOnSet(f, S \ {Some(S)})
<1> DEFINE Sum(s) == SumFunctionOnSet(f, s)
           Wrong == {s \in SUBSET S : s # {} /\ Sum(s) # f[Some(s)] + Sum(s \ {Some(s)})}
<1> HIDE DEF Sum
<1> SUFFICES ASSUME Wrong # {}
             PROVE  FALSE
    BY DEF Sum
<1>1. PICK U \in Wrong : \A V \in Wrong : V \subseteq U => V = U
    <2>1. Wrong \in SUBSET SUBSET S
        OBVIOUS
    <2> HIDE DEF Wrong
    <2> QED
        BY <2>1, SmallestSet
<1> DEFINE new == f[Some(U)] + Sum(U \ {Some(U)})
           g == [s \in SUBSET U |-> IF s = U THEN new ELSE Sum(s)]
<1>2. U # {} /\ U \subseteq S /\ IsFiniteSet(U) /\ Sum(U) # new
    BY <1>1, FS_Subset
<1>3. Sums(f, U, g)
  <2> HIDE DEF new
  <2>1. ASSUME NEW s \in SUBSET U
        PROVE  g[s] = IF s = {} THEN 0 ELSE f[Some(s)] + g[s \ {Some(s)}]
    <3>1. CASE s = {}
        BY <1>2, <3>1, SumEmpty DEF Sum
    <3>2. ASSUME s # {} PROVE  Some(s) \in s /\ s \ {Some(s)} # U /\ g[s \ {Some(s)}] = Sum(s \ {Some(s)})
        BY <3>2 DEF Some
    <3>3. CASE s = U
        BY <1>2, <3>2, <3>3 DEF new
    <3>4. CASE s # {} /\ s # U
      <4>1. s \notin Wrong
        BY <3>4, <1>1
      <4>2. Sum(s) = f[Some(s)] + Sum(s \ {Some(s)})
        BY <4>1, <3>4, <1>2
      <4> QED
        BY <4>2, <3>2, <3>4
    <3> QED
        BY <3>1, <3>3, <3>4
  <2>2. g = [s \in SUBSET U |-> g[s]]
    OBVIOUS
  <2> HIDE DEF g
  <2> QED
    BY <2>1, <2>2 DEF Sums
<1>4. Sum(U) = g[U]
  <2> HIDE DEF g
  <2>1. Sums(f, U, CHOOSE iter : Sums(f, U, iter))
    BY <1>3
  <2> QED
    BY <2>1, <1>2, <1>3, SumsUnique, SumIsIter DEF Sum
<1> QED
    BY <1>2, <1>4

LEMMA SumInt ==
    ASSUME NEW f, NEW S, IsFiniteSet(S), \A x \in S : f[x] \in Int
    PROVE  /\ SumFunctionOnSet(f, S) \in Int
           /\ \A x \in S : SumFunctionOnSet(f, S) = f[x] + SumFunctionOnSet(f, S \ {x})
<1> DEFINE Sum(s) == SumFunctionOnSet(f, s)
           Right(s) == /\ Sum(s) \in Int
                       /\ \A x \in s : Sum(s) = f[x] + Sum(s \ {x})
           Wrong == {s \in SUBSET S : ~Right(s)}
<1> HIDE DEF Sum
<1> SUFFICES ASSUME Wrong # {}
             PROVE  FALSE
    BY DEF Sum
<1>1. PICK U \in Wrong : \A V \in Wrong : V \subseteq U => V = U
    <2>1. Wrong \in SUBSET SUBSET S
        OBVIOUS
    <2> HIDE DEF Wrong
    <2> QED
        BY <2>1, SmallestSet
<1>2. U \subseteq S /\ IsFiniteSet(U)
    BY <1>1, FS_Subset
<1>3. U # {}
    <2>1. Sum({}) = 0
        BY SumEmpty DEF Sum
    <2>2. Right({})
        BY <2>1
    <2> QED
        BY <1>1, <2>2
<1>4. ASSUME NEW V \in SUBSET U, V # U
      PROVE  Right(V)
    BY <1>1, <1>2, <1>4
<1> DEFINE c == Some(U)
<1>5. c \in U
    BY <1>3 DEF Some
<1>6. Sum(U) = f[c] + Sum(U \ {c})
    BY <1>2, <1>3, SumSome DEF Sum
<1> HIDE DEF c
<1>7. Sum(U) \in Int
    BY <1>2, <1>4, <1>5, <1>6
<1>8. ASSUME NEW x \in U
      PROVE  Sum(U) = f[x] + Sum(U \ {x})
  <2>1. CASE x = c
    BY <2>1, <1>6
  <2>2. CASE x # c
    <3>1. Right(U \ {c}) /\ Right(U \ {x})
        BY <1>4, <1>5
    <3>a. (U \ {c}) \ {x} = (U \ {x}) \ {c}
        OBVIOUS
    <3>2. Sum(U \ {c}) = f[x] + Sum((U \ {c}) \ {x})
        BY <3>1, <2>2
    <3>3. Sum(U \ {x}) = f[c] + Sum((U \ {c}) \ {x})
        BY <3>1, <2>2, <1>5, <3>a
    <3>4. Right((U \ {c}) \ {x})
        BY <1>4, <1>5
    <3> QED
        BY <3>2, <3>3, <3>4, <1>6, <1>2, <1>5
  <2> QED
    BY <2>1, <2>2
<1> QED
    BY <1>1, <1>7, <1>8

\* A number more, and sums of natural numbers.
LEMMA SumAdd ==
    ASSUME NEW f, NEW S, IsFiniteSet(S), NEW x, x \notin S,
           \A y \in S \cup {x} : f[y] \in Int
    PROVE  SumFunctionOnSet(f, S \cup {x}) = f[x] + SumFunctionOnSet(f, S)
<1>1. IsFiniteSet(S \cup {x}) /\ (S \cup {x}) \ {x} = S
    BY FS_AddElement
<1> QED
    BY <1>1, SumInt

LEMMA SumMonotone ==
    ASSUME NEW f, NEW S, IsFiniteSet(S), \A x \in S : f[x] \in Nat
    PROVE  /\ SumFunctionOnSet(f, S) \in Nat
           /\ \A T \in SUBSET S : SumFunctionOnSet(f, T) <= SumFunctionOnSet(f, S)
<1> DEFINE Sum(s) == SumFunctionOnSet(f, s)
           Right(s) == Sum(s) \in Nat /\ \A T \in SUBSET s : Sum(T) <= Sum(s)
           Wrong == {s \in SUBSET S : ~Right(s)}
<1> HIDE DEF Sum
<1> SUFFICES ASSUME Wrong # {}
             PROVE  FALSE
    BY DEF Sum
<1>1. PICK U \in Wrong : \A V \in Wrong : V \subseteq U => V = U
    <2>1. Wrong \in SUBSET SUBSET S
        OBVIOUS
    <2> HIDE DEF Wrong
    <2> QED
        BY <2>1, SmallestSet
<1>2. U \subseteq S /\ IsFiniteSet(U)
    BY <1>1, FS_Subset
<1>3. Sum({}) = 0
    BY SumEmpty DEF Sum
<1>4. ASSUME NEW x \in U
      PROVE  Sum(U) = f[x] + Sum(U \ {x}) /\ Right(U \ {x})
    <2>1. Sum(U) = f[x] + Sum(U \ {x})
        BY <1>2, SumInt DEF Sum
    <2>2. U \ {x} \in SUBSET S /\ U \ {x} # U
        BY <1>2
    <2> QED
        BY <2>1, <2>2, <1>1
<1>5. Sum(U) \in Nat
    <2>1. CASE U = {}
        BY <2>1, <1>3
    <2>2. CASE U # {}
        <3>1. PICK x \in U : TRUE
            BY <2>2
        <3>2. Sum(U) = f[x] + Sum(U \ {x}) /\ Sum(U \ {x}) \in Nat
            BY <1>4
        <3>3. f[x] \in Nat
            BY <1>2
        <3> QED
            BY <3>2, <3>3
    <2> QED
        BY <2>1, <2>2
<1>6. ASSUME NEW T \in SUBSET U
      PROVE  Sum(T) <= Sum(U)
    <2>1. CASE T = U
        BY <2>1, <1>5
    <2>2. CASE T # U
        <3>1. PICK x \in U : x \notin T
            BY <2>2
        <3>2. T \in SUBSET (U \ {x}) /\ f[x] \in Nat
            BY <3>1, <1>2
        <3>3. Sum(T) <= Sum(U \ {x}) /\ Sum(U \ {x}) \in Nat
            BY <1>4, <3>2
        <3>4. T \in SUBSET S /\ T # U
            BY <2>2, <1>2
        <3>5. Sum(T) \in Nat
            BY <3>4, <1>1
        <3>6. Sum(U) = f[x] + Sum(U \ {x})
            BY <1>4
        <3> QED
            BY <3>2, <3>3, <3>5, <3>6
    <2> QED
        BY <2>1, <2>2
<1> QED
    BY <1>1, <1>5, <1>6

-----------------------------------------------------------------------------
\* HoldBack.

HoldTypes ==
    /\ reply \in Seq(Pieces) /\ got \in 0 .. Len(reply)
    /\ equipped \in BOOLEAN /\ last \in BOOLEAN
    /\ decided \in BOOLEAN /\ tool_round \in BOOLEAN
    /\ shown \in Seq(Pieces)
    /\ done \in {"no", "shown", "called", "raised"}

\* What was decided when n pieces had been received.
DecidedAt(n) ==
    /\ Enough(SubSeq(reply, 1, n))
    /\ tool_round = (equipped /\ Marked(lstrip(SubSeq(reply, 1, n))))

\* While the reply arrives, either all of it is shown or nothing.
AllOrNothing ==
    done = "no" =>
        /\ decided => \E n \in 0 .. Len(reply) : DecidedAt(n)
        /\ shown = IF decided /\ ~tool_round THEN Received ELSE <<>>

HoldInv == HoldTypes /\ AllOrNothing /\ ShownInOrder /\ StreamCallsAsSend

LEMMA ReplyTyped == HoldInit => HoldTypes
<1> SUFFICES ASSUME HoldInit
             PROVE  HoldTypes
    OBVIOUS
<1>1. PICK n \in 0 .. MaxLength : reply \in [1 .. n -> Pieces]
    BY LengthAssumption DEF HoldInit, SeqOf
<1>2. reply \in Seq(Pieces)
    BY <1>1, LengthAssumption
<1>3. Len(reply) \in Nat /\ <<>> \in Seq(Pieces)
    BY <1>2, LenProperties, EmptySeq
<1>4. got \in 0 .. Len(reply)
    BY <1>3 DEF HoldInit
<1> QED
    BY <1>2, <1>3, <1>4, Zenon DEF HoldInit, HoldTypes

LEMMA InitHolds == HoldInit => HoldInv
<1> SUFFICES ASSUME HoldInit
             PROVE  HoldInv
    OBVIOUS
<1>1. HoldTypes
    BY ReplyTyped
<1>2. Received = <<>>
    BY SubSeqEmpty DEF HoldInit, Received
<1> QED
    BY <1>1, <1>2 DEF HoldInit, HoldInv, HoldTypes, AllOrNothing, ShownInOrder,
       StreamCallsAsSend, IsPrefix

\* What was shown and the delta are what was received with it.
LEMMA Grows ==
    ASSUME HoldTypes, NEW n \in 1 .. Len(reply) - got
    PROVE  /\ SubSeq(reply, 1, got + n) \in Seq(Pieces)
           /\ Received \o SubSeq(SubSeq(reply, 1, got + n), got + 1, got + n)
                 = SubSeq(reply, 1, got + n)
           /\ <<>> \o SubSeq(reply, 1, got + n) = SubSeq(reply, 1, got + n)
<1> DEFINE text == SubSeq(reply, 1, got + n)
<1>1. /\ got \in Nat /\ got + n \in 1 .. Len(reply) /\ Len(reply) \in Nat
      /\ \A k \in 1 .. got + n : reply[k] \in Pieces
    BY LenProperties DEF HoldTypes
<1>2. text \in Seq(Pieces) /\ Len(text) = got + n
    BY <1>1, SubSeqProperties
<1>3. SubSeq(text, got + 1, got + n) = SubSeq(reply, got + 1, got + n)
    BY <1>1, SubSeqOfSubSeq DEF HoldTypes
<1>4. Received \o SubSeq(reply, got + 1, got + n) = text
    BY <1>1, ConcatAdjacentSubSeq DEF Received, HoldTypes
<1> QED
    BY <1>2, <1>3, <1>4, ConcatEmptySeq

LEMMA DeltaHolds ==
    ASSUME HoldInv, NEW n \in 1 .. Len(reply) - got, Delta(n)
    PROVE  HoldInv'
<1> DEFINE text == SubSeq(reply, 1, got + n)
<1> USE DEF HoldInv
<1>1. /\ got' = got + n /\ got + n \in 0 .. Len(reply) /\ done = "no"
      /\ UNCHANGED <<reply, equipped, last, done>>
    <2>1. got \in 0 .. Len(reply) /\ Len(reply) \in Nat
        BY LenProperties DEF HoldTypes
    <2> QED
        BY <2>1 DEF Delta
<1>2. Received' = text /\ text \in Seq(Pieces)
    BY <1>1, Grows DEF Received
<1>3. shown' = IF decided' /\ ~tool_round' THEN text ELSE <<>>
    <2>1. CASE decided
        <3>1. /\ decided' = TRUE /\ tool_round' = tool_round
              /\ shown' = IF decided' /\ ~tool_round'
                          THEN shown \o SubSeq(text, got + 1, got + n) ELSE shown
            BY <2>1 DEF Delta, HoldTypes
        <3>2. shown = IF ~tool_round THEN Received ELSE <<>>
            BY <1>1, <2>1 DEF AllOrNothing
        <3> QED
            BY <3>1, <3>2, Grows
    <2>2. CASE ~decided
        <3>1. shown' = IF decided' /\ ~tool_round' THEN shown \o text ELSE shown
            BY <2>2 DEF Delta
        <3>2. shown = <<>>
            BY <1>1, <2>2 DEF AllOrNothing
        <3> QED
            BY <3>1, <3>2, Grows
    <2> QED
        BY <2>1, <2>2
<1>4. HoldTypes'
    <2>1. decided' \in BOOLEAN /\ tool_round' \in BOOLEAN
        BY DEF Delta, HoldTypes, Marked, IsPrefix
    <2>2. shown' \in Seq(Pieces)
        BY <1>2, <1>3, EmptySeq
    <2> QED
        BY <1>1, <2>1, <2>2 DEF HoldTypes
<1>5. decided' => \E k \in 0 .. Len(reply') : DecidedAt(k)'
    <2>1. CASE decided
        <3>1. \E k \in 0 .. Len(reply) : DecidedAt(k)
            BY <1>1, <2>1 DEF AllOrNothing
        <3>2. tool_round' = tool_round
            BY <2>1 DEF Delta
        <3> QED
            BY <3>1, <3>2, <1>1 DEF DecidedAt
    <2>2. CASE ~decided /\ decided'
        <3>1. Enough(text) /\ tool_round' = (equipped /\ Marked(lstrip(text)))
            BY <2>2 DEF Delta
        <3> QED
            BY <3>1, <1>1 DEF DecidedAt
    <2> QED
        BY <2>1, <2>2
<1>6. AllOrNothing'
    BY <1>2, <1>3, <1>5 DEF AllOrNothing
<1>7. ShownInOrder'
    <2>1. IsPrefix(text, text) /\ IsPrefix(<<>>, text)
        BY <1>2, SubSeqEmpty, LenProperties, EmptySeq DEF IsPrefix
    <2> QED
        BY <1>1, <1>2, <1>3, <2>1 DEF ShownInOrder
<1>8. StreamCallsAsSend'
    BY <1>1 DEF StreamCallsAsSend
<1> QED
    BY <1>4, <1>6, <1>7, <1>8

\* The marker is nine characters long, its first half is less.
LEMMA MarkerLength ==
    /\ Length(TOOL_MARKER) = 9
    /\ Length(<<"TOOL_">>) = 5
    /\ Length(<<>>) = 0
<1> DEFINE both == [k \in DOMAIN TOOL_MARKER |-> Chars(TOOL_MARKER[k])]
           half == [k \in DOMAIN <<"TOOL_">> |-> Chars(<<"TOOL_">>[k])]
           none == [k \in DOMAIN <<>> |-> Chars(<<>>[k])]
<1>1. /\ DOMAIN TOOL_MARKER = {1, 2} /\ DOMAIN <<"TOOL_">> = {1}
      /\ TOOL_MARKER[1] = "TOOL_" /\ TOOL_MARKER[2] = "CALL"
    BY DEF TOOL_MARKER
<1>2. /\ DOMAIN both = {1, 2} /\ both[1] = 5 /\ both[2] = 4
      /\ DOMAIN half = {1} /\ half[1] = 5
    BY <1>1 DEF Chars
<1>3. DOMAIN none = {}
    OBVIOUS
<1> HIDE DEF both, half, none
<1>4. /\ IsFiniteSet({}) /\ IsFiniteSet({1})
      /\ {} \cup {1} = {1} /\ {1} \cup {2} = {1, 2}
    BY FS_EmptySet, FS_Singleton
<1>5. SumFunctionOnSet(half, {1}) = 5
    BY <1>2, <1>4, SumAdd, SumEmpty
<1>6. SumFunctionOnSet(both, {1}) = 5
    BY <1>2, <1>4, SumAdd, SumEmpty
<1>7. SumFunctionOnSet(both, {1, 2}) = 9
    BY <1>2, <1>4, <1>6, SumAdd
<1>8. SumFunctionOnSet(none, {}) = 0
    BY SumEmpty
<1> QED
    BY <1>2, <1>3, <1>5, <1>7, <1>8 DEF Length, SumFunction, both, half, none

LEMMA MarkerPieces == "TOOL_" \in Pieces /\ "CALL" \in Pieces
    BY Zenon DEF Pieces

LEMMA MarkedStarts ==
    ASSUME NEW s \in Seq(Pieces)
    PROVE  Marked(s) <=> Len(s) >= 2 /\ s[1] = "TOOL_" /\ s[2] = "CALL"
<1>1. /\ TOOL_MARKER \in Seq(Pieces) /\ Len(TOOL_MARKER) = 2
      /\ TOOL_MARKER[1] = "TOOL_" /\ TOOL_MARKER[2] = "CALL"
    BY MarkerPieces DEF TOOL_MARKER
<1>2. SubSeq(TOOL_MARKER, 1, 2) = TOOL_MARKER
    BY <1>1, SubSeqFull
<1>3. CASE Len(s) >= 2
    <2>1. /\ SubSeq(s, 1, 2) \in Seq(Pieces) /\ Len(SubSeq(s, 1, 2)) = 2
          /\ SubSeq(s, 1, 2)[1] = s[1] /\ SubSeq(s, 1, 2)[2] = s[2]
        BY <1>3, SubSeqProperties, LenProperties
    <2>2. s[1] = "TOOL_" /\ s[2] = "CALL" => SubSeq(s, 1, 2) = TOOL_MARKER
        BY <1>1, <2>1, SeqEqual
    <2> QED
        BY <1>1, <1>2, <1>3, <2>1, <2>2 DEF Marked, IsPrefix
<1>4. CASE ~(Len(s) >= 2)
    BY <1>1, <1>4, LenProperties DEF Marked, IsPrefix
<1> QED
    BY <1>3, <1>4

Space == " "
NewLine == "\n"

\* White space, of which the backend for arithmetic cannot read the names.
LEMMA WhiteSpace ==
    /\ Space \in White /\ NewLine \in White /\ Space # NewLine
    /\ "TOOL_" \notin White /\ "TOOL_" # NewLine /\ "TOOL_" # Space
    BY Zenon DEF White, Space, NewLine

\* A reply that starts with the marker, spaces aside: where it does.
StartsAt(text, b) ==
    /\ b \in 1 .. Len(text) - 1
    /\ text[b] = "TOOL_" /\ text[b + 1] = "CALL"
    /\ \A k \in 1 .. b - 1 : text[k] = Space

Leads(text) == Marked(Strip(text, {" "}))

LEMMA LeadsMeans ==
    ASSUME NEW text
    PROVE  Leads(text) <=> Marked(Strip(text, {Space}))
    BY Zenon DEF Leads, Space

LEMMA EnoughMeans ==
    ASSUME NEW held
    PROVE  Enough(held) <=> \/ Length(lstrip(held)) >= Length(TOOL_MARKER)
                            \/ NewLine \in Range(held)
    BY Zenon DEF Enough, NewLine

LEMMA MarkedStartsAt ==
    ASSUME NEW text \in Seq(Pieces), Leads(text)
    PROVE  \E b \in Nat : StartsAt(text, b)
<1> DEFINE ink == {k \in DOMAIN text : text[k] \notin {Space}}
<1>1. /\ DOMAIN text = 1 .. Len(text) /\ Len(text) \in Nat
      /\ \A k \in 1 .. Len(text) : text[k] \in Pieces
    BY LenProperties
<1>2. /\ ink \in SUBSET Nat /\ ink \subseteq 1 .. Len(text)
      /\ \A k \in 1 .. Len(text) : k \notin ink => text[k] = Space
    BY <1>1
<1>3. Marked(IF ink = {} THEN <<>> ELSE SubSeq(text, Min(ink), Max(ink)))
    BY LeadsMeans DEF Strip
<1>4. ink # {}
    <2>1. <<>> \in Seq(Pieces) /\ Len(<<>>) = 0
        BY EmptySeq
    <2>2. ~Marked(<<>>)
        <3>1. ~(Len(<<>>) >= 2)
            BY <2>1
        <3> QED
            BY <2>1, <3>1, MarkedStarts, Zenon
    <2> HIDE DEF ink
    <2> QED
        BY <2>2, <1>3
<1> HIDE DEF ink
<1>5. /\ Min(ink) \in ink /\ \A k \in ink : Min(ink) <= k
      /\ Max(ink) \in ink
    <2>1. \A k \in ink : k <= Len(text)
        BY <1>1, <1>2
    <2> QED
        BY <1>1, <1>2, <1>4, <2>1, MinIsSmallest, MaxIsLargest
<1>6. PICK b \in ink, e \in ink :
          /\ b <= e /\ \A k \in ink : b <= k
          /\ Marked(SubSeq(text, b, e))
    BY <1>3, <1>4, <1>5
<1>7. /\ b \in 1 .. Len(text) /\ e \in b .. Len(text)
      /\ \A k \in b .. e : text[k] \in Pieces
    BY <1>1, <1>2, <1>6
<1> DEFINE s == SubSeq(text, b, e)
<1>8. /\ s \in Seq(Pieces) /\ Len(s) = e - b + 1
      /\ \A k \in 1 .. e - b + 1 : s[k] = text[b + k - 1]
    BY <1>1, <1>7, SubSeqProperties
<1>9. Marked(s)
    BY <1>6
<1> HIDE DEF s
<1>10. Len(s) >= 2 /\ s[1] = "TOOL_" /\ s[2] = "CALL"
    BY <1>8, <1>9, MarkedStarts
<1>11. /\ b \in 1 .. Len(text) - 1 /\ b \in Nat
       /\ s[1] = text[b] /\ s[2] = text[b + 1]
    BY <1>1, <1>7, <1>8, <1>10
<1>12. \A k \in 1 .. b - 1 : text[k] = Space
    BY <1>1, <1>2, <1>6, <1>7
<1> QED
    BY <1>10, <1>11, <1>12 DEF StartsAt

\* What is left of its first n pieces, white space at their start aside.
LEMMA LeftOf ==
    ASSUME NEW text \in Seq(Pieces), NEW b \in Nat, StartsAt(text, b),
           NEW n \in 0 .. Len(text)
    PROVE  LET held == SubSeq(text, 1, n)
           IN /\ n < b => lstrip(held) = <<>>
              /\ b <= n => /\ lstrip(held) \in Seq(Pieces)
                           /\ Len(lstrip(held)) = n - b + 1
                           /\ \A k \in 1 .. n - b + 1 : lstrip(held)[k] = text[b + k - 1]
              /\ n <= b => NewLine \notin Range(held)
<1> DEFINE held == SubSeq(text, 1, n)
           ink == {k \in DOMAIN held : held[k] \notin White}
<1>1. /\ Len(text) \in Nat /\ n \in Nat /\ n <= Len(text)
      /\ \A k \in 1 .. n : text[k] \in Pieces
    BY LenProperties
<1>2. /\ held \in Seq(Pieces) /\ Len(held) = n /\ DOMAIN held = 1 .. n
      /\ \A k \in 1 .. n : held[k] = text[k]
    <2>1. /\ held \in Seq(Pieces) /\ Len(held) = IF 1 <= n THEN n - 1 + 1 ELSE 0
          /\ \A k \in 1 .. n - 1 + 1 : held[k] = text[1 + k - 1]
        BY <1>1, SubSeqProperties
    <2> HIDE DEF held
    <2>2. Len(held) = n /\ \A k \in 1 .. n : held[k] = text[k]
        BY <1>1, <2>1
    <2> QED
        BY <2>1, <2>2, LenProperties
<1> HIDE DEF held
<1>3. /\ \A k \in 1 .. n : k < b => held[k] = Space
      /\ b <= n => held[b] = "TOOL_"
    BY <1>1, <1>2 DEF StartsAt
<1>4. /\ Space \in White /\ "TOOL_" \notin White
      /\ Space # NewLine /\ "TOOL_" # NewLine
    BY WhiteSpace
<1>5. n <= b => NewLine \notin Range(held)
    BY <1>1, <1>2, <1>3, <1>4 DEF Range
<1>6. /\ ink \in SUBSET Nat /\ ink \subseteq 1 .. n
      /\ \A k \in ink : b <= k
      /\ b <= n => b \in ink
    BY <1>1, <1>2, <1>3, <1>4 DEF StartsAt
<1>7. lstrip(held) = IF ink = {} THEN <<>> ELSE SubSeq(held, Min(ink), n)
    BY <1>2 DEF lstrip
<1> HIDE DEF ink
<1>8. n < b => lstrip(held) = <<>>
    BY <1>1, <1>6, <1>7
<1>9. ASSUME b <= n
      PROVE  lstrip(held) = SubSeq(held, b, n)
    <2>1. Min(ink) \in ink /\ Min(ink) <= b /\ ink # {}
        BY <1>6, <1>9, MinIsSmallest
    <2>2. Min(ink) \in Nat /\ b <= Min(ink)
        BY <1>1, <1>6, <2>1
    <2>3. Min(ink) = b
        BY <2>1, <2>2
    <2> QED
        BY <1>7, <2>1, <2>3
<1>10. ASSUME b <= n
       PROVE  /\ lstrip(held) \in Seq(Pieces)
              /\ Len(lstrip(held)) = n - b + 1
              /\ \A k \in 1 .. n - b + 1 : lstrip(held)[k] = text[b + k - 1]
    <2> DEFINE rest == SubSeq(held, b, n)
    <2>1. \A k \in b .. n : held[k] \in Pieces /\ held[k] = text[k]
        BY <1>1, <1>2 DEF StartsAt
    <2>2. /\ rest \in Seq(Pieces) /\ Len(rest) = n - b + 1
          /\ \A k \in 1 .. n - b + 1 : rest[k] = held[b + k - 1]
        BY <1>1, <1>10, <2>1, SubSeqProperties
    <2> HIDE DEF rest
    <2>3. ASSUME NEW k \in 1 .. n - b + 1
          PROVE  rest[k] = text[b + k - 1]
        <3>1. b + k - 1 \in b .. n
            BY <1>1
        <3> QED
            BY <3>1, <2>1, <2>2
    <2> QED
        BY <1>9, <1>10, <2>2, <2>3 DEF rest
<1> QED
    BY <1>5, <1>8, <1>10 DEF held

\* No part of such a reply is enough to decide without the marker.
LEMMA EnoughShowsMarker ==
    ASSUME NEW text \in Seq(Pieces), Leads(text),
           NEW n \in 0 .. Len(text), Enough(SubSeq(text, 1, n))
    PROVE  Marked(lstrip(SubSeq(text, 1, n)))
<1>1. PICK b \in Nat : StartsAt(text, b)
    BY MarkedStartsAt
<1> DEFINE rest == lstrip(SubSeq(text, 1, n))
<1>2. /\ n < b => rest = <<>>
      /\ b <= n => /\ rest \in Seq(Pieces) /\ Len(rest) = n - b + 1
                   /\ \A k \in 1 .. n - b + 1 : rest[k] = text[b + k - 1]
      /\ n <= b => NewLine \notin Range(SubSeq(text, 1, n))
    BY <1>1, LeftOf
<1>3. Length(rest) >= 9 \/ NewLine \in Range(SubSeq(text, 1, n))
    BY MarkerLength, EnoughMeans
<1>4. Len(text) \in Nat /\ n \in Nat
    BY LenProperties
<1> HIDE DEF rest
<1>5. ~(n < b)
    BY <1>2, <1>3, <1>4, MarkerLength
<1>6. n # b
    <2> SUFFICES ASSUME n = b
                 PROVE  FALSE
        OBVIOUS
    <2>1. /\ rest \in Seq(Pieces) /\ Len(rest) = 1 /\ rest[1] = "TOOL_"
        BY <1>1, <1>2, <1>4 DEF StartsAt
    <2>2. /\ <<"TOOL_">> \in Seq(Pieces) /\ Len(<<"TOOL_">>) = 1
          /\ <<"TOOL_">>[1] = "TOOL_"
        BY MarkerPieces
    <2>3. rest = <<"TOOL_">>
        BY <2>1, <2>2, SeqEqual
    <2> QED
        BY <1>2, <1>3, <1>4, <2>3, MarkerLength
<1>7. /\ rest \in Seq(Pieces) /\ Len(rest) >= 2
      /\ rest[1] = "TOOL_" /\ rest[2] = "CALL"
    <2>1. b < n
        BY <1>4, <1>5, <1>6
    <2>2. 1 \in 1 .. n - b + 1 /\ 2 \in 1 .. n - b + 1 /\ n - b + 1 >= 2
        BY <1>4, <2>1
    <2>3. rest[1] = text[b] /\ rest[2] = text[b + 1]
        BY <1>2, <1>4, <2>1, <2>2
    <2> QED
        BY <1>1, <1>2, <1>4, <2>1, <2>2, <2>3 DEF StartsAt
<1> QED
    BY <1>7, MarkedStarts DEF rest

\* Nor is the whole reply.
LEMMA WholeShowsMarker ==
    ASSUME NEW text \in Seq(Pieces), Leads(text)
    PROVE  Marked(lstrip(text))
<1>1. PICK b \in Nat : StartsAt(text, b)
    BY MarkedStartsAt
<1> DEFINE rest == lstrip(text)
           n == Len(text)
<1>2. /\ n \in Nat /\ n \in 0 .. Len(text) /\ b < n /\ b <= n
      /\ SubSeq(text, 1, n) = text
    <2>1. Len(text) \in Nat /\ SubSeq(text, 1, Len(text)) = text
        BY LenProperties, SubSeqFull
    <2> QED
        BY <1>1, <2>1 DEF StartsAt
<1>3. /\ rest \in Seq(Pieces) /\ Len(rest) = n - b + 1
      /\ \A k \in 1 .. n - b + 1 : rest[k] = text[b + k - 1]
    <2>1. lstrip(SubSeq(text, 1, n)) = rest
        BY <1>2
    <2> HIDE DEF rest, n
    <2> QED
        BY <1>1, <1>2, <2>1, LeftOf
<1> HIDE DEF rest, n
<1>4. 1 \in 1 .. n - b + 1 /\ 2 \in 1 .. n - b + 1 /\ n - b + 1 >= 2
    BY <1>2
<1>5. rest[1] = text[b] /\ rest[2] = text[b + 1]
    BY <1>3, <1>4
<1> QED
    BY <1>1, <1>3, <1>4, <1>5, MarkedStarts DEF StartsAt, rest

LEMMA EndHolds ==
    ASSUME HoldInv, End
    PROVE  HoldInv'
<1> USE DEF HoldInv
<1>1. /\ got = Len(reply) /\ done = "no" /\ tool_round' = IsToolRound
      /\ done' = CASE tool_round' /\ parse_tool_call(reply) = "raises" -> "raised"
                   [] tool_round' /\ parse_tool_call(reply) = "call" /\ ~last -> "called"
                   [] OTHER -> "shown"
      /\ shown' = IF done' = "shown" /\ (decided => tool_round)
                  THEN shown \o reply ELSE shown
      /\ UNCHANGED <<reply, equipped, last, got, decided>>
    BY DEF End
<1>2. /\ done' \in {"shown", "called", "raised"}
      /\ done' \in {"called", "raised"} => IsToolRound
      /\ done' = "called" => ~last /\ parse_tool_call(reply) = "call"
      /\ IsToolRound /\ parse_tool_call(reply) = "call" /\ ~last => done' = "called"
    BY <1>1
<1>3. parse_tool_call(reply) \in {"none", "raises", "call"}
    BY Zenon DEF parse_tool_call
<1>4. Received = reply
    BY <1>1, SubSeqFull DEF Received, HoldTypes
<1>5. /\ IsToolRound \in BOOLEAN
      /\ IsToolRound => equipped
      /\ IsToolRound => shown = <<>>
    <2>1. CASE decided
        <3>1. IsToolRound = tool_round /\ \E n \in 0 .. Len(reply) : DecidedAt(n)
            BY <1>1, <2>1 DEF IsToolRound, AllOrNothing
        <3> QED
            BY <1>1, <2>1, <3>1 DEF DecidedAt, AllOrNothing, HoldTypes
    <2>2. CASE ~decided
        <3>1. IsToolRound = (equipped /\ Marked(lstrip(reply)))
            BY <2>2 DEF IsToolRound
        <3> QED
            BY <1>1, <2>2, <3>1 DEF AllOrNothing, HoldTypes
    <2> QED
        BY <2>1, <2>2
\* A plain round that was decided was shown as it came; of any other nothing was.
<1>11. shown' = IF done' = "shown" THEN reply ELSE shown
    <2>1. CASE decided /\ ~tool_round
        <3>1. shown = reply /\ shown' = shown
            BY <1>1, <1>4, <2>1 DEF AllOrNothing
        <3> QED
            BY <3>1
    <2>2. CASE decided => tool_round
        <3>1. shown = <<>>
            BY <1>1, <2>2 DEF AllOrNothing
        <3>2. <<>> \o reply = reply
            BY ConcatEmptySeq DEF HoldTypes
        <3>3. shown' = IF done' = "shown" THEN shown \o reply ELSE shown
            BY <1>1, <2>2
        <3> QED
            BY <3>1, <3>2, <3>3
    <2> QED
        BY <2>1, <2>2
<1>6. ASSUME equipped, Leads(reply)
      PROVE  IsToolRound
    <2>1. CASE decided
        <3>1. PICK n \in 0 .. Len(reply) : DecidedAt(n)
            BY <1>1, <2>1 DEF AllOrNothing
        <3>2. Marked(lstrip(SubSeq(reply, 1, n)))
            BY <1>6, <3>1, EnoughShowsMarker DEF DecidedAt, HoldTypes
        <3> QED
            BY <1>6, <2>1, <3>1, <3>2 DEF DecidedAt, IsToolRound
    <2>2. CASE ~decided
        BY <1>6, <2>2, WholeShowsMarker DEF IsToolRound, HoldTypes
    <2> QED
        BY <2>1, <2>2
<1>7. HoldTypes'
    <2>1. shown' \in Seq(Pieces)
        BY <1>11 DEF HoldTypes
    <2>2. got' \in 0 .. Len(reply')
        BY <1>1 DEF HoldTypes
    <2>3. done' \in {"no", "shown", "called", "raised"}
        BY <1>2
    <2>4. tool_round' \in BOOLEAN
        BY <1>1, <1>5, Zenon
    <2>5. reply' = reply /\ equipped' = equipped /\ last' = last /\ decided' = decided
        BY <1>1
    <2> QED
        BY <2>1, <2>2, <2>3, <2>4, <2>5 DEF HoldTypes
<1>8. AllOrNothing'
    BY <1>2 DEF AllOrNothing
<1>9. ShownInOrder'
    <2>1. Received' = reply
        BY <1>1, <1>4 DEF Received
    <2>2. IsPrefix(reply, reply) /\ IsPrefix(<<>>, reply)
        BY LenProperties, EmptySeq, SubSeqEmpty DEF HoldTypes, IsPrefix
    <2>3. done' \in {"called", "raised"} => shown' = <<>>
        BY <1>2, <1>5, <1>11
    <2>4. reply' = reply
        BY <1>1
    <2> QED
        BY <1>2, <1>11, <2>1, <2>2, <2>3, <2>4 DEF ShownInOrder
<1>10. StreamCallsAsSend'
    <2>1. done' = "called" => SendCalls
        BY <1>2, <1>3, <1>5 DEF SendCalls
    <2>2. SendCalls /\ Prompted => done' = "called"
        BY <1>2, <1>6 DEF SendCalls, Prompted, Leads
    <2>3. SendCalls' = SendCalls /\ Prompted' = Prompted
        BY <1>1 DEF SendCalls, Prompted
    <2> QED
        BY <2>1, <2>2, <2>3, Zenon DEF StreamCallsAsSend
<1> QED
    BY <1>7, <1>8, <1>9, <1>10

\* What is shown of a streamed reply, and what is executed of it.
THEOREM HoldInvariant == HoldSpec => []HoldInv
<1>1. HoldInv /\ [HoldNext]_holdVars => HoldInv'
    <2> SUFFICES ASSUME HoldInv, [HoldNext]_holdVars
                 PROVE  HoldInv'
        OBVIOUS
    <2>1. CASE HoldNext
        BY <2>1, DeltaHolds, EndHolds DEF HoldNext
    <2>2. CASE UNCHANGED holdVars
        BY <2>2 DEF holdVars, HoldInv, HoldTypes, AllOrNothing, DecidedAt, Received,
           ShownInOrder, StreamCallsAsSend, SendCalls, Prompted
    <2> QED
        BY <2>1, <2>2
<1> QED
    BY <1>1, InitHolds, PTL DEF HoldSpec

\* However send_stream() gets a reply cut, the client has a prefix of it, all
\* of it when it is shown, and nothing of one that was executed.
THEOREM StreamShowsInOrder == HoldSpec => []ShownInOrder
    BY HoldInvariant, PTL DEF HoldInv

\* A stream executes only what send() would, and whatever is as the prompt
\* asks for, for every reply and every way to cut it.
THEOREM StreamExecutesAsSend == HoldSpec => []StreamCallsAsSend
    BY HoldInvariant, PTL DEF HoldInv

-----------------------------------------------------------------------------
\* ContextWindow.

Rows == [role : {"user", "tool", "assistant"}, length : Nat, prompt_tokens : Nat]

WindowTypes ==
    /\ history \in Seq(Rows) /\ turn \in {"idle", "building", "sent"}
    /\ i \in 0 .. Len(history) /\ remaining \in Int /\ kept \in Seq(Nat)
    /\ sender \in 0 .. Len(history)
    /\ sender # 0 => history[sender].role # "tool"
    /\ turn # "idle" => sender # 0

\* What the walk back has kept and charged for when it is at row i.
Walked ==
    turn # "idle" =>
        /\ Range(kept) = NewestFrom(i + 1)
        /\ \A m, n \in DOMAIN kept : m < n => kept[m] < kept[n]
        /\ remaining = Room - Charged(NewestFrom(i + 1))
        /\ Range(kept) \subseteq Affordable

\* Why it stopped there.
Stopped ==
    turn = "sent" /\ i > 0 =>
        i \in Talk /\ kept # <<>> /\ Charged(NewestFrom(i)) > Room

WindowInv == WindowTypes /\ Walked /\ Stopped

LEMMA EstimateTyped ==
    ASSUME NEW n \in Nat
    PROVE  estimate_tokens(n) \in Nat
<1>1. n \div 4 \in Nat
    OBVIOUS
<1> DEFINE q == n \div 4
<1> HIDE DEF q
<1>2. {1, q} \in SUBSET Nat /\ q + 1 \in Nat /\ \A m \in {1, q} : m <= q + 1
    BY <1>1 DEF q
<1>3. Max({1, q}) \in {1, q}
    BY <1>2, MaxIsLargest
<1> QED
    BY <1>2, <1>3 DEF estimate_tokens, q

\* Rows are finite in number and each costs a number of tokens.
LEMMA RowsTyped ==
    ASSUME WindowTypes
    PROVE  /\ Len(history) \in Nat /\ DOMAIN history = 1 .. Len(history)
           /\ Talk \in SUBSET (1 .. Len(history)) /\ IsFiniteSet(1 .. Len(history))
           /\ \A k \in 1 .. Len(history) :
                 /\ history[k] \in Rows
                 /\ Costs[k] = Cost(history[k]) /\ Costs[k] \in Nat
                 /\ Estimates[k] \in Nat
<1>1. /\ Len(history) \in Nat /\ DOMAIN history = 1 .. Len(history)
      /\ \A k \in 1 .. Len(history) : history[k] \in Rows
    BY LenProperties DEF WindowTypes
<1>2. IsFiniteSet(1 .. Len(history))
    BY <1>1, FS_Interval
<1>3. ASSUME NEW k \in 1 .. Len(history)
      PROVE  /\ Costs[k] = Cost(history[k]) /\ Costs[k] \in Nat
             /\ Estimates[k] \in Nat
    <2>1. history[k].length \in Nat /\ history[k].prompt_tokens \in Nat
        BY <1>1 DEF Rows
    <2>2. estimate_tokens(history[k].length) \in Nat
        BY <2>1, EstimateTyped
    <2> QED
        BY <1>1, <2>1, <2>2 DEF Costs, Estimates, Cost
<1> QED
    BY <1>1, <1>2, <1>3 DEF Talk

LEMMA ChargesTyped ==
    ASSUME WindowTypes, NEW k \in Nat
    PROVE  /\ NewestFrom(k) \in SUBSET Talk /\ IsFiniteSet(NewestFrom(k))
           /\ Charged(NewestFrom(k)) \in Nat
           /\ \A m \in Nat : m <= k => Charged(NewestFrom(k)) <= Charged(NewestFrom(m))
<1>1. NewestFrom(k) \in SUBSET Talk /\ Talk \in SUBSET (1 .. Len(history))
    BY RowsTyped DEF NewestFrom
<1>2. \A S \in SUBSET Talk : IsFiniteSet(S) /\ \A x \in S : Costs[x] \in Nat
    BY RowsTyped, FS_Subset
<1>3. \A S \in SUBSET Talk : Charged(S) \in Nat /\ \A T \in SUBSET S : Charged(T) <= Charged(S)
    BY <1>2, SumMonotone DEF Charged
<1>4. ASSUME NEW m \in Nat, m <= k
      PROVE  NewestFrom(k) \subseteq NewestFrom(m) /\ NewestFrom(m) \in SUBSET Talk
    <2>1. NewestFrom(m) \in SUBSET Talk
        BY DEF NewestFrom
    <2>2. ASSUME NEW j \in NewestFrom(k)
          PROVE  j \in NewestFrom(m)
        <3>1. j \in Talk /\ j \in Nat /\ j >= k
            BY <1>1, RowsTyped DEF NewestFrom
        <3>2. j >= m
            BY <1>4, <3>1
        <3> QED
            BY <3>1, <3>2 DEF NewestFrom
    <2> QED
        BY <2>1, <2>2
<1> QED
    BY <1>1, <1>2, <1>3, <1>4

LEMMA RoomTyped == Room \in Int
    BY EstimateTyped, WindowAssumption DEF Room

\* One row further back there is one row more, unless it is a tool's.
LEMMA OneMore ==
    ASSUME WindowTypes, i > 0
    PROVE  /\ i \notin Talk => NewestFrom(i) = NewestFrom(i + 1)
           /\ i \in Talk =>
                 /\ NewestFrom(i) = NewestFrom(i + 1) \cup {i}
                 /\ Charged(NewestFrom(i)) = Cost(history[i]) + Charged(NewestFrom(i + 1))
<1>1. i \in 1 .. Len(history) /\ i \in Nat /\ i + 1 \in Nat /\ Talk \in SUBSET Nat
    BY RowsTyped DEF WindowTypes
<1>2. ASSUME NEW j \in Talk
      PROVE  /\ j >= i <=> j = i \/ j >= i + 1
             /\ j >= i + 1 => j # i
    <2>1. j \in Nat
        BY <1>1
    <2> QED
        BY <1>1, <2>1
<1>3. /\ i \notin Talk => NewestFrom(i) = NewestFrom(i + 1)
      /\ i \in Talk => NewestFrom(i) = NewestFrom(i + 1) \cup {i}
      /\ i \notin NewestFrom(i + 1)
    BY <1>2, Zenon DEF NewestFrom
<1>4. /\ IsFiniteSet(NewestFrom(i + 1))
      /\ \A y \in NewestFrom(i + 1) \cup {i} : Costs[y] \in Int
      /\ Costs[i] = Cost(history[i])
    <2>1. IsFiniteSet(NewestFrom(i + 1)) /\ NewestFrom(i + 1) \subseteq Talk
        BY <1>1, ChargesTyped
    <2>2. \A y \in NewestFrom(i + 1) \cup {i} : y \in 1 .. Len(history)
        BY <1>1, <2>1, RowsTyped
    <2> QED
        BY <1>1, <2>1, <2>2, RowsTyped
<1>5. SumFunctionOnSet(Costs, NewestFrom(i + 1) \cup {i})
          = Costs[i] + SumFunctionOnSet(Costs, NewestFrom(i + 1))
    BY <1>3, <1>4, SumAdd
<1> QED
    BY <1>3, <1>4, <1>5 DEF Charged

\* A longer context would not fit, once the walk has stopped.
LEMMA StoppedAtLongest ==
    ASSUME WindowInv, turn = "sent"
    PROVE  Affordable = NewestFrom(i + 1) /\ NewestFrom(i + 1) # {}
<1> USE DEF WindowInv
<1>1. /\ i \in Nat /\ i + 1 \in Nat /\ Talk \in SUBSET Nat /\ Len(history) \in Nat
      /\ \A m \in Talk : m <= Len(history) /\ m >= 1
    BY RowsTyped DEF WindowTypes
<1>2. sender \in Talk
    BY RowsTyped DEF WindowTypes, Talk
<1>3. /\ Max(Talk) \in Talk /\ \A m \in Talk : m <= Max(Talk)
    BY <1>1, <1>2, MaxIsLargest
<1>4. NewestFrom(i + 1) \subseteq Affordable
    BY DEF Walked
<1>5. NewestFrom(i + 1) # {}
    <2>1. CASE i = 0
        BY <1>1, <1>2, <2>1 DEF NewestFrom
    <2>2. CASE i > 0
        <3>1. kept # <<>> /\ kept \in Seq(Nat)
            BY <2>2 DEF Stopped, WindowTypes
        <3>2. 1 \in DOMAIN kept
            BY <3>1, LenProperties, EmptySeq
        <3>3. Range(kept) # {}
            BY <3>2 DEF Range
        <3> QED
            BY <3>3 DEF Walked
    <2> QED
        BY <1>1, <2>1, <2>2
<1>6. ASSUME NEW k \in Affordable, k < i + 1
      PROVE  FALSE
    <2>1. k \in Talk /\ k \in Nat /\ k <= i /\ i > 0
        BY <1>1, <1>6 DEF Affordable
    <2>2. PICK m \in NewestFrom(i + 1) : TRUE
        BY <1>5
    <2>3. k # Max(Talk)
        <3>1. m \in Talk /\ m >= i + 1
            BY <2>2 DEF NewestFrom
        <3> HIDE DEF Talk
        <3> QED
            BY <1>1, <1>3, <2>1, <3>1
    <2>4. Charged(NewestFrom(k)) <= Room
        BY <2>3 DEF Affordable
    <2>5. Charged(NewestFrom(i)) > Room
        BY <2>1 DEF Stopped
    <2>6. Charged(NewestFrom(i)) <= Charged(NewestFrom(k))
        BY <1>1, <2>1, ChargesTyped
    <2>7. Charged(NewestFrom(i)) \in Nat /\ Charged(NewestFrom(k)) \in Nat
        BY <1>1, <2>1, ChargesTyped
    <2> QED
        BY <2>4, <2>5, <2>6, <2>7, RoomTyped
<1>7. ASSUME NEW k \in Affordable
      PROVE  k \in NewestFrom(i + 1)
    <2>1. k \in Talk /\ k \in Nat /\ ~(k < i + 1)
        BY <1>1, <1>6 DEF Affordable
    <2>2. k >= i + 1
        BY <1>1, <2>1
    <2> QED
        BY <2>1, <2>2 DEF NewestFrom
<1> QED
    BY <1>4, <1>5, <1>7

LEMMA LongestIsSent ==
    ASSUME WindowInv
    PROVE  WindowIsLongest
<1> SUFFICES ASSUME turn = "sent"
             PROVE  /\ Range(kept) = NewestFrom(Min(Affordable))
                    /\ \A m, n \in DOMAIN kept : m < n => kept[m] < kept[n]
    BY DEF WindowIsLongest
<1> DEFINE run == NewestFrom(i + 1)
<1>1. Affordable = run /\ run # {}
    BY StoppedAtLongest
<1>2. /\ Talk \in SUBSET Nat /\ run \in SUBSET Nat
      /\ run = {j \in Talk : j >= i + 1} /\ i \in Nat
    BY RowsTyped DEF NewestFrom, WindowInv, WindowTypes
<1> HIDE DEF run
<1>3. Min(run) \in run /\ \A m \in run : Min(run) <= m
    BY <1>1, <1>2, MinIsSmallest
<1>4. \A j \in Talk : j >= Min(run) <=> j \in run
    BY <1>2, <1>3
<1>5. NewestFrom(Min(run)) = run
    BY <1>2, <1>4 DEF NewestFrom
<1> QED
    BY <1>1, <1>5 DEF WindowInv, Walked, run

LEMMA QuestionIsSent ==
    ASSUME WindowInv
    PROVE  OwnQuestionSent
<1> SUFFICES ASSUME turn = "sent",
                    \A k \in DOMAIN history : k > sender => history[k].role = "tool"
             PROVE  sender \in Range(kept)
    BY DEF OwnQuestionSent
<1>1. /\ i \in Nat /\ sender \in Nat /\ sender \in Talk /\ Talk \in SUBSET Nat
      /\ Range(kept) = NewestFrom(i + 1) /\ NewestFrom(i + 1) # {}
    BY StoppedAtLongest, RowsTyped DEF WindowInv, WindowTypes, Walked, Talk
<1>2. PICK m \in Talk : m >= i + 1
    BY <1>1 DEF NewestFrom
<1>3. ~(m > sender)
    BY <1>2 DEF Talk
<1>4. sender >= i + 1
    <2> HIDE DEF Talk
    <2> QED
        BY <1>1, <1>2, <1>3
<1> QED
    BY <1>1, <1>4 DEF NewestFrom

LEMMA WindowInitHolds == WindowInit => WindowInv
<1> SUFFICES ASSUME WindowInit
             PROVE  WindowInv
    OBVIOUS
<1>1. <<>> \in Seq(Rows) /\ <<>> \in Seq(Nat) /\ Len(<<>>) = 0
    BY EmptySeq
<1> QED
    BY <1>1 DEF WindowInit, WindowInv, WindowTypes, Walked, Stopped

LEMMA RowAppended ==
    ASSUME WindowTypes, NEW row \in Rows, history' = Append(history, row)
    PROVE  /\ history' \in Seq(Rows) /\ Len(history') = Len(history) + 1
           /\ Len(history) \in Nat
           /\ history'[Len(history')] = row
           /\ \A k \in 1 .. Len(history) : history'[k] = history[k]
    BY AppendProperties, LenProperties DEF WindowTypes

\* While the rows stay the same, so does what is said of them.
LEMMA SameRows ==
    ASSUME history' = history
    PROVE  /\ Talk' = Talk /\ Costs' = Costs /\ Estimates' = Estimates
           /\ Affordable' = Affordable
<1>1. Talk' = Talk /\ Costs' = Costs /\ Estimates' = Estimates /\ Room' = Room
    BY DEF Talk, Costs, Estimates, Room
<1> QED
    BY <1>1 DEF Affordable, Charged, NewestFrom

LEMMA SameRowsFrom ==
    ASSUME history' = history
    PROVE  /\ NewestFrom(i' + 1) = NewestFrom(i + 1)'
           /\ Charged(NewestFrom(i' + 1)) = Charged(NewestFrom(i + 1))'
           /\ Charged(NewestFrom(i')) = Charged(NewestFrom(i))'
    BY SameRows DEF NewestFrom, Charged

\* The sender after a row was appended: none, the same, or the one who asked.
SenderMoves(row) ==
    sender' \in {0, sender} \/ (sender' = Len(history') /\ row.role = "user")

LEMMA TypesKept ==
    ASSUME WindowTypes, NEW row \in Rows, history' = Append(history, row),
           turn' = "idle", UNCHANGED <<i, remaining, kept>>, SenderMoves(row)
    PROVE  WindowTypes'
<1>1. /\ history' \in Seq(Rows) /\ Len(history') = Len(history) + 1
      /\ history'[Len(history')] = row
      /\ \A k \in 1 .. Len(history) : history'[k] = history[k]
    BY RowAppended
<1>2. Len(history) \in Nat /\ i \in Nat /\ sender \in Nat
    BY LenProperties DEF WindowTypes
<1>3. i' \in 0 .. Len(history') /\ sender' \in 0 .. Len(history')
    BY <1>1, <1>2 DEF WindowTypes, SenderMoves
<1>4. sender' # 0 => history'[sender'].role # "tool"
    BY <1>1, <1>2 DEF WindowTypes, SenderMoves
<1> QED
    BY <1>1, <1>3, <1>4 DEF WindowTypes

LEMMA ReportedTyped ==
    ASSUME NEW least \in Nat
    PROVE  Reported(least) \subseteq Nat
    BY WindowAssumption DEF Reported

LEMMA AppendsHold ==
    ASSUME WindowInv, Ask \/ OtherRow \/ AnswerRow
    PROVE  WindowInv'
<1> USE DEF WindowInv
<1>1. turn' = "idle" /\ UNCHANGED <<i, remaining, kept>>
    BY DEF Ask, OtherRow, AnswerRow
<1>2. Len(history) \in Nat /\ i \in Nat /\ sender \in Nat
    BY LenProperties DEF WindowTypes
<1>3. WindowTypes'
    <2>1. ASSUME NEW row \in Rows, history' = Append(history, row), SenderMoves(row)
          PROVE  WindowTypes'
        BY <1>1, <2>1, TypesKept
    <2>2. CASE Ask
        <3>1. PICK length \in Lengths : Append1("user", length, 0)
            BY <2>2 DEF Ask
        <3>2. [role |-> "user", length |-> length, prompt_tokens |-> 0] \in Rows
            BY WindowAssumption DEF Rows
        <3> QED
            BY <2>1, <2>2, <3>1, <3>2 DEF Ask, Append1, SenderMoves
    <2>3. CASE OtherRow
        <3>0. Reported(estimate_tokens(System)) \subseteq Nat
            BY EstimateTyped, ReportedTyped, WindowAssumption
        <3>1. PICK role \in {"user", "tool", "assistant"}, length \in Lengths,
                   reported \in Nat : Append1(role, length, reported)
            BY <2>3, <3>0 DEF OtherRow
        <3> DEFINE new == [role |-> role, length |-> length, prompt_tokens |-> reported]
        <3>2. new \in Rows
            BY WindowAssumption DEF Rows
        <3>3. history' = Append(history, new) /\ sender' = sender
            BY <2>3, <3>1 DEF OtherRow, Append1
        <3>4. SenderMoves(new)
            BY <3>3 DEF SenderMoves
        <3> HIDE DEF new
        <3> QED
            BY <2>1, <3>2, <3>3, <3>4
    <2>4. CASE AnswerRow
        <3>1. sender' = 0
            BY <2>4 DEF AnswerRow
        <3>2. CASE UNCHANGED history
            BY <1>1, <3>1, <3>2, <1>2 DEF WindowTypes
        <3>3. CASE \E length \in Lengths, reported \in Reported(Sent) :
                       Append1("assistant", length, reported)
            <4>1. PICK length \in Lengths, reported \in Reported(Sent) :
                      Append1("assistant", length, reported)
                BY <3>3
            <4>2. Sent \in Nat
                <5>1. /\ i + 1 \in Nat /\ turn = "sent"
                      /\ Range(kept) = NewestFrom(i + 1)
                    BY <1>2, <2>4 DEF AnswerRow, Walked
                <5>2. IsFiniteSet(Range(kept)) /\ Range(kept) \subseteq 1 .. Len(history)
                    BY <5>1, ChargesTyped, RowsTyped
                <5>3. \A x \in Range(kept) : Estimates[x] \in Nat
                    BY <5>2, RowsTyped
                <5>4. SumFunctionOnSet(Estimates, Range(kept)) \in Nat
                    BY <5>2, <5>3, SumMonotone
                <5> QED
                    BY <5>4, EstimateTyped, WindowAssumption DEF Sent
            <4> DEFINE new == [role |-> "assistant", length |-> length,
                               prompt_tokens |-> reported]
            <4>3. new \in Rows
                BY <4>2, ReportedTyped, WindowAssumption DEF Rows
            <4>4. history' = Append(history, new)
                BY <4>1 DEF Append1
            <4>5. SenderMoves(new)
                BY <3>1 DEF SenderMoves
            <4> HIDE DEF new
            <4> QED
                BY <2>1, <4>3, <4>4, <4>5
        <3> QED
            BY <2>4, <3>2, <3>3 DEF AnswerRow
    <2> QED
        BY <2>2, <2>3, <2>4
<1> QED
    BY <1>1, <1>3 DEF Walked, Stopped

LEMMA StartHolds ==
    ASSUME WindowInv, Start
    PROVE  WindowInv'
<1> USE DEF WindowInv
<1>1. /\ turn' = "building" /\ i' = Len(history) /\ kept' = <<>>
      /\ remaining' = Room /\ history' = history /\ sender' = sender
      /\ sender # 0 /\ Len(history) \in Nat
    BY LenProperties DEF Start, Room, WindowTypes
<1>2. WindowTypes'
    BY <1>1, EmptySeq, RoomTyped DEF WindowTypes
<1>3. NewestFrom(i' + 1) = {}
    <2>1. \A k \in Talk : ~(k >= Len(history) + 1)
        <3>1. \A k \in Talk : k \in Nat /\ k <= Len(history)
            BY <1>1, RowsTyped
        <3> QED
            BY <1>1, <3>1
    <2> QED
        BY <1>1, <2>1 DEF NewestFrom
<1>4. Range(kept') = {} /\ DOMAIN kept' = {}
    BY <1>1 DEF Range
<1>5. Charged({}) = 0
    BY SumEmpty DEF Charged
<1>6. NewestFrom(i + 1)' = {} /\ Charged(NewestFrom(i + 1))' = 0 /\ Room' = Room
    BY <1>1, <1>3, <1>5, SameRowsFrom DEF Room
<1>7. Walked'
    <2>1. /\ Range(kept)' = NewestFrom(i + 1)' /\ Range(kept)' = {}
          /\ DOMAIN kept' = {}
        BY <1>4, <1>6
    <2>2. remaining' = Room' - Charged(NewestFrom(i + 1))'
        BY <1>1, <1>6, RoomTyped
    <2> QED
        BY <2>1, <2>2 DEF Walked
<1> QED
    BY <1>1, <1>2, <1>7 DEF Stopped

LEMMA SkipHolds ==
    ASSUME WindowInv, Skip
    PROVE  WindowInv'
<1> USE DEF WindowInv
<1>1. /\ turn = "building" /\ i > 0 /\ i' = i - 1 /\ history[i].role = "tool"
      /\ UNCHANGED <<history, turn, remaining, kept, sender>>
    BY DEF Skip
<1>2. i \in Nat /\ Len(history) \in Nat /\ i <= Len(history) /\ i - 1 \in Nat /\ i' + 1 = i
    BY <1>1, RowsTyped DEF WindowTypes
<1>3. NewestFrom(i) = NewestFrom(i + 1)
    <2>1. i \notin Talk
        BY <1>1 DEF Talk
    <2> QED
        BY <1>1, <2>1, OneMore
<1>4. /\ NewestFrom(i + 1)' = NewestFrom(i + 1)
      /\ Charged(NewestFrom(i + 1))' = Charged(NewestFrom(i + 1))
      /\ Affordable' = Affordable /\ Room' = Room
    BY <1>1, <1>2, <1>3, SameRows, SameRowsFrom DEF Room
<1>5. WindowTypes'
    BY <1>1, <1>2 DEF WindowTypes
<1>6. Walked'
    BY <1>1, <1>4 DEF Walked
<1> QED
    BY <1>1, <1>5, <1>6 DEF Stopped

LEMMA StopHolds ==
    ASSUME WindowInv, Stop
    PROVE  WindowInv'
<1> USE DEF WindowInv
<1>1. /\ turn = "building" /\ turn' = "sent"
      /\ i > 0 => history[i].role # "tool" /\ ~Fits(history[i])
      /\ UNCHANGED <<history, i, remaining, kept, sender>>
    BY DEF Stop
<1>2. WindowTypes'
    BY <1>1 DEF WindowTypes
<1>3. Walked'
    <2>1. /\ NewestFrom(i + 1)' = NewestFrom(i + 1)
          /\ Charged(NewestFrom(i + 1))' = Charged(NewestFrom(i + 1))
          /\ Affordable' = Affordable /\ Room' = Room
        BY <1>1, SameRows, SameRowsFrom DEF Room
    <2> QED
        BY <1>1, <2>1 DEF Walked
<1>4. ASSUME i > 0
      PROVE  i \in Talk /\ kept # <<>> /\ Charged(NewestFrom(i)) > Room
    <2>1. history[i].role # "tool" /\ ~(remaining - Cost(history[i]) >= 0) /\ kept # <<>>
        BY <1>1, <1>4 DEF Fits
    <2>2. i \in Nat /\ i \in 1 .. Len(history) /\ i + 1 \in Nat
        BY <1>4, RowsTyped DEF WindowTypes
    <2>3. i \in Talk
        BY <2>1, <2>2, RowsTyped DEF Talk
    <2>4. Charged(NewestFrom(i)) = Cost(history[i]) + Charged(NewestFrom(i + 1))
        BY <1>4, <2>3, OneMore
    <2>5. remaining = Room - Charged(NewestFrom(i + 1))
        BY <1>1 DEF Walked
    <2>6. Charged(NewestFrom(i + 1)) \in Nat /\ Cost(history[i]) \in Nat /\ Room \in Int
        BY <2>2, ChargesTyped, RowsTyped, RoomTyped
    <2> QED
        BY <2>1, <2>3, <2>4, <2>5, <2>6
<1>5. Stopped'
    <2>1. Charged(NewestFrom(i))' = Charged(NewestFrom(i)) /\ Talk' = Talk /\ Room' = Room
        BY <1>1, SameRows, SameRowsFrom DEF Room
    <2> QED
        BY <1>1, <1>4, <2>1 DEF Stopped
<1> QED
    BY <1>2, <1>3, <1>5

LEMMA KeepHolds ==
    ASSUME WindowInv, Keep
    PROVE  WindowInv'
<1> USE DEF WindowInv
<1>1. /\ turn = "building" /\ i > 0 /\ history[i].role # "tool" /\ Fits(history[i])
      /\ remaining' = remaining - Cost(history[i])
      /\ kept' = <<i>> \o kept /\ i' = i - 1
      /\ UNCHANGED <<history, turn, sender>>
    BY DEF Keep
<1>2. /\ i \in Nat /\ i \in 1 .. Len(history) /\ i + 1 \in Nat
      /\ i - 1 \in 0 .. Len(history) /\ i' + 1 = i
    BY <1>1, RowsTyped DEF WindowTypes
<1>3. i \in Talk
    BY <1>1, <1>2, RowsTyped DEF Talk
<1>4. /\ NewestFrom(i) = NewestFrom(i + 1) \cup {i}
      /\ Charged(NewestFrom(i)) = Cost(history[i]) + Charged(NewestFrom(i + 1))
    BY <1>1, <1>3, OneMore
<1>5. /\ Charged(NewestFrom(i + 1)) \in Nat /\ Cost(history[i]) \in Nat /\ Room \in Int
      /\ remaining = Room - Charged(NewestFrom(i + 1))
    BY <1>1, <1>2, ChargesTyped, RowsTyped, RoomTyped DEF Walked
<1>6. /\ kept \in Seq(Nat) /\ Len(kept) \in Nat /\ DOMAIN kept = 1 .. Len(kept)
      /\ kept' \in Seq(Nat) /\ Len(kept') = Len(kept) + 1
      /\ DOMAIN kept' = 1 .. Len(kept) + 1
      /\ kept'[1] = i /\ \A n \in 2 .. Len(kept) + 1 : kept'[n] = kept[n - 1]
    <2>1. <<i>> \in Seq(Nat) /\ Len(<<i>>) = 1 /\ <<i>>[1] = i /\ kept \in Seq(Nat)
        BY <1>2 DEF WindowTypes
    <2> DEFINE one == <<i>>
    <2>2. /\ one \o kept \in Seq(Nat) /\ Len(one \o kept) = Len(one) + Len(kept)
          /\ \A n \in 1 .. Len(one) + Len(kept) :
                (one \o kept)[n] = IF n <= Len(one) THEN one[n] ELSE kept[n - Len(one)]
        <3> HIDE DEF one
        <3> QED
            BY <2>1, ConcatProperties DEF one
    <2>3. kept' = one \o kept /\ Len(one) = 1 /\ one[1] = i
        BY <1>1, <2>1
    <2> HIDE DEF one
    <2>4. Len(kept) \in Nat /\ DOMAIN kept = 1 .. Len(kept)
        BY <2>1, LenProperties
    <2>5. /\ kept' \in Seq(Nat) /\ Len(kept') = Len(kept) + 1
          /\ DOMAIN kept' = 1 .. Len(kept) + 1
        BY <2>2, <2>3, <2>4, LenProperties
    <2>6. kept'[1] = i /\ \A n \in 2 .. Len(kept) + 1 : kept'[n] = kept[n - 1]
        BY <2>2, <2>3, <2>4
    <2> QED
        BY <2>1, <2>4, <2>5, <2>6
<1>7. Range(kept') = NewestFrom(i)
    <2>1. Range(kept) = NewestFrom(i + 1)
        BY <1>1 DEF Walked
    <2>2. ASSUME NEW x \in Range(kept')
          PROVE  x \in Range(kept) \cup {i}
        <3>1. PICK n \in 1 .. Len(kept) + 1 : x = kept'[n]
            BY <1>6 DEF Range
        <3>2. CASE n = 1
            BY <1>6, <3>1, <3>2
        <3>3. CASE n # 1
            <4>1. n \in 2 .. Len(kept) + 1 /\ n - 1 \in 1 .. Len(kept)
                BY <1>6, <3>3
            <4> QED
                BY <1>6, <3>1, <4>1 DEF Range
        <3> QED
            BY <3>2, <3>3
    <2>3. ASSUME NEW x \in Range(kept) \cup {i}
          PROVE  x \in Range(kept')
        <3>1. CASE x = i
            <4>1. 1 \in DOMAIN kept' /\ kept'[1] = i
                BY <1>6
            <4> QED
                BY <3>1, <4>1 DEF Range
        <3>2. CASE x \in Range(kept)
            <4>1. PICK n \in 1 .. Len(kept) : x = kept[n]
                BY <1>6, <3>2 DEF Range
            <4>2. PICK m \in 2 .. Len(kept) + 1 : m - 1 = n
                <5>1. n + 1 \in 2 .. Len(kept) + 1 /\ n + 1 - 1 = n
                    BY <1>6
                <5> QED
                    BY <5>1
            <4>3. kept'[m] = kept[m - 1]
                BY <1>6
            <4>4. x = kept'[m]
                BY <4>1, <4>2, <4>3
            <4>5. m \in DOMAIN kept'
                BY <1>6
            <4> QED
                BY <4>4, <4>5 DEF Range
        <3> QED
            BY <3>1, <3>2
    <2> QED
        BY <1>4, <2>1, <2>2, <2>3
<1>8. \A m, n \in DOMAIN kept' : m < n => kept'[m] < kept'[n]
    <2> SUFFICES ASSUME NEW m \in 1 .. Len(kept) + 1, NEW n \in 1 .. Len(kept) + 1, m < n
                 PROVE  kept'[m] < kept'[n]
        BY <1>6
    <2>1. n \in 2 .. Len(kept) + 1 /\ n - 1 \in 1 .. Len(kept) /\ kept'[n] = kept[n - 1]
        BY <1>6
    <2>2. CASE m = 1
        <3>1. kept[n - 1] \in NewestFrom(i + 1)
            BY <1>1, <1>6, <2>1 DEF Walked, Range
        <3>2. kept[n - 1] \in Nat /\ kept[n - 1] >= i + 1
            BY <1>6, <2>1, <3>1 DEF NewestFrom
        <3> QED
            BY <1>2, <1>6, <2>1, <2>2, <3>2
    <2>3. CASE m # 1
        <3>1. /\ m \in 2 .. Len(kept) + 1 /\ m - 1 \in 1 .. Len(kept) /\ m - 1 < n - 1
              /\ kept'[m] = kept[m - 1]
            BY <1>6, <2>3
        <3>2. kept[m - 1] < kept[n - 1]
            BY <1>1, <1>6, <2>1, <3>1 DEF Walked
        <3> QED
            BY <2>1, <3>1, <3>2
    <2> QED
        BY <2>2, <2>3
<1>9. i \in Affordable
    <2>1. CASE remaining - Cost(history[i]) >= 0
        <3>1. Charged(NewestFrom(i)) <= Room
            BY <1>4, <1>5, <2>1
        <3> QED
            BY <1>3, <3>1 DEF Affordable
    <2>2. CASE kept = <<>>
        <3>1. NewestFrom(i + 1) = {}
            BY <1>1, <2>2 DEF Walked, Range
        <3>2. \A m \in Talk : m \in Nat /\ m <= i
            <4>1. Talk \in SUBSET Nat /\ \A m \in Talk : ~(m >= i + 1)
                BY <3>1, RowsTyped DEF NewestFrom
            <4> HIDE DEF Talk
            <4> QED
                BY <1>2, <4>1
        <3>3. Max(Talk) \in Talk /\ i <= Max(Talk)
            BY <1>2, <1>3, <3>2, MaxIsLargest
        <3>4. i = Max(Talk)
            BY <1>2, <3>2, <3>3
        <3> QED
            BY <1>3, <3>4 DEF Affordable
    <2> QED
        BY <1>1, <2>1, <2>2 DEF Fits
<1>10. /\ NewestFrom(i + 1)' = NewestFrom(i)
       /\ Charged(NewestFrom(i + 1))' = Charged(NewestFrom(i))
       /\ Affordable' = Affordable /\ Room' = Room
    BY <1>1, <1>2, SameRows, SameRowsFrom DEF Room
<1>11. NewestFrom(i) \subseteq Affordable
    BY <1>1, <1>4, <1>9 DEF Walked
<1>12. WindowTypes'
    BY <1>1, <1>2, <1>5, <1>6 DEF WindowTypes
<1>13. Walked'
    <2>1. remaining' = Room - Charged(NewestFrom(i))
        BY <1>1, <1>4, <1>5
    <2> QED
        BY <1>7, <1>8, <1>10, <1>11, <2>1 DEF Walked
<1> QED
    BY <1>1, <1>12, <1>13 DEF Stopped

\* What a context holds, over the life of a conversation.
THEOREM WindowInvariant == WindowSpec => []WindowInv
<1>1. WindowInv /\ [WindowNext]_windowVars => WindowInv'
    <2> SUFFICES ASSUME WindowInv, [WindowNext]_windowVars
                 PROVE  WindowInv'
        OBVIOUS
    <2>1. CASE WindowNext
        BY <2>1, AppendsHold, StartHolds, SkipHolds, KeepHolds, StopHolds DEF WindowNext
    <2>2. CASE UNCHANGED windowVars
        <3>1. UNCHANGED <<history, turn, i, remaining, kept, sender>>
            BY <2>2 DEF windowVars
        <3>2. /\ NewestFrom(i + 1)' = NewestFrom(i + 1)
              /\ Charged(NewestFrom(i + 1))' = Charged(NewestFrom(i + 1))
              /\ Charged(NewestFrom(i))' = Charged(NewestFrom(i))
              /\ Talk' = Talk /\ Affordable' = Affordable /\ Room' = Room
            BY <3>1, SameRows, SameRowsFrom DEF Room
        <3> QED
            BY <3>1, <3>2 DEF WindowInv, WindowTypes, Walked, Stopped
    <2> QED
        BY <2>1, <2>2
<1> QED
    BY <1>1, WindowInitHolds, PTL DEF WindowSpec

\* build_context() sends the longest run of newest messages the budget covers,
\* in order and without audit rows, for every conversation and every budget.
THEOREM ContextIsLongest == WindowSpec => []WindowIsLongest
    BY WindowInvariant, LongestIsSent, PTL

\* The question of a sender who is alone on the conversation is in its
\* context, however little the budget is.
THEOREM QuestionInContext == WindowSpec => []OwnQuestionSent
    BY WindowInvariant, QuestionIsSent, PTL

-----------------------------------------------------------------------------
\* StreamShim.

\* What has been passed on of a kind of event, and the newest of it.
Seen(what) == UpTo(what, out)
Latest(what) == Max(Seen(what) \cup {0})

\* The metadata of the first n events.
Metadata(n) == /\ actual_model = Max(UpTo("model", n) \cup {0})
               /\ stream => usage = UpTo("usage", n)

EndsWell == phase \in {"log", "ended"} /\ status = 200 /\ after = <<>>

FirstPrefix ==
    LET first == Min(With("text"))
    IN <<first, Max({n \in With("model") : n <= first} \cup {0})>>

ShimTypes ==
    /\ stream \in BOOLEAN /\ routed \in BOOLEAN /\ want_prefix \in BOOLEAN
    /\ events \in Seq(Events) /\ halves \in Nat /\ out \in 0 .. Len(events)
    /\ phase \in {"route", "call", "tell", "log", "ended"}
    /\ pool \in {"none", "up", "down"}

\* The metadata is that of the events that were passed on, or also of the one
\* that broke the stream.
MetadataRead ==
    \/ Metadata(out)
    \/ /\ Metadata(out + 1) /\ out + 1 \in With("odd")
       /\ stream /\ phase \in {"tell", "log", "ended"} /\ ~EndsWell

\* The prefix is that of the text that was passed on.
Peeked ==
    /\ stream => /\ 2 * out <= halves /\ halves <= 2 * Len(events)
                 /\ want_prefix = (routed /\ Seen("text") = {})
                 /\ prefixes = IF routed /\ Seen("text") # {} THEN {FirstPrefix} ELSE {}
    /\ ~stream => \/ prefixes = {}
                  \/ routed /\ prefixes = {<<Min(With("text")), Newest("model")>>}

\* How far the client of a stream was told how it ends.
Told ==
    /\ phase = "tell" => stream
    /\ phase \in {"route", "call"} => after = <<>>
    /\ phase = "call" /\ stream => status = 200
    /\ phase = "tell" => after \in {<<>>, <<"error">>}
    /\ phase \in {"log", "ended"} /\ stream /\ status = 200 =>
          \/ after = <<"error", "done">>
          \/ after = <<>> /\ halves + 1 >= 2 * Len(events) /\ halves < 2 * out + 2

Logged ==
    /\ phase # "ended" => rows = <<>>
    /\ rows = <<>> \/ rows = <<<<actual_model, usage>>>>
    /\ phase = "ended" /\ status \in {200, 404} /\ pool = "up" => rows # <<>>

ShimInv == ShimTypes /\ Peeked /\ MetadataRead /\ Told /\ Logged

LEMMA MaxIs ==
    ASSUME NEW S \in SUBSET Nat, NEW m \in S, \A x \in S : x <= m
    PROVE  Max(S) = m
<1>1. Max(S) \in S /\ \A x \in S : x <= Max(S)
    BY MaxIsLargest
<1>2. Max(S) <= m /\ m <= Max(S) /\ Max(S) \in Nat /\ m \in Nat
    BY <1>1
<1> QED
    BY <1>2

LEMMA MinIs ==
    ASSUME NEW S \in SUBSET Nat, NEW m \in S, \A x \in S : m <= x
    PROVE  Min(S) = m
<1>1. Min(S) \in S /\ \A x \in S : Min(S) <= x
    BY MinIsSmallest
<1>2. Min(S) <= m /\ m <= Min(S) /\ Min(S) \in Nat /\ m \in Nat
    BY <1>1
<1> QED
    BY <1>2

LEMMA EventsNumbered ==
    ASSUME ShimTypes
    PROVE  /\ Len(events) \in Nat /\ DOMAIN events = 1 .. Len(events)
           /\ out \in Nat /\ out <= Len(events)
           /\ \A what : /\ With(what) \in SUBSET (1 .. Len(events))
                        /\ Seen(what) \in SUBSET (1 .. out)
<1>1. /\ Len(events) \in Nat /\ DOMAIN events = 1 .. Len(events)
      /\ out \in Nat /\ out <= Len(events)
    BY LenProperties DEF ShimTypes
<1>2. ASSUME NEW what
      PROVE  /\ With(what) \in SUBSET (1 .. Len(events))
             /\ Seen(what) \in SUBSET (1 .. out)
    <2>1. With(what) \in SUBSET (1 .. Len(events))
        BY <1>1 DEF With
    <2>2. ASSUME NEW n \in Seen(what)
          PROVE  n \in 1 .. out
        <3>1. n \in With(what) /\ n <= out
            BY DEF Seen, UpTo
        <3> QED
            BY <1>1, <2>1, <3>1
    <2> QED
        BY <2>1, <2>2
<1> QED
    BY <1>1, <1>2

\* An event more has been passed on.
LEMMA SeenMore ==
    ASSUME ShimTypes, out + 1 \in 1 .. Len(events),
           events' = events, out' = out + 1, NEW what
    PROVE  /\ what \in events[out + 1] => /\ Seen(what)' = Seen(what) \cup {out + 1}
                                          /\ Latest(what)' = out + 1
           /\ what \notin events[out + 1] => /\ Seen(what)' = Seen(what)
                                             /\ Latest(what)' = Latest(what)
           /\ Seen(what)' = {n \in With(what) : n <= out + 1}
<1> DEFINE k == out + 1
<1>1. /\ Len(events) \in Nat /\ out \in Nat /\ k \in Nat /\ k \in DOMAIN events
      /\ With(what) \in SUBSET (1 .. Len(events)) /\ Seen(what) \in SUBSET (1 .. out)
    BY EventsNumbered
<1>2. Seen(what)' = {n \in With(what) : n <= k}
    BY DEF Seen, UpTo, With
<1>3. k \in With(what) <=> what \in events[k]
    BY <1>1 DEF With
<1>4. ASSUME NEW n \in With(what)
      PROVE  n <= k <=> n <= out \/ n = k
    <2>1. n \in Nat
        BY <1>1
    <2> QED
        BY <1>1, <2>1
<1> HIDE DEF k
<1>5. /\ what \in events[k] => Seen(what)' = Seen(what) \cup {k}
      /\ what \notin events[k] => Seen(what)' = Seen(what)
    <2>1. k \in With(what) => Seen(what)' = Seen(what) \cup {k}
        BY <1>2, <1>4, Zenon DEF Seen, UpTo
    <2>2. k \notin With(what) => Seen(what)' = Seen(what)
        BY <1>2, <1>4, Zenon DEF Seen, UpTo
    <2> QED
        BY <1>3, <2>1, <2>2
<1>6. what \in events[k] => Latest(what)' = k
    <2> SUFFICES ASSUME what \in events[k]
                 PROVE  Max(Seen(what) \cup {k} \cup {0}) = k
        BY <1>5 DEF Latest
    <2> DEFINE S == Seen(what) \cup {k} \cup {0}
    <2>1. k = out + 1
        BY DEF k
    <2>2. \A x \in S : x \in Nat /\ x <= k
        BY <1>1, <2>1
    <2>3. S \in SUBSET Nat /\ k \in S
        BY <2>2
    <2> HIDE DEF S
    <2>4. Max(S) = k
        BY <2>2, <2>3, MaxIs
    <2> QED
        BY <2>4 DEF S
<1>7. what \notin events[k] => Latest(what)' = Latest(what)
    BY <1>5 DEF Latest
<1> QED
    BY <1>2, <1>5, <1>6, <1>7 DEF k

LEMMA PassPeeks ==
    ASSUME ShimInv, Pass
    PROVE  ShimTypes' /\ Peeked' /\ Metadata(out)'
<1> DEFINE k == out + 1
<1> USE DEF ShimInv
<1>1. /\ phase = "call" /\ stream /\ halves - 2 * out >= 2
      /\ out' = k
      /\ usage' = usage \cup {n \in {k} : "usage" \in events[n]}
      /\ actual_model' = IF "model" \in events[k] THEN k ELSE actual_model
      /\ prefixes' = prefixes \cup IF want_prefix /\ "text" \in events[k]
                                   THEN {<<k, actual_model'>>} ELSE {}
      /\ want_prefix' = (want_prefix /\ "text" \notin events[k])
      /\ UNCHANGED <<stream, routed, events, halves, phase, pool>>
    BY DEF Pass, Peek, WholeInBuffer, InBuffer, ModelOf, WantsNext
<1>2. /\ k \in 1 .. Len(events) /\ k \in 0 .. Len(events)
      /\ 2 * k <= halves /\ halves <= 2 * Len(events)
    <2>1. halves \in Nat /\ out \in Nat /\ Len(events) \in Nat /\ halves <= 2 * Len(events)
        BY <1>1, EventsNumbered DEF ShimTypes, Peeked
    <2> QED
        BY <1>1, <2>1
<1>3. \A what : /\ what \in events[k] => /\ Seen(what)' = Seen(what) \cup {k}
                                         /\ Latest(what)' = k
                /\ what \notin events[k] => /\ Seen(what)' = Seen(what)
                                            /\ Latest(what)' = Latest(what)
                /\ Seen(what)' = {n \in With(what) : n <= k}
    BY <1>1, <1>2, SeenMore
<1> HIDE DEF k
<1>4. ShimTypes'
    <2>1. want_prefix' \in BOOLEAN /\ out' \in 0 .. Len(events')
        BY <1>1, <1>2
    <2> QED
        BY <1>1, <2>1 DEF ShimTypes
<1>5. actual_model' = Latest("model")' /\ usage' = Seen("usage")'
    <2>1. actual_model = Latest("model") /\ usage = Seen("usage")
        BY <1>1 DEF MetadataRead, Metadata, Latest, Seen
    <2> QED
        BY <1>1, <1>3, <2>1
<1>6. 2 * out' <= halves' /\ halves' <= 2 * Len(events')
    BY <1>1, <1>2
<1>7. /\ want_prefix = (routed /\ Seen("text") = {})
      /\ prefixes = IF routed /\ Seen("text") # {} THEN {FirstPrefix} ELSE {}
    BY <1>1 DEF Peeked
<1>8. want_prefix' = (routed' /\ Seen("text")' = {})
    <2>1. Seen("text")' = {} <=> Seen("text") = {} /\ "text" \notin events[k]
        BY <1>3
    <2> QED
        BY <1>1, <1>7, <2>1
<1>9. FirstPrefix' = FirstPrefix
    BY <1>1 DEF FirstPrefix, With
<1>10. prefixes' = IF routed' /\ Seen("text")' # {} THEN {FirstPrefix}' ELSE {}
    <2>1. CASE want_prefix /\ "text" \in events[k]
        <3>1. /\ prefixes' = {<<k, actual_model'>>} /\ routed /\ Seen("text") = {}
              /\ Seen("text")' = {k}
            BY <1>1, <1>3, <1>7, <2>1
        <3>2. Min(With("text")) = k
            <4>1. /\ With("text") \in SUBSET Nat /\ k \in With("text")
                  /\ k \in Nat /\ out \in Nat /\ k = out + 1
                BY <1>2, <2>1, EventsNumbered DEF With, k
            <4>2. ASSUME NEW n \in With("text")
                  PROVE  k <= n
                <5>1. ~(n <= out)
                    BY <3>1 DEF Seen, UpTo
                <5>2. n \in Nat
                    BY <4>1
                <5> QED
                    BY <4>1, <5>1, <5>2
            <4> QED
                BY <4>1, <4>2, MinIs
        <3>3. actual_model' = Max({n \in With("model") : n <= k} \cup {0})
            <4>1. Latest("model")' = Max(Seen("model")' \cup {0})
                BY DEF Latest
            <4> QED
                BY <1>3, <1>5, <4>1
        <3>4. FirstPrefix = <<k, actual_model'>>
            BY <3>2, <3>3 DEF FirstPrefix
        <3> QED
            BY <1>1, <1>9, <3>1, <3>4
    <2>2. CASE ~(want_prefix /\ "text" \in events[k])
        <3>1. prefixes' = prefixes
            BY <1>1, <2>2
        <3>2. routed => (Seen("text")' # {} <=> Seen("text") # {})
            BY <1>3, <1>7, <2>2
        <3> QED
            BY <1>1, <1>7, <1>9, <3>1, <3>2
    <2> QED
        BY <2>1, <2>2
<1>11. Peeked'
    BY <1>1, <1>6, <1>8, <1>10 DEF Peeked
<1>12. Metadata(out)'
    BY <1>5 DEF Metadata, Latest, Seen
<1> QED
    BY <1>4, <1>11, <1>12

\* What is said of the events stays true while none is passed on.
LEMMA SameEvents ==
    ASSUME UNCHANGED <<events, out>>
    PROVE  /\ \A what : /\ With(what)' = With(what) /\ Seen(what)' = Seen(what)
                        /\ Latest(what)' = Latest(what) /\ Newest(what)' = Newest(what)
           /\ \A what, n : UpTo(what, n)' = UpTo(what, n)
           /\ FirstPrefix' = FirstPrefix
<1>3. ASSUME NEW what, NEW n
      PROVE  UpTo(what, n)' = UpTo(what, n)
    BY DEF With, UpTo
<1>1. ASSUME NEW what
      PROVE  /\ With(what)' = With(what) /\ Seen(what)' = Seen(what)
             /\ Latest(what)' = Latest(what) /\ Newest(what)' = Newest(what)
    BY <1>3 DEF With, Seen, UpTo, Latest, Newest
<1>2. FirstPrefix' = FirstPrefix
    BY DEF FirstPrefix, With
<1> QED
    BY <1>1, <1>2, <1>3

LEMMA MetadataStays ==
    ASSUME UNCHANGED <<stream, events, out, actual_model, usage>>, NEW n
    PROVE  Metadata(n)' = Metadata(n)
<1>1. UpTo("model", n)' = UpTo("model", n) /\ UpTo("usage", n)' = UpTo("usage", n)
    BY SameEvents
<1> QED
    BY <1>1 DEF Metadata

LEMMA PeekedStays ==
    ASSUME ShimTypes, Peeked,
           UNCHANGED <<stream, routed, events, out, want_prefix, prefixes>>,
           UNCHANGED halves \/ (stream /\ halves' \in Nat /\ halves' >= halves
                                /\ halves' <= 2 * Len(events))
    PROVE  Peeked'
<1>1. /\ UNCHANGED <<events, out>> /\ stream' = stream /\ routed' = routed
      /\ want_prefix' = want_prefix /\ prefixes' = prefixes
    OBVIOUS
<1>2. /\ Seen("text")' = Seen("text") /\ FirstPrefix' = FirstPrefix
      /\ With("text")' = With("text") /\ Newest("model")' = Newest("model")
    BY <1>1, SameEvents
<1>3. stream => 2 * out' <= halves' /\ halves' <= 2 * Len(events')
    <2>1. halves \in Nat /\ out \in Nat /\ Len(events) \in Nat
        BY EventsNumbered DEF ShimTypes
    <2> QED
        BY <1>1, <2>1 DEF Peeked
<1> QED
    BY <1>1, <1>2, <1>3 DEF Peeked

LEMMA CompletePeeks ==
    ASSUME ShimInv, Complete
    PROVE  ShimTypes' /\ Peeked' /\ MetadataRead'
<1> USE DEF ShimInv
<1>1. /\ ~stream /\ phase' \in {"ended", "log"}
      /\ UNCHANGED <<stream, routed, events, halves, pool, want_prefix>>
    BY DEF Complete, EndWith, peekVars
<1>2. CASE UNCHANGED <<out, peekVars>>
    <2>1. Peeked'
        BY <1>1, <1>2, PeekedStays DEF peekVars
    <2>2. Metadata(out) /\ out' = out
        BY <1>1, <1>2 DEF MetadataRead
    <2>3. Metadata(out)' = Metadata(out)
        BY <1>1, <1>2, MetadataStays DEF peekVars
    <2> QED
        BY <1>1, <1>2, <2>1, <2>2, <2>3 DEF ShimTypes, MetadataRead, peekVars
<1>3. ASSUME out' = Len(events), actual_model' = Newest("model"),
             \/ prefixes' = {}
             \/ routed /\ prefixes' = {<<Min(With("text")), Newest("model")>>}
      PROVE  ShimTypes' /\ Peeked' /\ MetadataRead'
    <2>1. /\ Len(events) \in Nat /\ With("model") \in SUBSET (1 .. Len(events))
        BY EventsNumbered
    <2>2. With("text")' = With("text") /\ Newest("model")' = Newest("model")
        BY <1>1 DEF With, Newest
    <2>3. Seen("model")' = With("model")
        <3>1. Seen("model")' = {n \in With("model") : n <= Len(events)}
            BY <1>1, <1>3 DEF Seen, UpTo, With
        <3>2. \A n \in With("model") : n <= Len(events)
            BY <2>1
        <3> QED
            BY <3>1, <3>2, Zenon
    <2>4. actual_model' = Latest("model")'
        BY <1>3, <2>3 DEF Latest, Newest
    <2>5. ShimTypes'
        BY <1>1, <1>3, <2>1 DEF ShimTypes
    <2>6. Peeked'
        BY <1>1, <1>3, <2>2 DEF Peeked
    <2>7. Metadata(out)'
        BY <1>1, <2>4 DEF Metadata, Latest, Seen
    <2> QED
        BY <2>5, <2>6, <2>7 DEF MetadataRead
<1>4. \/ UNCHANGED <<out, peekVars>>
      \/ /\ out' = Len(events) /\ actual_model' = Newest("model")
         /\ \/ prefixes' = {}
            \/ routed /\ prefixes' = {<<Min(With("text")), Newest("model")>>}
    BY DEF Complete
<1> QED
    BY <1>2, <1>3, <1>4

\* Before a request has ended there is no row of it.
LEMMA NoRowYet ==
    ASSUME Logged, rows' = rows, phase # "ended",
           phase' # "ended" \/ status' \notin {200, 404}
    PROVE  Logged'
    BY DEF Logged

LEMMA PassHolds ==
    ASSUME ShimInv, Pass
    PROVE  ShimInv'
<1> USE DEF ShimInv
<1>1. /\ phase = "call" /\ stream
      /\ UNCHANGED <<stream, phase, status, after, rows>>
    BY DEF Pass, Peek
<1>2. ShimTypes' /\ Peeked' /\ MetadataRead'
    BY PassPeeks DEF MetadataRead
<1>3. Told'
    BY <1>1 DEF Told
<1>4. Logged'
    BY <1>1, NoRowYet
<1> QED
    BY <1>2, <1>3, <1>4

\* The event that breaks the stream is the next one, and only its metadata is
\* taken.
LEMMA ChokeHolds ==
    ASSUME ShimInv, Choke
    PROVE  ShimInv'
<1> USE DEF ShimInv
<1> DEFINE k == out + 1
<1>1. /\ phase = "call" /\ stream /\ halves - 2 * out >= 2 /\ "odd" \in events[k]
      /\ usage' = usage \cup {n \in {k} : "usage" \in events[n]}
      /\ actual_model' = IF "model" \in events[k] THEN k ELSE actual_model
      /\ phase' = "tell"
      /\ UNCHANGED <<stream, routed, events, halves, out, want_prefix, prefixes,
                     status, after, rows, pool>>
    BY DEF Choke, Peek, WholeInBuffer, InBuffer, ModelOf
<1>2. k \in 1 .. Len(events)
    <2>1. halves \in Nat /\ out \in Nat /\ Len(events) \in Nat /\ halves <= 2 * Len(events)
        BY <1>1, EventsNumbered DEF ShimTypes, Peeked
    <2> QED
        BY <1>1, <2>1
<1>3. ASSUME NEW what
      PROVE  /\ what \in events[k] => UpTo(what, k) = UpTo(what, out) \cup {k}
             /\ what \notin events[k] => UpTo(what, k) = UpTo(what, out)
             /\ what \in events[k] => Max(UpTo(what, k) \cup {0}) = k
    <2>1. /\ Len(events) \in Nat /\ out \in Nat /\ DOMAIN events = 1 .. Len(events)
          /\ With(what) \in SUBSET (1 .. Len(events))
        BY EventsNumbered
    <2>2. k \in With(what) <=> what \in events[k]
        BY <1>2, <2>1 DEF With
    <2>3. \A n \in With(what) : n \in Nat /\ (n <= k <=> n <= out \/ n = k)
        BY <2>1
    <2>4. \A n \in UpTo(what, k) \cup {0} : n \in Nat /\ n <= k
        BY <2>1, <2>3 DEF UpTo
    <2>5. what \in events[k] => k \in UpTo(what, k) \cup {0}
        BY <2>1, <2>2 DEF UpTo
    <2>6. what \in events[k] => Max(UpTo(what, k) \cup {0}) = k
        <3> DEFINE S == UpTo(what, k) \cup {0}
        <3>1. S \in SUBSET Nat /\ \A n \in S : n <= k
            BY <2>4
        <3> HIDE DEF S, k
        <3> QED
            BY <2>5, <3>1, MaxIs DEF S
    <2> HIDE DEF k
    <2>7. /\ k \in With(what) => UpTo(what, k) = UpTo(what, out) \cup {k}
          /\ k \notin With(what) => UpTo(what, k) = UpTo(what, out)
        BY <2>3, Zenon DEF UpTo
    <2> QED
        BY <2>2, <2>6, <2>7
<1>4. Metadata(out)
    BY <1>1 DEF MetadataRead
<1>5. Metadata(k)'
    <2>1. UpTo("model", k)' = UpTo("model", k) /\ UpTo("usage", k)' = UpTo("usage", k)
        BY <1>1 DEF UpTo, With
    <2>2. actual_model' = Max(UpTo("model", k) \cup {0})
        BY <1>1, <1>3, <1>4 DEF Metadata
    <2>3. usage' = UpTo("usage", k)
        BY <1>1, <1>3, <1>4 DEF Metadata
    <2> HIDE DEF k
    <2> QED
        BY <1>1, <2>1, <2>2, <2>3 DEF Metadata
<1>6. out' + 1 \in With("odd")'
    <2>1. DOMAIN events = 1 .. Len(events)
        BY EventsNumbered
    <2> QED
        BY <1>1, <1>2, <2>1 DEF With
<1>7. MetadataRead'
    BY <1>1, <1>5, <1>6 DEF MetadataRead, EndsWell
<1>8. ShimTypes' /\ Peeked'
    BY <1>1, PeekedStays DEF ShimTypes
<1>9. Told'
    BY <1>1 DEF Told
<1>10. Logged'
    BY <1>1, NoRowYet
<1> QED
    BY <1>7, <1>8, <1>9, <1>10

LEMMA CompleteHolds ==
    ASSUME ShimInv, Complete
    PROVE  ShimInv'
<1> USE DEF ShimInv
<1>1. /\ phase = "call" /\ ~stream /\ phase' \in {"ended", "log"}
      /\ phase' = "ended" => status' \in {429, 500}
      /\ UNCHANGED <<stream, after, rows>>
    BY DEF Complete, EndWith
<1>2. ShimTypes' /\ Peeked' /\ MetadataRead'
    BY CompletePeeks
<1>3. Told'
    BY <1>1 DEF Told
<1>4. Logged'
    BY <1>1, NoRowYet
<1> QED
    BY <1>2, <1>3, <1>4

LEMMA ChunkHolds ==
    ASSUME ShimInv, NEW n \in 1 .. 2 * MaxEvents, Chunk(n)
    PROVE  ShimInv'
<1> USE DEF ShimInv
<1>1. /\ phase = "call" /\ stream /\ halves' = halves + n /\ halves + n <= 2 * Len(events)
      /\ UNCHANGED <<stream, routed, events, out, peekVars, phase, status, after, rows, pool>>
    BY DEF Chunk
<1>2. halves \in Nat /\ n \in Nat
    BY EventsAssumption DEF ShimTypes
<1>3. Peeked'
    BY <1>1, <1>2, PeekedStays DEF peekVars
<1>7. MetadataRead'
    <2>1. Metadata(out) /\ out' = out
        BY <1>1 DEF MetadataRead
    <2>2. Metadata(out)' = Metadata(out)
        BY <1>1, MetadataStays DEF peekVars
    <2> QED
        BY <2>1, <2>2 DEF MetadataRead
<1>4. ShimTypes'
    BY <1>1, <1>2 DEF ShimTypes, peekVars
<1>5. Told'
    BY <1>1 DEF Told
<1>6. Logged'
    BY <1>1, NoRowYet
<1> QED
    BY <1>3, <1>4, <1>5, <1>6, <1>7

LEMMA OneAndTwo ==
    ASSUME NEW a, NEW b
    PROVE  Append(<<>>, a) = <<a>> /\ Append(<<a>>, b) = <<a, b>>
<1> DEFINE S == {a, b}
           one == Append(<<>>, a)
           two == Append(<<a>>, b)
<1>1. a \in S /\ b \in S
    OBVIOUS
<1> HIDE DEF S
<1>2. one \in Seq(S) /\ Len(one) = 1 /\ one[1] = a
    <2>1. <<>> \in Seq(S) /\ Len(<<>>) = 0
        BY EmptySeq
    <2> QED
        BY <1>1, <2>1, AppendProperties
<1>3. <<a>> \in Seq(S) /\ Len(<<a>>) = 1 /\ <<a>>[1] = a
    BY <1>1
<1>4. two \in Seq(S) /\ Len(two) = 2 /\ two[1] = a /\ two[2] = b
    BY <1>1, <1>3, AppendProperties
<1>5. <<a, b>> \in Seq(S) /\ Len(<<a, b>>) = 2 /\ <<a, b>>[1] = a /\ <<a, b>>[2] = b
    BY <1>1
<1> HIDE DEF one, two
<1>6. one = <<a>>
    BY <1>2, <1>3, SeqEqual
<1>7. two = <<a, b>>
    BY <1>4, <1>5, SeqEqual
<1> QED
    BY <1>6, <1>7 DEF one, two

\* The steps that neither receive nor pass anything on.
LEMMA PhaseTyped ==
    ASSUME ShimInv, Route \/ Close \/ Fail \/ Tell \/ Disconnect \/ Log \/ DatabaseAway
    PROVE  ShimTypes' /\ Peeked' /\ MetadataRead'
<1> USE DEF ShimInv
<1>1. /\ UNCHANGED <<stream, routed, events, halves, out, peekVars>>
    BY DEF Route, Close, Fail, Tell, Disconnect, Log, DatabaseAway
<1>2. ShimTypes'
    <2>1. phase' \in {"route", "call", "tell", "log", "ended"}
        BY DEF Route, Close, Fail, Tell, Disconnect, Log, DatabaseAway, EndWith, ShimTypes
    <2>2. pool' \in {"none", "up", "down"}
        BY DEF Route, Close, Fail, Tell, Disconnect, Log, DatabaseAway, ShimTypes
    <2> QED
        BY <1>1, <2>1, <2>2 DEF ShimTypes, peekVars
<1>3. Peeked'
    BY <1>1, PeekedStays DEF peekVars
<1>4. MetadataRead'
    <2>1. CASE Metadata(out)
        <3>1. Metadata(out)' = Metadata(out)
            BY <1>1, MetadataStays DEF peekVars
        <3> QED
            BY <2>1, <3>1, Zenon DEF MetadataRead
    <2>2. CASE ~Metadata(out)
        <3>1. /\ Metadata(out + 1) /\ out + 1 \in With("odd") /\ stream
              /\ phase \in {"tell", "log", "ended"} /\ ~EndsWell
            BY <2>2 DEF MetadataRead
        <3>2. Metadata(out + 1)' = Metadata(out + 1) /\ With("odd")' = With("odd")
            <4>1. UNCHANGED <<stream, events, out, actual_model, usage>>
                BY <1>1 DEF peekVars
            <4> QED
                BY <4>1 DEF Metadata, UpTo, With
        <3>3. phase' \in {"tell", "log", "ended"} /\ ~EndsWell'
            <4>1. CASE Disconnect
                BY <4>1 DEF Disconnect, EndsWell
            <4>4. CASE DatabaseAway
                BY <3>1, <4>4 DEF DatabaseAway, EndsWell
            <4>2. CASE Tell
                <5>1. after \in {<<>>, <<"error">>} /\ <<"error">> # <<>>
                    BY <4>2 DEF Tell, Told
                <5>2. \/ after = <<>> /\ phase' = "tell"
                      \/ /\ phase' = "log"
                         /\ after' = Append(<<"error">>, "done")
                    BY <4>2, <5>1 DEF Tell
                <5>3. Append(<<"error">>, "done") = <<"error", "done">>
                    BY OneAndTwo
                <5> QED
                    BY <5>2, <5>3 DEF EndsWell
            <4>3. CASE Log
                <5>1. /\ phase = "log" /\ phase' = "ended" /\ after' = after
                      /\ status' \in {status, 500}
                    BY <4>3 DEF Log, EndWith, ShimTypes
                <5> QED
                    BY <3>1, <5>1 DEF EndsWell
            <4> QED
                BY <3>1, <4>1, <4>2, <4>3, <4>4 DEF Route, Close, Fail
        <3> QED
            BY <1>1, <3>1, <3>2, <3>3 DEF MetadataRead
    <2> QED
        BY <2>1, <2>2
<1> QED
    BY <1>2, <1>3, <1>4

LEMMA RouteHolds ==
    ASSUME ShimInv, Route
    PROVE  Told' /\ Logged'
<1> USE DEF ShimInv
<1>1. /\ phase = "route" /\ UNCHANGED <<stream, after, rows>>
      /\ \/ phase' = "ended" /\ status' = 400
         \/ phase' = "call" /\ status' = IF stream THEN 200 ELSE 0
    BY DEF Route, EndWith
<1>2. Told'
    BY <1>1 DEF Told
<1>3. Logged'
    BY <1>1, NoRowYet
<1> QED
    BY <1>2, <1>3

LEMMA CloseHolds ==
    ASSUME ShimInv, Close
    PROVE  Told' /\ Logged'
<1> USE DEF ShimInv
<1>1. /\ phase = "call" /\ stream /\ phase' = "log"
      /\ halves + 1 >= 2 * Len(events) /\ ~(halves - 2 * out >= 2)
      /\ UNCHANGED <<stream, events, halves, out, status, after, rows>>
    BY DEF Close, WholeInBuffer, InBuffer
<1>2. halves < 2 * out + 2
    <2>1. halves \in Nat /\ out \in Nat
        BY EventsNumbered DEF ShimTypes
    <2> QED
        BY <1>1, <2>1
<1>3. after = <<>>
    BY <1>1 DEF Told
<1>4. Told'
    BY <1>1, <1>2, <1>3 DEF Told
<1>5. Logged'
    BY <1>1, NoRowYet
<1> QED
    BY <1>4, <1>5

LEMMA FailHolds ==
    ASSUME ShimInv, Fail
    PROVE  Told' /\ Logged'
<1> USE DEF ShimInv
<1>1. /\ phase = "call" /\ stream /\ phase' = "tell"
      /\ UNCHANGED <<stream, status, after, rows>>
    BY DEF Fail
<1>2. Told'
    BY <1>1 DEF Told
<1>3. Logged'
    BY <1>1, NoRowYet
<1> QED
    BY <1>2, <1>3

LEMMA TellHolds ==
    ASSUME ShimInv, Tell
    PROVE  Told' /\ Logged'
<1> USE DEF ShimInv
<1>1. /\ phase = "tell" /\ stream /\ UNCHANGED <<stream, status, rows>>
      /\ after' = Append(after, IF after = <<>> THEN "error" ELSE "done")
      /\ phase' = IF after = <<>> THEN "tell" ELSE "log"
    BY DEF Tell, Told
<1>2. Append(<<>>, "error") = <<"error">> /\ Append(<<"error">>, "done") = <<"error", "done">>
    BY OneAndTwo
<1>3. \/ after = <<>> /\ phase' = "tell" /\ after' = <<"error">>
      \/ after = <<"error">> /\ phase' = "log" /\ after' = <<"error", "done">>
    <2>1. CASE after = <<>>
        BY <1>1, <1>2, <2>1
    <2>2. CASE after = <<"error">>
        <3>1. <<"error">> # <<>>
            OBVIOUS
        <3> QED
            BY <1>1, <1>2, <2>2, <3>1
    <2> QED
        BY <1>1, <2>1, <2>2 DEF Told
<1>4. Told'
    BY <1>1, <1>3 DEF Told
<1>5. Logged'
    BY <1>1, <1>3, NoRowYet
<1> QED
    BY <1>4, <1>5

LEMMA DisconnectHolds ==
    ASSUME ShimInv, Disconnect
    PROVE  Told' /\ Logged'
<1> USE DEF ShimInv
<1>1. /\ phase \in {"call", "tell"} /\ phase' = "log" /\ status' = 499
      /\ UNCHANGED <<stream, after, rows>>
    BY DEF Disconnect
<1>2. Told'
    BY <1>1 DEF Told
<1>3. Logged'
    BY <1>1, NoRowYet
<1> QED
    BY <1>2, <1>3

LEMMA LogHolds ==
    ASSUME ShimInv, Log
    PROVE  Told' /\ Logged'
<1> USE DEF ShimInv
<1>1. /\ phase = "log" /\ phase' = "ended" /\ rows = <<>>
      /\ UNCHANGED <<stream, events, halves, out, after, pool>>
      /\ actual_model' = actual_model /\ usage' = usage
    BY DEF Log, EndWith, ShimTypes, Logged, peekVars
<1>2. \/ pool = "none" /\ status' = status /\ rows' = rows
      \/ pool = "up" /\ status' = status /\ rows' = Append(rows, <<actual_model, usage>>)
      \/ pool = "down" /\ status' = 500 /\ rows' = rows
    BY DEF Log, EndWith, ShimTypes
<1>3. Told'
    BY <1>1, <1>2 DEF Told
<1>4. Logged'
    <2>1. CASE pool = "up"
        <3>1. rows' = <<<<actual_model', usage'>>>>
            BY <1>1, <1>2, <2>1
        <3>2. rows' # <<>>
            BY <3>1
        <3> QED
            BY <1>1, <3>1, <3>2 DEF Logged
    <2>2. CASE pool # "up"
        BY <1>1, <1>2, <2>2 DEF Logged
    <2> QED
        BY <2>1, <2>2
<1> QED
    BY <1>3, <1>4

LEMMA DatabaseAwayHolds ==
    ASSUME ShimInv, DatabaseAway
    PROVE  Told' /\ Logged'
<1> USE DEF ShimInv
<1>1. /\ phase # "ended" /\ phase' = phase
      /\ UNCHANGED <<stream, events, halves, out, status, after, rows>>
    BY DEF DatabaseAway
<1>2. Told'
    BY <1>1 DEF Told
<1>3. Logged'
    BY <1>1, NoRowYet
<1> QED
    BY <1>2, <1>3

LEMMA ShimInitHolds == ShimInit => ShimInv
<1> SUFFICES ASSUME ShimInit
             PROVE  ShimInv
    OBVIOUS
<1>1. PICK n \in 0 .. MaxEvents : events \in [1 .. n -> Events]
    BY EventsAssumption DEF ShimInit, SeqOf
<1>2. events \in Seq(Events) /\ Len(events) \in Nat
    BY <1>1, EventsAssumption, LenProperties
<1>3. ShimTypes
    BY <1>2 DEF ShimInit, ShimTypes
<1>4. \A what : Seen(what) = {}
    <2> SUFFICES ASSUME NEW what
                 PROVE  Seen(what) = {}
        OBVIOUS
    <2>1. Seen(what) \in SUBSET (1 .. out) /\ out = 0
        BY <1>3, EventsNumbered DEF ShimInit
    <2> QED
        BY <2>1
<1>5. \A what : Latest(what) = 0
    <2>1. Max({0}) = 0
        BY MaxIs
    <2>2. {} \cup {0} = {0}
        OBVIOUS
    <2> QED
        BY <1>4, <2>1, <2>2 DEF Latest
<1>6. Peeked
    BY <1>2, <1>4 DEF ShimInit, Peeked
<1>7. Metadata(out)
    BY <1>4, <1>5 DEF ShimInit, Metadata, Latest, Seen
<1> QED
    BY <1>3, <1>6, <1>7 DEF MetadataRead, ShimInit, ShimInv, Told, Logged

LEMMA ShimStepHolds ==
    ASSUME ShimInv, [ShimNext]_shimVars
    PROVE  ShimInv'
<1>1. CASE Route \/ Close \/ Fail \/ Tell \/ Disconnect \/ Log \/ DatabaseAway
    <2>1. Told' /\ Logged'
        BY <1>1, RouteHolds, CloseHolds, FailHolds, TellHolds, DisconnectHolds, LogHolds,
           DatabaseAwayHolds
    <2> QED
        BY <1>1, <2>1, PhaseTyped DEF ShimInv
<1>2. CASE Complete \/ Pass \/ Choke \/ \E n \in 1 .. 2 * MaxEvents : Chunk(n)
    BY <1>2, CompleteHolds, PassHolds, ChokeHolds, ChunkHolds
<1>3. CASE UNCHANGED shimVars
    <2>1. UNCHANGED <<stream, routed, events, halves, out, peekVars, phase, status, after,
                      rows, pool>>
        BY <1>3 DEF shimVars
    <2>2. Peeked'
        BY <2>1, PeekedStays DEF ShimInv, peekVars
    <2>3. MetadataRead'
        <3>1. \A n : Metadata(n)' = Metadata(n)
            BY <2>1, MetadataStays DEF peekVars
        <3> QED
            BY <2>1, <3>1 DEF ShimInv, MetadataRead, Metadata, EndsWell, With, peekVars, UpTo
    <2> QED
        BY <2>1, <2>2, <2>3 DEF ShimInv, ShimTypes, Told, Logged, peekVars
<1> QED
    BY <1>1, <1>2, <1>3 DEF ShimNext

\* What the shim has passed on, peeked, told and logged.
THEOREM ShimInvariant == ShimSpec => []ShimInv
    BY ShimInitHolds, ShimStepHolds, PTL DEF ShimSpec

\* However the bytes are cut, only whole events reach the client, and a
\* stream that ends well has passed all but an unterminated last event.
THEOREM EventsPassedVerbatim == ShimSpec => []PassedVerbatim
<1>1. ShimInv => PassedVerbatim
    <2> SUFFICES ASSUME ShimInv
                 PROVE  PassedVerbatim
        OBVIOUS
    <2>1. halves \in Nat /\ out \in Nat /\ Len(events) \in Nat
        BY EventsNumbered DEF ShimInv, ShimTypes
    <2>2. stream => 2 * out <= halves
        BY DEF ShimInv, Peeked
    <2>3. ASSUME phase = "ended", stream, status = 200, after = <<>>
          PROVE  out + 1 >= Len(events) /\ (out < Len(events) => halves < 2 * Len(events))
        <3>1. <<"error", "done">> # <<>>
            OBVIOUS
        <3>2. halves + 1 >= 2 * Len(events) /\ halves < 2 * out + 2
            BY <2>3, <3>1 DEF ShimInv, Told
        <3> QED
            BY <2>1, <3>2
    <2> QED
        BY <2>2, <2>3 DEF PassedVerbatim
<1> QED
    BY <1>1, ShimInvariant, PTL

\* A routed answer says who gives it, once, where its text begins.
THEOREM AnswerPrefixedOnce == ShimSpec => []PrefixedOnce
<1>1. ShimInv => PrefixedOnce
    <2> SUFFICES ASSUME ShimInv
                 PROVE  PrefixedOnce
        OBVIOUS
    <2> DEFINE first == Min(With("text"))
               before == {n \in With("model") : n <= first}
    <2>1. CASE stream
        <3>1. \A p \in prefixes : routed /\ p = <<first, Max(before \cup {0})>>
            BY <2>1 DEF ShimInv, Peeked, FirstPrefix
        <3>2. routed /\ (\E n \in With("text") : n <= out) => prefixes # {}
            BY <2>1 DEF ShimInv, Peeked, Seen, UpTo
        <3>3. ASSUME NEW p \in prefixes
              PROVE  /\ routed /\ p[1] = first
                     /\ p[2] = Max({n \in With("model") : n <= p[1] \/ ~stream} \cup {0})
            <4>1. p[1] = first /\ p[2] = Max(before \cup {0}) /\ routed
                BY <3>1
            <4>2. {n \in With("model") : n <= p[1] \/ ~stream} = before
                BY <2>1, <4>1
            <4> QED
                BY <4>1, <4>2
        <3> QED
            BY <3>2, <3>3, Zenon DEF PrefixedOnce
    <2>2. CASE ~stream
        <3>1. \A p \in prefixes : routed /\ p = <<first, Newest("model")>>
            BY <2>2 DEF ShimInv, Peeked
        <3>2. {n \in With("model") : n <= first \/ ~stream} = With("model")
            BY <2>2
        <3> QED
            BY <2>2, <3>1, <3>2 DEF PrefixedOnce, Newest
    <2> QED
        BY <2>1, <2>2
<1> QED
    BY <1>1, ShimInvariant, PTL

\* To a client that stays, a stream that is not whole ends with an error and
\* [DONE].
THEOREM StreamNeverJustStops == ShimSpec => []NeverJustStops
<1>1. ShimInv => NeverJustStops
    BY DEF ShimInv, Told, NeverJustStops
<1> QED
    BY <1>1, ShimInvariant, PTL

\* A request has at most one log row, of the model and the usage that were
\* passed on or that the event which broke the stream had, and one when the
\* client has its answer and there is a database.
THEOREM RequestLoggedAsRead == ShimSpec => []LoggedAsRead
<1>1. ShimInv => LoggedAsRead
    <2> SUFFICES ASSUME ShimInv
                 PROVE  LoggedAsRead
        OBVIOUS
    <2>1. CASE rows = <<>>
        <3>1. Len(rows) <= 1 /\ DOMAIN rows = {}
            BY <2>1, EmptySeq
        <3> QED
            BY <3>1 DEF LoggedAsRead, ShimInv, Logged
    <2>2. CASE rows # <<>>
        <3>1. rows = <<<<actual_model, usage>>>> /\ phase = "ended"
            BY <2>2 DEF ShimInv, Logged
        <3>2. /\ Len(rows) = 1 /\ Len(rows) <= 1 /\ DOMAIN rows = {1} /\ rows # <<>>
              /\ rows[1][1] = actual_model /\ rows[1][2] = usage
            BY <3>1
        <3>3. \E n \in {out, out + 1} :
                 /\ Metadata(n)
                 /\ n > out => n \in With("odd") /\ (status # 200 \/ after # <<>>)
            <4>1. CASE Metadata(out)
                <5>1. ~(out > out)
                    BY EventsNumbered DEF ShimInv
                <5> QED
                    BY <4>1, <5>1
            <4>2. CASE ~Metadata(out)
                BY <3>1, <4>2 DEF ShimInv, MetadataRead, EndsWell
            <4> QED
                BY <4>1, <4>2
        <3> QED
            <4>1. PICK n \in {out, out + 1} :
                     /\ Metadata(n)
                     /\ n > out => n \in With("odd") /\ (status # 200 \/ after # <<>>)
                BY <3>3
            <4>2. /\ rows[1][1] = Max(UpTo("model", n) \cup {0})
                  /\ stream => rows[1][2] = UpTo("usage", n)
                BY <3>2, <4>1 DEF Metadata
            <4>3. \A k \in DOMAIN rows : k = 1
                BY <3>2
            <4> QED
                BY <3>2, <4>1, <4>2, <4>3, Zenon DEF LoggedAsRead
    <2> QED
        BY <2>1, <2>2
<1> QED
    BY <1>1, ShimInvariant, PTL

=============================================================================
