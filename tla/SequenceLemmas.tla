--------------------------- MODULE SequenceLemmas ---------------------------
(***************************************************************************)
(* Facts about lists, most of them about lists that hold no element twice, *)
(* and about how many elements of a list are of a kind.                    *)
(***************************************************************************)
EXTENDS SequencesExt, SequenceTheorems, FiniteSetTheorems, WellFoundedInduction, TLAPS

(* Of some indices one is the least. *)
LEMMA LeastIndex ==
    ASSUME NEW I \in SUBSET Nat, I # {}
    PROVE  \E m \in I : \A y \in I : m <= y
  <1>1. PICK m \in I : \A y \in I : ~ (<<y, m>> \in OpToRel(<, Nat))
    BY NatLessThanWellFounded, WFMin
  <1>2. OpToRel(<, Nat) = {pair \in Nat \X Nat : pair[1] < pair[2]}
    BY DEF OpToRel
  <1>3. ASSUME NEW y \in I PROVE m <= y
    <2>1. <<y, m>> \notin {pair \in Nat \X Nat : pair[1] < pair[2]}
      BY <1>1, <1>2
    <2> QED BY <2>1
  <1> QED BY <1>3

LEMMA ToSetOfSeq ==
    ASSUME NEW S, NEW s \in Seq(S)
    PROVE  /\ ToSet(s) \subseteq S
           /\ ToSet(s) = { s[i] : i \in 1 .. Len(s) }
           /\ s = <<>> <=> ToSet(s) = {}
  <1>1. ToSet(s) = { s[i] : i \in 1 .. Len(s) }
    BY DEF ToSet
  <1>2. ToSet(s) \subseteq S
    BY <1>1
  <1>3. ASSUME ToSet(s) = {} PROVE s = <<>>
    <2>1. Len(s) = 0
      <3> SUFFICES ASSUME Len(s) # 0 PROVE FALSE
        OBVIOUS
      <3>1. 1 \in 1 .. Len(s)
        OBVIOUS
      <3> QED BY <1>1, <1>3, <3>1
    <2> QED BY <2>1
  <1>4. ASSUME s = <<>> PROVE ToSet(s) = {}
    BY <1>1, <1>4
  <1> QED BY <1>1, <1>2, <1>3, <1>4

(* What takeAt(r - 1) leaves of a sequence. *)
LEMMA RemoveAtShape ==
    ASSUME NEW S, NEW s \in Seq(S), NEW r \in 1 .. Len(s)
    PROVE  /\ RemoveAt(s, r) \in Seq(S)
           /\ Len(RemoveAt(s, r)) = Len(s) - 1
           /\ \A j \in 1 .. Len(s) - 1 :
                 RemoveAt(s, r)[j] = IF j < r THEN s[j] ELSE s[j + 1]
  <1> DEFINE u == SubSeq(s, 1, r - 1)
             v == SubSeq(s, r + 1, Len(s))
  <1>1. /\ u \in Seq(S) /\ Len(u) = r - 1
        /\ \A i \in 1 .. r - 1 : u[i] = s[i]
    BY SubSeqProperties
  <1>2. /\ v \in Seq(S) /\ Len(v) = Len(s) - r
        /\ \A i \in 1 .. Len(s) - r : v[i] = s[r + i]
    BY SubSeqProperties
  <1> HIDE DEF u, v
  <1>3. /\ u \o v \in Seq(S) /\ Len(u \o v) = Len(s) - 1
        /\ \A i \in 1 .. Len(s) - 1 :
              (u \o v)[i] = IF i < r THEN u[i] ELSE v[i - (r - 1)]
    <2>1. /\ u \o v \in Seq(S)
          /\ Len(u \o v) = Len(u) + Len(v)
          /\ \A i \in 1 .. Len(u) + Len(v) :
                (u \o v)[i] = IF i <= Len(u) THEN u[i] ELSE v[i - Len(u)]
      BY <1>1, <1>2, ConcatProperties
    <2>2. Len(u) + Len(v) = Len(s) - 1
      BY <1>1, <1>2
    <2> QED BY <1>1, <2>1, <2>2
  <1>4. RemoveAt(s, r) = u \o v
    BY DEF RemoveAt, u, v
  <1> QED BY <1>1, <1>2, <1>3, <1>4

(* Without duplicates, it leaves every other element, once. *)
LEMMA RemoveAtSet ==
    ASSUME NEW S, NEW s \in Seq(S), NEW r \in 1 .. Len(s), IsInjective(s)
    PROVE  /\ IsInjective(RemoveAt(s, r))
           /\ ToSet(RemoveAt(s, r)) = ToSet(s) \ {s[r]}
  <1> DEFINE t == RemoveAt(s, r)
  <1>1. /\ t \in Seq(S) /\ Len(t) = Len(s) - 1
        /\ \A j \in 1 .. Len(s) - 1 : t[j] = IF j < r THEN s[j] ELSE s[j + 1]
    BY RemoveAtShape
  <1>2. \A i, j \in 1 .. Len(s) : s[i] = s[j] => i = j
    BY DEF IsInjective
  <1> HIDE DEF t
  <1>3. IsInjective(t)
    <2> SUFFICES ASSUME NEW i \in 1 .. Len(t), NEW j \in 1 .. Len(t), t[i] = t[j]
                 PROVE  i = j
      BY <1>1 DEF IsInjective
    <2> QED BY <1>1, <1>2
  <1>4. ASSUME NEW e \in ToSet(t) PROVE e \in ToSet(s) \ {s[r]}
    <2>1. PICK j \in 1 .. Len(t) : e = t[j]
      BY <1>1, <1>4 DEF ToSet
    <2>2. CASE j < r
      BY <1>1, <1>2, <2>1, <2>2 DEF ToSet
    <2>3. CASE ~ j < r
      <3>1. e = s[j + 1] /\ j + 1 \in 1 .. Len(s) /\ j + 1 # r
        BY <1>1, <2>1, <2>3
      <3> QED BY <1>2, <3>1 DEF ToSet
    <2> QED BY <2>2, <2>3
  <1>5. ASSUME NEW e \in ToSet(s) \ {s[r]} PROVE e \in ToSet(t)
    <2>1. PICK i \in 1 .. Len(s) : e = s[i]
      BY <1>5 DEF ToSet
    <2>2. CASE i < r
      BY <1>1, <2>1, <2>2 DEF ToSet
    <2>3. CASE i > r
      <3>1. i - 1 \in 1 .. Len(t) /\ t[i - 1] = e
        BY <1>1, <2>1, <2>3
      <3> QED BY <1>1, <3>1 DEF ToSet
    <2> QED BY <1>5, <2>1, <2>2, <2>3
  <1> QED BY <1>3, <1>4, <1>5 DEF t

LEMMA AppendSet ==
    ASSUME NEW S, NEW s \in Seq(S), NEW e \in S
    PROVE  /\ Append(s, e) \in Seq(S)
           /\ ToSet(Append(s, e)) = ToSet(s) \cup {e}
           /\ IsInjective(s) /\ e \notin ToSet(s) => IsInjective(Append(s, e))
  <1>1. /\ Append(s, e) \in Seq(S) /\ Len(Append(s, e)) = Len(s) + 1
        /\ \A i \in 1 .. Len(s) : Append(s, e)[i] = s[i]
        /\ Append(s, e)[Len(s) + 1] = e
    OBVIOUS
  <1>2. ToSet(Append(s, e)) = ToSet(s) \cup {e}
    BY <1>1 DEF ToSet
  <1>3. ASSUME IsInjective(s), e \notin ToSet(s) PROVE IsInjective(Append(s, e))
    BY <1>1, <1>3 DEF IsInjective, ToSet
  <1> QED BY <1>1, <1>2, <1>3

LEMMA PrependSet ==
    ASSUME NEW S, NEW s \in Seq(S), NEW e \in S
    PROVE  /\ <<e>> \o s \in Seq(S)
           /\ ToSet(<<e>> \o s) = ToSet(s) \cup {e}
           /\ IsInjective(s) /\ e \notin ToSet(s) => IsInjective(<<e>> \o s)
  <1>1. /\ <<e>> \o s \in Seq(S) /\ Len(<<e>> \o s) = Len(s) + 1
        /\ \A i \in 1 .. Len(s) : (<<e>> \o s)[i + 1] = s[i]
        /\ (<<e>> \o s)[1] = e
        /\ \A i \in 2 .. Len(s) + 1 : (<<e>> \o s)[i] = s[i - 1]
    OBVIOUS
  <1>2. ToSet(<<e>> \o s) = ToSet(s) \cup {e}
    <2> DEFINE t == <<e>> \o s
    <2>1. /\ t \in Seq(S) /\ Len(t) = Len(s) + 1 /\ t[1] = e
          /\ \A i \in 1 .. Len(s) : i + 1 \in 1 .. Len(t) /\ t[i + 1] = s[i]
          /\ \A i \in 2 .. Len(t) : i - 1 \in 1 .. Len(s) /\ t[i] = s[i - 1]
      BY <1>1
    <2> HIDE DEF t
    <2>2. ToSet(s) = { s[i] : i \in 1 .. Len(s) } /\ ToSet(t) = { t[i] : i \in 1 .. Len(t) }
      BY <2>1, ToSetOfSeq
    <2>3. ToSet(s) \cup {e} \subseteq ToSet(t)
      BY <2>1, <2>2
    <2>4. ASSUME NEW i \in 1 .. Len(t) PROVE t[i] \in ToSet(s) \cup {e}
      BY <2>1, <2>2
    <2>5. ToSet(t) \subseteq ToSet(s) \cup {e}
      BY <2>2, <2>4
    <2> QED BY <2>3, <2>5 DEF t
  <1>3. ASSUME IsInjective(s), e \notin ToSet(s) PROVE IsInjective(<<e>> \o s)
    <2> SUFFICES ASSUME NEW i \in 1 .. Len(s) + 1, NEW j \in 1 .. Len(s) + 1,
                        (<<e>> \o s)[i] = (<<e>> \o s)[j]
                 PROVE  i = j
      BY <1>1 DEF IsInjective
    <2>1. \A k \in 2 .. Len(s) + 1 : s[k - 1] # e
      BY <1>3 DEF ToSet
    <2> QED BY <1>1, <1>3, <2>1 DEF IsInjective
  <1> QED BY <1>1, <1>2, <1>3

(* Taking out an element that occurs once, or not at all. *)
LEMMA RemoveFirstSet ==
    ASSUME NEW S, NEW s \in Seq(S), NEW e, IsInjective(s)
    PROVE  /\ RemoveFirst(s, e) \in Seq(S)
           /\ IsInjective(RemoveFirst(s, e))
           /\ ToSet(RemoveFirst(s, e)) = ToSet(s) \ {e}
  <1>1. CASE e \in ToSet(s)
    <2> PICK r \in 1 .. Len(s) : s[r] = e
      BY <1>1 DEF ToSet
    <2>1. { i \in 1 .. Len(s) : s[i] = e } = {r}
      BY DEF IsInjective
    <2>2. SelectInSeq(s, LAMBDA v : v = e) = r
      <3>1. Min({r}) = r
        BY DEF Min
      <3> QED BY <2>1, <3>1 DEF SelectInSeq
    <2>3. RemoveFirst(s, e) = RemoveAt(s, r)
      BY <2>2 DEF RemoveFirst
    <2> QED BY <2>3, RemoveAtShape, RemoveAtSet
  <1>2. CASE e \notin ToSet(s)
    <2>1. RemoveFirst(s, e) = s
      BY <1>2 DEF RemoveFirst, ToSet
    <2> QED BY <1>2, <2>1
  <1> QED BY <1>1, <1>2

(* What is left when the first element is taken. *)
LEMMA TailSet ==
    ASSUME NEW S, NEW s \in Seq(S), s # <<>>
    PROVE  /\ Tail(s) \in Seq(S)
           /\ Head(s) \in ToSet(s) /\ ToSet(Tail(s)) \subseteq ToSet(s)
           /\ ToSet(s) = {Head(s)} \cup ToSet(Tail(s))
           /\ IsInjective(s) => IsInjective(Tail(s)) /\ Head(s) \notin ToSet(Tail(s))
  <1>1. /\ Tail(s) \in Seq(S) /\ Len(s) \in Nat \ {0} /\ Len(Tail(s)) = Len(s) - 1
        /\ Head(s) = s[1] /\ \A i \in 1 .. Len(s) - 1 : Tail(s)[i] = s[i + 1]
    OBVIOUS
  <1>2. /\ ToSet(s) = { s[i] : i \in 1 .. Len(s) }
        /\ ToSet(Tail(s)) = { Tail(s)[i] : i \in 1 .. Len(s) - 1 }
    <2>1. DOMAIN Tail(s) = 1 .. Len(s) - 1 /\ DOMAIN s = 1 .. Len(s)
      BY <1>1
    <2> QED BY <2>1 DEF ToSet
  <1>3. Head(s) \in ToSet(s) /\ ToSet(Tail(s)) \subseteq ToSet(s)
    BY <1>1, <1>2
  <1>4. ToSet(s) \subseteq {Head(s)} \cup ToSet(Tail(s))
    <2> SUFFICES ASSUME NEW i \in 1 .. Len(s), i # 1 PROVE s[i] \in ToSet(Tail(s))
      BY <1>1, <1>2
    <2>1. i - 1 \in 1 .. Len(s) - 1 /\ Tail(s)[i - 1] = s[i]
      BY <1>1
    <2> QED BY <1>2, <2>1
  <1>5. ASSUME IsInjective(s) PROVE IsInjective(Tail(s)) /\ Head(s) \notin ToSet(Tail(s))
    <2>1. \A i, j \in 1 .. Len(s) : s[i] = s[j] => i = j
      BY <1>5 DEF IsInjective
    <2>2. DOMAIN Tail(s) = 1 .. Len(s) - 1
      BY <1>1
    <2>3. IsInjective(Tail(s))
      BY <1>1, <2>1, <2>2 DEF IsInjective
    <2> QED BY <1>1, <1>2, <2>1, <2>3
  <1> QED BY <1>1, <1>3, <1>4, <1>5

(* A function on 1 .. n is a list of n elements. *)
LEMMA FunctionIsSeq ==
    ASSUME NEW S, NEW n \in Nat, NEW f \in [1 .. n -> S]
    PROVE  f \in Seq(S) /\ Len(f) = n
  <1>1. f \in Seq(S)
    <2>1. [1 .. n -> S] \in { [1 .. m -> S] : m \in Nat }
      OBVIOUS
    <2> QED BY <2>1, SeqDef
  <1>2. Len(f) \in Nat /\ 1 .. Len(f) = 1 .. n
    BY <1>1
  <1> QED BY <1>1, <1>2

(* The lists of a finite set's elements, and the one that is taken. *)
LEMMA SetToSeqsOfSet ==
    ASSUME NEW S, IsFiniteSet(S), NEW f \in SetToSeqs(S)
    PROVE  f \in Seq(S) /\ Len(f) = Cardinality(S) /\ IsInjective(f)
  <1>1. f \in [1 .. Cardinality(S) -> S] /\ Cardinality(S) \in Nat
    BY FS_CardinalityType DEF SetToSeqs
  <1>2. IsInjective(f)
    BY <1>1 DEF SetToSeqs, IsInjective
  <1> QED BY <1>1, <1>2, FunctionIsSeq

LEMMA RangeIsToSet == \A s : Range(s) = ToSet(s)
  BY DEF Range, ToSet

(* A list of a finite set has all of its elements. *)
LEMMA ListOfAll ==
    ASSUME NEW S, IsFiniteSet(S), NEW list \in SetToSeqs(S)
    PROVE  list \in Seq(S) /\ IsInjective(list) /\ Range(list) = S
  <1>1. list \in Seq(S) /\ Len(list) = Cardinality(S) /\ IsInjective(list)
    BY SetToSeqsOfSet
  <1>2. list \in [1 .. Cardinality(S) -> S]
    BY DEF SetToSeqs
  <1>3. list \in Injection(1 .. Cardinality(S), S)
    BY <1>1, <1>2 DEF Injection, IsInjective
  <1>4. Cardinality(S) \in Nat
    BY FS_CardinalityType
  <1>5. Cardinality(1 .. Cardinality(S)) = Cardinality(S)
    BY <1>4, FS_Interval
  <1>6. list \in Surjection(1 .. Cardinality(S), S)
    BY <1>3, <1>5, FS_Injection
  <1> QED BY <1>1, <1>2, <1>6 DEF Surjection, Range

LEMMA SetToSeqOfSet ==
    ASSUME NEW S, IsFiniteSet(S)
    PROVE  /\ SetToSeq(S) \in Seq(S) /\ Len(SetToSeq(S)) = Cardinality(S)
           /\ IsInjective(SetToSeq(S))
  <1>1. Cardinality(S) \in Nat /\ ExistsBijection(1 .. Cardinality(S), S)
    BY FS_CardinalityType
  <1>2. \E f \in [1 .. Cardinality(S) -> S] : IsInjective(f)
    BY <1>1 DEF ExistsBijection, Bijection, Injection
  <1>3. SetToSeq(S) \in [1 .. Cardinality(S) -> S] /\ IsInjective(SetToSeq(S))
    BY <1>2 DEF SetToSeq
  <1> QED BY <1>1, <1>3, FunctionIsSeq

(* What a list without duplicates begins with has none either. *)
LEMMA PrefixSet ==
    ASSUME NEW S, NEW s \in Seq(S), IsInjective(s), NEW n \in 0 .. Len(s)
    PROVE  /\ SubSeq(s, 1, n) \in Seq(S) /\ Len(SubSeq(s, 1, n)) = n
           /\ IsInjective(SubSeq(s, 1, n))
  <1> DEFINE p == SubSeq(s, 1, n)
  <1>1. p \in Seq(S) /\ Len(p) = n /\ \A i \in 1 .. n : p[i] = s[i]
    BY SubSeqProperties
  <1> HIDE DEF p
  <1>2. DOMAIN p = 1 .. n /\ DOMAIN s = 1 .. Len(s)
    BY <1>1
  <1>3. IsInjective(p)
    BY <1>1, <1>2 DEF IsInjective
  <1> QED BY <1>1, <1>3 DEF p

LEMMA ToSetFinite ==
    ASSUME NEW S, NEW s \in Seq(S)
    PROVE  IsFiniteSet(ToSet(s))
  <1>1. /\ DOMAIN s = 1 .. Len(s) /\ Len(s) \in Int
        /\ s \in [1 .. Len(s) -> ToSet(s)]
        /\ \A t \in ToSet(s) : \E i \in 1 .. Len(s) : s[i] = t
    BY DEF ToSet
  <1>2. IsFiniteSet(1 .. Len(s))
    <2>1. 1 \in Int
      OBVIOUS
    <2> QED BY <1>1, <2>1, FS_Interval
  <1>3. s \in Surjection(1 .. Len(s), ToSet(s))
    BY <1>1 DEF Surjection
  <1> QED BY <1>2, <1>3, FS_Surjection

(* How many of a list's elements are in a set. *)
PositionsIn(s, S) == { i \in 1 .. Len(s) : s[i] \in S }
CountIn(s, S) == Cardinality(PositionsIn(s, S))

LEMMA CountIsNat ==
    ASSUME NEW T, NEW s \in Seq(T), NEW S
    PROVE  /\ IsFiniteSet(PositionsIn(s, S)) /\ CountIn(s, S) \in Nat
           /\ CountIn(s, S) = 0 <=> \A i \in 1 .. Len(s) : s[i] \notin S
  <1>1. IsFiniteSet(1 .. Len(s))
    BY FS_Interval
  <1>2. IsFiniteSet(PositionsIn(s, S))
    BY <1>1, FS_Subset DEF PositionsIn
  <1>3. CountIn(s, S) = 0 <=> PositionsIn(s, S) = {}
    BY <1>2, FS_EmptySet DEF CountIn
  <1> QED BY <1>2, <1>3, FS_CardinalityType DEF CountIn, PositionsIn

LEMMA CountOfNone ==
    ASSUME NEW S
    PROVE  CountIn(<<>>, S) = 0
  BY FS_EmptySet DEF CountIn, PositionsIn

LEMMA CountAppended ==
    ASSUME NEW T, NEW s \in Seq(T), NEW e \in T, NEW S
    PROVE  CountIn(Append(s, e), S) = CountIn(s, S) + (IF e \in S THEN 1 ELSE 0)
  <1> DEFINE t == Append(s, e)
  <1>1. /\ t \in Seq(T) /\ Len(t) = Len(s) + 1 /\ Len(s) \in Nat
        /\ \A i \in 1 .. Len(t) : t[i] = IF i = Len(s) + 1 THEN e ELSE s[i]
    OBVIOUS
  <1> HIDE DEF t
  <1>2. PositionsIn(t, S) = IF e \in S THEN PositionsIn(s, S) \cup {Len(s) + 1}
                            ELSE PositionsIn(s, S)
    BY <1>1 DEF PositionsIn
  <1>3. Len(s) + 1 \notin PositionsIn(s, S)
    BY <1>1 DEF PositionsIn
  <1>4. IsFiniteSet(PositionsIn(s, S)) /\ CountIn(s, S) \in Nat
    BY CountIsNat
  <1>5. Cardinality(PositionsIn(s, S) \cup {Len(s) + 1}) = Cardinality(PositionsIn(s, S)) + 1
    BY <1>3, <1>4, FS_AddElement
  <1>6. CountIn(t, S) = CountIn(s, S) + (IF e \in S THEN 1 ELSE 0)
    BY <1>2, <1>4, <1>5 DEF CountIn
  <1> QED BY <1>6 DEF t

LEMMA CountOfTail ==
    ASSUME NEW T, NEW s \in Seq(T), s # <<>>, NEW S
    PROVE  CountIn(s, S) = CountIn(Tail(s), S) + (IF Head(s) \in S THEN 1 ELSE 0)
  <1> DEFINE t == Tail(s)
             shift == [i \in PositionsIn(t, S) |-> i + 1]
  <1>1. /\ t \in Seq(T) /\ Len(s) \in Nat \ {0} /\ Len(t) = Len(s) - 1 /\ Head(s) = s[1]
        /\ \A i \in 1 .. Len(t) : t[i] = s[i + 1]
    OBVIOUS
  <1> HIDE DEF t
  <1>2. IsFiniteSet(PositionsIn(t, S)) /\ CountIn(t, S) \in Nat
    BY <1>1, CountIsNat
  <1>3. \A i \in PositionsIn(t, S) : i + 1 \in PositionsIn(s, S) \ {1}
    BY <1>1 DEF PositionsIn
  <1>4. \A k \in PositionsIn(s, S) \ {1} : k - 1 \in PositionsIn(t, S)
    BY <1>1 DEF PositionsIn
  <1>5. PositionsIn(t, S) \subseteq Int /\ PositionsIn(s, S) \subseteq Int
    BY <1>1 DEF PositionsIn
  <1>6. shift \in Bijection(PositionsIn(t, S), PositionsIn(s, S) \ {1})
    <2>1. shift \in Injection(PositionsIn(t, S), PositionsIn(s, S) \ {1})
      BY <1>3, <1>5 DEF Injection, IsInjective
    <2>2. \A k \in PositionsIn(s, S) \ {1} : shift[k - 1] = k
      BY <1>4, <1>5
    <2>3. shift \in Surjection(PositionsIn(t, S), PositionsIn(s, S) \ {1})
      BY <1>4, <2>1, <2>2 DEF Surjection, Injection
    <2> QED BY <2>1, <2>3 DEF Bijection
  <1>7. /\ IsFiniteSet(PositionsIn(s, S) \ {1})
        /\ Cardinality(PositionsIn(s, S) \ {1}) = CountIn(t, S)
    <2> HIDE DEF shift
    <2> QED BY <1>2, <1>6, FS_Bijection DEF CountIn, ExistsBijection
  <1>8. CASE Head(s) \in S
    <2>1. 1 \in PositionsIn(s, S)
      BY <1>1, <1>8 DEF PositionsIn
    <2>2. PositionsIn(s, S) = (PositionsIn(s, S) \ {1}) \cup {1}
      BY <2>1
    <2>3. Cardinality((PositionsIn(s, S) \ {1}) \cup {1})
              = Cardinality(PositionsIn(s, S) \ {1}) + 1
      BY <1>7, FS_AddElement
    <2> QED BY <1>7, <1>8, <2>2, <2>3 DEF CountIn, t
  <1>9. CASE Head(s) \notin S
    <2>1. PositionsIn(s, S) \ {1} = PositionsIn(s, S)
      BY <1>1, <1>9 DEF PositionsIn
    <2> QED BY <1>2, <1>7, <1>9, <2>1 DEF CountIn, t
  <1> QED BY <1>8, <1>9

(* The empty list. *)
LEMMA EmptyList ==
    /\ \A S : <<>> \in Seq(S)
    /\ IsInjective(<<>>) /\ ToSet(<<>>) = {} /\ DOMAIN <<>> = {}
  <1>1. DOMAIN <<>> = {}
    OBVIOUS
  <1> QED BY <1>1, EmptySeq DEF IsInjective, ToSet

(* A list with no second element. *)
LEMMA OneElement ==
    ASSUME NEW S, NEW q \in Seq(S), q # <<>>, \A i \in 1..Len(q) : i = 1
    PROVE  q[1] \in S /\ q = <<q[1]>> /\ 1 \in 1..Len(q)
  <1>1. Len(q) \in Nat \ {0}
    OBVIOUS
  <1>2. Len(q) \in 1..Len(q)
    BY <1>1
  <1>3. Len(q) = 1
    BY <1>2
  <1> QED BY <1>3

(* The greatest of some numbers. *)
LEMMA MaxIs ==
    ASSUME NEW S, S \subseteq Int, NEW n \in S, \A y \in S : y <= n
    PROVE  Max(S) = n
  <1>1. \E x \in S : \A y \in S : x >= y
    OBVIOUS
  <1> DEFINE m == Max(S)
  <1>2. m \in S /\ \A y \in S : m >= y
    BY <1>1, Zenon DEF Max
  <1> HIDE DEF m
  <1>3. m = n
    BY <1>2
  <1> QED BY <1>3 DEF m

(* Moving an element to the end. *)
LEMMA MovedToEnd ==
    ASSUME NEW S, NEW s \in Seq(S), IsInjective(s), NEW e \in ToSet(s)
    PROVE  LET t == Append(RemoveFirst(s, e), e)
           IN  t \in Seq(S) /\ IsInjective(t) /\ ToSet(t) = ToSet(s)
  <1>1. e \in S
    BY ToSetOfSeq
  <1>2. PICK rest : rest = RemoveFirst(s, e)
    OBVIOUS
  <1>3. rest \in Seq(S) /\ IsInjective(rest) /\ ToSet(rest) = ToSet(s) \ {e}
    BY <1>2, RemoveFirstSet
  <1>4. /\ Append(rest, e) \in Seq(S) /\ ToSet(Append(rest, e)) = ToSet(rest) \cup {e}
        /\ IsInjective(Append(rest, e))
    BY <1>1, <1>3, AppendSet
  <1>5. (ToSet(s) \ {e}) \cup {e} = ToSet(s)
    OBVIOUS
  <1> QED BY <1>2, <1>3, <1>4, <1>5
=============================================================================
