------------------------ MODULE ParticipantStateProofs ------------------------
(***************************************************************************)
(* Proofs about participants' documents and connection numbers, for every  *)
(* set of requests that draw as the game does, masks and range of          *)
(* integers.                                                               *)
(*                                                                         *)
(* What a fold over a mask computes is proved by induction on how far it   *)
(* has come: were it wrong somewhere, there would be a least number of     *)
(* paths after which it is.                                                *)
(***************************************************************************)
EXTENDS ParticipantState, SequenceTheorems, WellFoundedInduction, TLAPS

-----------------------------------------------------------------------------
(* Induction *)

\* A set of natural numbers has a least element.
LEMMA Least ==
  ASSUME NEW T \in SUBSET Nat, T # {}
  PROVE  \E n \in T : \A m \in Nat : m < n => m \notin T
<1> DEFINE R == OpToRel(<, Nat)
<1>1. IsWellFoundedOn(R, Nat)
  BY NatLessThanWellFounded
<1>2. \A x, y \in Nat : <<x, y>> \in R <=> x < y
  BY DEF OpToRel
<1> HIDE DEF R
<1>3. PICK n \in T : \A m \in T : ~(<<m, n>> \in R)
  BY <1>1, WFMin
<1>4. ASSUME NEW m \in Nat, m < n
      PROVE  m \notin T
  BY <1>2, <1>3, <1>4
<1> QED BY <1>3, <1>4

\* Induction: a set that has 0 and with each number the next has them all.
LEMMA Induction ==
  ASSUME NEW S, 0 \in S, \A n \in Nat : n \in S => n + 1 \in S
  PROVE  Nat \subseteq S
<1> SUFFICES ASSUME Nat \ S # {} PROVE FALSE
  OBVIOUS
<1>1. PICK n \in (Nat \ S) : \A m \in Nat : m < n => m \notin (Nat \ S)
  BY Least, Zenon
<1>2. n # 0 /\ n - 1 \in Nat /\ n - 1 < n /\ (n - 1) + 1 = n
  BY <1>1
<1> QED BY <1>1, <1>2

\* A set whose elements lie in 1..n has n as its maximum if it has it at all.
LEMMA LastIsMax ==
  ASSUME NEW n \in Nat, NEW s \in SUBSET (1..n), n \in s
  PROVE  Max(s) = n
<1> DEFINE Greatest(x) == x \in s /\ \A y \in s : x >= y
<1>1. Greatest(n)
  OBVIOUS
<1>2. \A x : Greatest(x) => x = n
  <2> SUFFICES ASSUME NEW x, Greatest(x) PROVE x = n
    OBVIOUS
  <2>1. x \in 1..n /\ x >= n
    OBVIOUS
  <2> QED BY <2>1
<1>3. Max(s) = CHOOSE x : Greatest(x)
  BY DEF Max
<1> HIDE DEF Greatest
<1> QED BY <1>1, <1>2, <1>3

\* What copying the fields of a mask does, one path after the other.
LEMMA CopyMaskedSteps ==
  ASSUME NEW into, NEW from, NEW mask \in Seq(Path)
  PROVE  \E c : /\ c[0] = into
                /\ c[Len(mask)] = CopyMasked(into, from, mask)
                /\ \A k \in 1..Len(mask) :
                     c[k] = SetField(c[k - 1], mask[k], ReadField(from, mask[k]))
<1> DEFINE n == Len(mask)
           Step(x, i) == SetField(x, mask[i], ReadField(from, mask[i]))
           Body(f, s) == IF s = {} THEN into ELSE Step(f[s \ {Max(s)}], Max(s))
           copy[s \in SUBSET (1..n)] ==
             IF s = {} THEN into ELSE Step(copy[s \ {Max(s)}], Max(s))
           Defined(m) == \E f : f = [s \in SUBSET (1..m) |-> Body(f, s)]
           S == {m \in Nat : Defined(m)}
<1>1. CopyMasked(into, from, mask) = copy[1..n]
  <2>1. DOMAIN mask = 1..n
    OBVIOUS
  <2> QED BY <2>1 DEF CopyMasked, FoldLeft, MapThenFoldSet
<1>2. 0 \in S
  <2> DEFINE f == [s \in SUBSET (1..0) |-> into]
  <2>1. \A s \in SUBSET (1..0) : s = {}
    OBVIOUS
  <2>2. f = [s \in SUBSET (1..0) |-> Body(f, s)]
    BY <2>1
  <2> QED BY <2>2
<1>3. ASSUME NEW m \in Nat, m \in S
      PROVE  m + 1 \in S
  <2>1. PICK f : f = [s \in SUBSET (1..m) |-> Body(f, s)]
    BY <1>3
  <2> DEFINE g == [s \in SUBSET (1..m + 1) |->
                     IF m + 1 \in s THEN Step(f[s \ {m + 1}], m + 1) ELSE f[s]]
  <2>2. ASSUME NEW s \in SUBSET (1..m + 1), m + 1 \in s
        PROVE  g[s] = Body(g, s)
    <3>1. Max(s) = m + 1
      BY <2>2, LastIsMax
    <3>2. s \ {m + 1} \in SUBSET (1..m) /\ m + 1 \notin s \ {m + 1}
      OBVIOUS
    <3>3. s \ {m + 1} \in SUBSET (1..m + 1)
      OBVIOUS
    <3>4. g[s \ {m + 1}] = f[s \ {m + 1}]
      BY <3>2, <3>3
    <3>5. g[s] = Step(f[s \ {m + 1}], m + 1)
      BY <2>2
    <3> HIDE DEF g, Step
    <3> QED BY <2>2, <3>1, <3>4, <3>5
  <2>3. ASSUME NEW s \in SUBSET (1..m + 1), m + 1 \notin s
        PROVE  g[s] = Body(g, s)
    <3>1. s \in SUBSET (1..m)
      BY <2>3
    <3>2. g[s] = f[s] /\ f[s] = Body(f, s)
      BY <2>1, <2>3, <3>1
    <3>3. CASE s = {}
      <4> HIDE DEF g
      <4> QED BY <3>2, <3>3
    <3>4. CASE s # {}
      <4>1. s \ {Max(s)} \in SUBSET (1..m) /\ m + 1 \notin s \ {Max(s)}
        BY <2>3, <3>1
      <4>2. s \ {Max(s)} \in SUBSET (1..m + 1)
        OBVIOUS
      <4>3. g[s \ {Max(s)}] = f[s \ {Max(s)}]
        BY <4>1, <4>2
      <4> HIDE DEF g, Step
      <4> QED BY <3>2, <3>4, <4>3
    <3> QED BY <3>3, <3>4
  <2>4. g = [s \in SUBSET (1..m + 1) |-> g[s]]
    OBVIOUS
  <2>5. g = [s \in SUBSET (1..m + 1) |-> Body(g, s)]
    <3> HIDE DEF g, Body
    <3> QED BY <2>2, <2>3, <2>4
  <2> HIDE DEF g, Body
  <2> QED BY <2>5
<1>4. copy = [s \in SUBSET (1..n) |-> Body(copy, s)]
  <2>1. n \in S
    <3> HIDE DEF S
    <3> QED BY <1>2, <1>3, Induction
  <2>2. \E f : f = [s \in SUBSET (1..n) |-> IF s = {} THEN into ELSE Step(f[s \ {Max(s)}], Max(s))]
    BY <2>1
  <2> HIDE DEF Step
  <2> QED BY <2>2 DEF copy
<1> HIDE DEF copy
<1> DEFINE c == [k \in 0..n |-> copy[1..k]]
<1>5. c[0] = into
  BY <1>4
<1>6. c[n] = CopyMasked(into, from, mask)
  BY <1>1
<1>7. ASSUME NEW k \in 1..n
      PROVE  c[k] = Step(c[k - 1], k)
  <2>1. 1..k \in SUBSET (1..n) /\ 1..k # {} /\ k \in 1..k /\ (1..k) \ {k} = 1..(k - 1)
    OBVIOUS
  <2>2. Max(1..k) = k
    BY <2>1, LastIsMax
  <2>3. copy[1..k] = Step(copy[1..(k - 1)], k)
    <3> HIDE DEF Step
    <3> QED BY <1>4, <2>1, <2>2
  <2>4. c[k] = copy[1..k] /\ c[k - 1] = copy[1..(k - 1)]
    OBVIOUS
  <2> HIDE DEF c, Step
  <2> QED BY <2>3, <2>4
<1> HIDE DEF c
<1> QED BY <1>5, <1>6, <1>7
-----------------------------------------------------------------------------
(* Values and fields *)

\* A path names a field, or a field of a field.
LEMMA PathShape ==
  ASSUME NEW p \in Path
  PROVE  /\ p[1] \in Key
         /\ \/ Len(p) = 1 /\ p = <<p[1]>>
            \/ Len(p) = 2 /\ p[2] \in Inner /\ p = <<p[1], p[2]>>
<1>1. CASE p \in {<<k>> : k \in Key}
  BY <1>1
<1>2. CASE p \in Key \X Inner
  BY <1>2
<1> QED BY <1>1, <1>2 DEF Path

\* The number is a field of its own.
LEMMA NumberPath == Number \in Key /\ <<Number>> \in Path
  BY ParticipantAssumption DEF Path

\* A value has fields, if only absent ones.
LEMMA FieldsOfType ==
  ASSUME NEW v \in Value
  PROVE  FieldsOf(v) \in [Inner -> Scalar]
<1>1. None \in Scalar
  BY DEF Scalar
<1>2. CASE v \in Scalar
  <2>1. v.kind # "map"
    BY <1>2 DEF Scalar, None, Time, IntegerValue
  <2> QED BY <1>1, <2>1 DEF FieldsOf
<1>3. CASE v \in {Map(f) : f \in [Inner -> Scalar]}
  BY <1>3 DEF FieldsOf, Map
<1> QED BY <1>2, <1>3 DEF Value

\* Fields make a value that is a map of them.
LEMMA MapIsValue ==
  ASSUME NEW f \in [Inner -> Scalar]
  PROVE  Map(f) \in Value /\ Map(f).kind = "map" /\ FieldsOf(Map(f)) = f
<1>1. Map(f) \in Value
  BY DEF Value
<1> QED BY <1>1 DEF FieldsOf, Map

\* A value that is a map is the map of its fields.
LEMMA MapOfFields ==
  ASSUME NEW v \in Value, v.kind = "map"
  PROVE  v = Map(FieldsOf(v))
<1>1. v \notin Scalar
  BY DEF Scalar, None, Time, IntegerValue
<1>2. PICK f \in [Inner -> Scalar] : v = Map(f)
  BY <1>1 DEF Value
<1> QED BY <1>2, MapIsValue

\* A document without any field.
LEMMA EmptyType == Empty \in Fields /\ (\A k \in Key : Empty[k] = None) /\ None \in Scalar
<1>1. None \in Scalar /\ None \in Value
  BY DEF Scalar, Value
<1> QED BY <1>1 DEF Empty, Fields

\* A value that can be put at a path.
Fits(value, path) == value \in Value /\ (Len(path) = 2 => value \in Scalar)

\* What is read fits where it was read.
LEMMA ReadFieldFits ==
  ASSUME NEW fields \in Fields, NEW path \in Path
  PROVE  Fits(ReadField(fields, path), path)
<1>1. path[1] \in Key /\ fields[path[1]] \in Value
  BY PathShape DEF Fields
<1>2. CASE Len(path) = 1
  BY <1>1, <1>2 DEF Fits, ReadField
<1>3. CASE Len(path) = 2 /\ path[2] \in Inner
  <2>1. FieldsOf(fields[path[1]])[path[2]] \in Scalar
    BY <1>1, <1>3, FieldsOfType
  <2> QED BY <1>3, <2>1 DEF Fits, ReadField, Value
<1> QED BY <1>2, <1>3, PathShape

\* A nested path leads to a map, in which that one field is another.
LEMMA InnerFieldIs ==
  ASSUME NEW fields \in Fields, NEW path \in Path, NEW value, Fits(value, path),
         Len(path) = 2
  PROVE  [FieldsOf(fields[path[1]]) EXCEPT ![path[2]] = value] \in [Inner -> Scalar]
<1>1. path[2] \in Inner /\ value \in Scalar
  BY PathShape DEF Fits
<1>2. fields[path[1]] \in Value
  BY PathShape DEF Fields
<1>3. FieldsOf(fields[path[1]]) \in [Inner -> Scalar]
  BY <1>2, FieldsOfType
<1> QED BY <1>1, <1>3

\* SetField changes one field.
LEMMA SetFieldElsewhere ==
  ASSUME NEW fields \in Fields, NEW path \in Path, NEW value, Fits(value, path)
  PROVE  /\ SetField(fields, path, value) \in Fields
         /\ \A k \in Key \ {path[1]} : SetField(fields, path, value)[k] = fields[k]
<1> DEFINE k == path[1]
           inner == [FieldsOf(fields[k]) EXCEPT ![path[2]] = value]
           new == IF Len(path) = 1 THEN value ELSE Map(inner)
<1>1. k \in Key
  BY PathShape
<1>2. SetField(fields, path, value) = [fields EXCEPT ![k] = new]
  BY DEF SetField
<1>3. new \in Value
  <2>1. CASE Len(path) = 1
    BY <2>1 DEF Fits
  <2>2. CASE Len(path) = 2
    <3>1. inner \in [Inner -> Scalar]
      BY <2>2, InnerFieldIs
    <3> HIDE DEF inner
    <3> QED BY <2>2, <3>1, MapIsValue
  <2> QED BY <2>1, <2>2, PathShape
<1> HIDE DEF new
<1> QED BY <1>1, <1>2, <1>3 DEF Fields

\* It changes it as a whole or, at a nested path, to a map.
LEMMA SetFieldThere ==
  ASSUME NEW fields \in Fields, NEW path \in Path, NEW value
  PROVE  /\ Len(path) = 1 => SetField(fields, path, value)[path[1]] = value
         /\ Len(path) = 2 => SetField(fields, path, value)[path[1]] =
                               Map([FieldsOf(fields[path[1]]) EXCEPT ![path[2]] = value])
<1>1. path[1] \in DOMAIN fields
  BY PathShape DEF Fields
<1> QED BY <1>1 DEF SetField

-----------------------------------------------------------------------------
(* Masks *)

\* On the way every copy has fields.
LEMMA CopyMaskedTrace ==
  ASSUME NEW into \in Fields, NEW from \in Fields, NEW mask \in Seq(Path)
  PROVE  \E c : /\ c[0] = into
                /\ c[Len(mask)] = CopyMasked(into, from, mask)
                /\ \A k \in 0..Len(mask) : c[k] \in Fields
                /\ \A k \in 0..Len(mask) - 1 :
                     c[k + 1] = SetField(c[k], mask[k + 1], ReadField(from, mask[k + 1]))
<1>1. PICK c : /\ c[0] = into
               /\ c[Len(mask)] = CopyMasked(into, from, mask)
               /\ \A k \in 1..Len(mask) :
                    c[k] = SetField(c[k - 1], mask[k], ReadField(from, mask[k]))
  BY CopyMaskedSteps
<1>2. ASSUME NEW n \in Nat, n + 1 <= Len(mask)
      PROVE  c[n + 1] = SetField(c[n], mask[n + 1], ReadField(from, mask[n + 1]))
  <2>1. n + 1 \in 1..Len(mask) /\ (n + 1) - 1 = n
    BY <1>2
  <2> QED BY <1>1, <2>1
<1> DEFINE S == {k \in Nat : k <= Len(mask) => c[k] \in Fields}
<1>3. 0 \in S
  BY <1>1
<1>4. ASSUME NEW n \in Nat, n \in S
      PROVE  n + 1 \in S
  <2> SUFFICES ASSUME n + 1 <= Len(mask) PROVE c[n + 1] \in Fields
    OBVIOUS
  <2> DEFINE path  == mask[n + 1]
             value == ReadField(from, path)
  <2>1. c[n] \in Fields /\ path \in Path
    BY <1>4
  <2>2. Fits(value, path)
    BY <2>1, ReadFieldFits
  <2>3. c[n + 1] = SetField(c[n], path, value)
    BY <1>2
  <2> HIDE DEF path, value, S
  <2> QED BY <2>1, <2>2, <2>3, SetFieldElsewhere
<1>5. Nat \subseteq S
  <2> HIDE DEF S
  <2> QED BY <1>3, <1>4, Induction
<1>6. \A k \in 0..Len(mask) : c[k] \in Fields
  BY <1>5
<1>7. \A k \in 0..Len(mask) - 1 : k \in Nat /\ k + 1 <= Len(mask)
  OBVIOUS
<1>8. \A k \in 0..Len(mask) - 1 :
        c[k + 1] = SetField(c[k], mask[k + 1], ReadField(from, mask[k + 1]))
  BY <1>2, <1>7
<1> QED BY <1>1, <1>6, <1>8

\* What copying one path of a mask does to a field.
LEMMA CopyOnePath ==
  ASSUME NEW fields \in Fields, NEW from \in Fields, NEW path \in Path, NEW key \in Key,
         NEW new, new = SetField(fields, path, ReadField(from, path))
  PROVE  /\ path[1] # key => new[key] = fields[key]
         /\ path = <<key>> => new[key] = from[key]
         /\ \A x \in Inner : path = <<key, x>> =>
              /\ FieldsOf(new[key])[x] = FieldsOf(from[key])[x]
              /\ \A y \in Inner \ {x} : FieldsOf(new[key])[y] = FieldsOf(fields[key])[y]
              /\ fields[key] = from[key] /\ from[key].kind = "map" => new[key] = from[key]
<1> DEFINE value == ReadField(from, path)
<1>1. Fits(value, path)
  BY ReadFieldFits
<1>2. path[1] # key => new[key] = fields[key]
  <2> HIDE DEF value
  <2> QED BY <1>1, SetFieldElsewhere DEF value
<1>3. ASSUME path = <<key>>
      PROVE  new[key] = from[key]
  <2>1. Len(path) = 1 /\ path[1] = key
    BY <1>3
  <2>2. value = from[key]
    BY <2>1 DEF ReadField
  <2> QED BY <2>1, <2>2, SetFieldThere
<1>4. ASSUME NEW x \in Inner, path = <<key, x>>
      PROVE  /\ FieldsOf(new[key])[x] = FieldsOf(from[key])[x]
             /\ \A y \in Inner \ {x} : FieldsOf(new[key])[y] = FieldsOf(fields[key])[y]
             /\ fields[key] = from[key] /\ from[key].kind = "map" => new[key] = from[key]
  <2> DEFINE inner == [FieldsOf(fields[key]) EXCEPT ![x] = value]
  <2>1. Len(path) = 2 /\ path[1] = key /\ path[2] = x
    BY <1>4
  <2>2. value = FieldsOf(from[key])[x]
    BY <2>1 DEF ReadField
  <2>3. new[key] = Map(inner)
    BY <2>1, SetFieldThere
  <2>4. inner \in [Inner -> Scalar]
    BY <1>1, <2>1, InnerFieldIs
  <2>5. FieldsOf(new[key]) = inner
    <3> HIDE DEF inner
    <3> QED BY <2>3, <2>4, MapIsValue
  <2>6. fields[key] \in Value /\ FieldsOf(fields[key]) \in [Inner -> Scalar]
    BY FieldsOfType DEF Fields
  <2>7. ASSUME fields[key] = from[key], from[key].kind = "map"
        PROVE  new[key] = from[key]
    <3>1. inner = FieldsOf(fields[key])
      BY <2>2, <2>6, <2>7
    <3> HIDE DEF inner
    <3> QED BY <2>3, <2>6, <2>7, <3>1, MapOfFields
  <2> HIDE DEF value
  <2> QED BY <2>2, <2>5, <2>6, <2>7
<1> QED BY <1>2, <1>3, <1>4

\* Copying gives fields, and keeps those that the mask says nothing of.
LEMMA CopyMaskedKeeps ==
  ASSUME NEW into \in Fields, NEW from \in Fields, NEW mask \in Seq(Path)
  PROVE  /\ CopyMasked(into, from, mask) \in Fields
         /\ \A key \in Key : (\A i \in 1..Len(mask) : mask[i][1] # key) =>
              CopyMasked(into, from, mask)[key] = into[key]
<1>1. PICK c : /\ c[0] = into
               /\ c[Len(mask)] = CopyMasked(into, from, mask)
               /\ \A k \in 0..Len(mask) : c[k] \in Fields
               /\ \A k \in 0..Len(mask) - 1 :
                    c[k + 1] = SetField(c[k], mask[k + 1], ReadField(from, mask[k + 1]))
  BY CopyMaskedTrace
<1>2. ASSUME NEW key \in Key, \A i \in 1..Len(mask) : mask[i][1] # key
      PROVE  c[Len(mask)][key] = into[key]
  <2> DEFINE S == {k \in Nat : k <= Len(mask) => c[k][key] = into[key]}
  <2>1. 0 \in S
    BY <1>1
  <2>2. ASSUME NEW n \in Nat, n \in S
        PROVE  n + 1 \in S
    <3> SUFFICES ASSUME n + 1 <= Len(mask) PROVE c[n + 1][key] = into[key]
      OBVIOUS
    <3>1. n \in 0..Len(mask) - 1 /\ n \in 0..Len(mask) /\ n + 1 \in 1..Len(mask)
      OBVIOUS
    <3>2. c[n] \in Fields /\ mask[n + 1] \in Path /\ mask[n + 1][1] # key
      BY <1>1, <1>2, <3>1
    <3>3. c[n + 1] = SetField(c[n], mask[n + 1], ReadField(from, mask[n + 1]))
      BY <1>1, <3>1
    <3>4. c[n][key] = into[key]
      BY <2>2
    <3> HIDE DEF S
    <3> QED BY <3>2, <3>3, <3>4, CopyOnePath
  <2>3. Nat \subseteq S
    <3> HIDE DEF S
    <3> QED BY <2>1, <2>2, Induction
  <2> QED BY <2>3
<1>3. c[Len(mask)] \in Fields
  BY <1>1
<1> QED BY <1>1, <1>2, <1>3

\* A field that the mask names is copied whole, unless the mask also names what
\* is in it and it is no map.
LEMMA CopyMaskedWhole ==
  ASSUME NEW into \in Fields, NEW from \in Fields, NEW mask \in Seq(Path), NEW key \in Key,
         \E i \in 1..Len(mask) : mask[i] = <<key>>,
         (\E i \in 1..Len(mask), x \in Inner : mask[i] = <<key, x>>) => from[key].kind = "map"
  PROVE  CopyMasked(into, from, mask)[key] = from[key]
<1>1. PICK c : /\ c[0] = into
               /\ c[Len(mask)] = CopyMasked(into, from, mask)
               /\ \A k \in 0..Len(mask) : c[k] \in Fields
               /\ \A k \in 0..Len(mask) - 1 :
                    c[k + 1] = SetField(c[k], mask[k + 1], ReadField(from, mask[k + 1]))
  BY CopyMaskedTrace
<1> DEFINE Named(k) == \E i \in 1..k : mask[i] = <<key>>
           S == {k \in Nat : k <= Len(mask) /\ Named(k) => c[k][key] = from[key]}
<1>2. 0 \in S
  OBVIOUS
<1>3. ASSUME NEW n \in Nat, n \in S
      PROVE  n + 1 \in S
  <2> SUFFICES ASSUME n + 1 <= Len(mask), Named(n + 1)
               PROVE  c[n + 1][key] = from[key]
    OBVIOUS
  <2> DEFINE path == mask[n + 1]
  <2>1. n \in 0..Len(mask) - 1 /\ n \in 0..Len(mask) /\ n + 1 \in 1..Len(mask)
    OBVIOUS
  <2>2. c[n] \in Fields /\ path \in Path
    BY <1>1, <2>1
  <2>3. c[n + 1] = SetField(c[n], path, ReadField(from, path))
    BY <1>1, <2>1
  <2>4. path # <<key>> => c[n][key] = from[key]
    BY <1>3
  <2>5. \A x \in Inner : path = <<key, x>> => from[key].kind = "map"
    BY <2>1
  <2>6. path = <<key>> \/ path[1] # key \/ \E x \in Inner : path = <<key, x>>
    BY <2>2, PathShape
  <2>7. path = <<key>> => path[1] = key
    OBVIOUS
  <2> HIDE DEF path, S, Named
  <2> QED BY <2>2, <2>3, <2>4, <2>5, <2>6, <2>7, CopyOnePath
<1>4. Nat \subseteq S
  <2> HIDE DEF S
  <2> QED BY <1>2, <1>3, Induction
<1>5. Named(Len(mask))
  OBVIOUS
<1> QED BY <1>1, <1>4, <1>5

\* What is in a field is copied with it or by itself.
LEMMA CopyMaskedInner ==
  ASSUME NEW into \in Fields, NEW from \in Fields, NEW mask \in Seq(Path),
         NEW key \in Key, NEW x \in Inner
  PROVE  FieldsOf(CopyMasked(into, from, mask)[key])[x] =
           IF \E i \in 1..Len(mask) : mask[i] \in {<<key>>, <<key, x>>}
           THEN FieldsOf(from[key])[x] ELSE FieldsOf(into[key])[x]
<1>1. PICK c : /\ c[0] = into
               /\ c[Len(mask)] = CopyMasked(into, from, mask)
               /\ \A k \in 0..Len(mask) : c[k] \in Fields
               /\ \A k \in 0..Len(mask) - 1 :
                    c[k + 1] = SetField(c[k], mask[k + 1], ReadField(from, mask[k + 1]))
  BY CopyMaskedTrace
<1> DEFINE Named(k) == \E i \in 1..k : mask[i] \in {<<key>>, <<key, x>>}
           Read(k)  == FieldsOf(c[k][key])[x]
           Exact(k) == /\ Named(k) => Read(k) = FieldsOf(from[key])[x]
                       /\ ~Named(k) => Read(k) = FieldsOf(into[key])[x]
           S == {k \in Nat : k <= Len(mask) => Exact(k)}
<1>2. 0 \in S
  BY <1>1
<1>3. ASSUME NEW n \in Nat, n \in S
      PROVE  n + 1 \in S
  <2> SUFFICES ASSUME n + 1 <= Len(mask) PROVE Exact(n + 1)
    OBVIOUS
  <2> DEFINE path == mask[n + 1]
             is   == path \in {<<key>>, <<key, x>>}
  <2>1. n \in 0..Len(mask) - 1 /\ n \in 0..Len(mask) /\ n + 1 \in 1..Len(mask)
    OBVIOUS
  <2>2. c[n] \in Fields /\ path \in Path
    BY <1>1, <2>1
  <2>3. c[n + 1] = SetField(c[n], path, ReadField(from, path))
    BY <1>1, <2>1
  <2>4. Exact(n)
    BY <1>3
  <2>5. Named(n + 1) <=> Named(n) \/ is
    <3>1. 1..(n + 1) = (1..n) \cup {n + 1}
      OBVIOUS
    <3> QED BY <3>1
  <2>6. is => Read(n + 1) = FieldsOf(from[key])[x]
    <3>1. CASE path = <<key>>
      BY <2>2, <2>3, <3>1, CopyOnePath
    <3>2. CASE path = <<key, x>>
      BY <2>2, <2>3, <3>2, CopyOnePath
    <3> QED BY <3>1, <3>2
  <2>7. ~is => Read(n + 1) = Read(n)
    <3>1. CASE path[1] # key
      BY <2>2, <2>3, <3>1, CopyOnePath
    <3>2. ASSUME NEW y \in Inner \ {x}, path = <<key, y>>
          PROVE  Read(n + 1) = Read(n)
      BY <2>2, <2>3, <3>2, CopyOnePath
    <3>3. is \/ path[1] # key \/ \E y \in Inner \ {x} : path = <<key, y>>
      BY <2>2, PathShape
    <3> HIDE DEF is, path, Read
    <3> QED BY <3>1, <3>2, <3>3
  <2> HIDE DEF is, Named, Read
  <2> QED BY <2>4, <2>5, <2>6, <2>7
<1>4. Nat \subseteq S
  <2> HIDE DEF S
  <2> QED BY <1>2, <1>3, Induction
<1>5. Exact(Len(mask))
  <2> HIDE DEF Exact
  <2> QED BY <1>4
<1> QED BY <1>1, <1>5

\* Two steps of a path are one step and another.
LEMMA PathBelow ==
  ASSUME NEW k, NEW x
  PROVE  <<k>> \o <<x>> = <<k, x>>
<1> DEFINE S == {k, x}
<1>1. <<k>> \in Seq(S) /\ <<x>> \in Seq(S) /\ <<k, x>> \in Seq(S)
  OBVIOUS
<1>2. /\ <<k>> \o <<x>> \in Seq(S)
      /\ Len(<<k>> \o <<x>>) = 2
      /\ (<<k>> \o <<x>>)[1] = k
      /\ (<<k>> \o <<x>>)[2] = x
  <2>1. Len(<<k>>) = 1 /\ Len(<<x>>) = 1
    OBVIOUS
  <2> HIDE DEF S
  <2> QED BY <1>1, <2>1, ConcatProperties
<1>3. \A i \in 1..Len(<<k>> \o <<x>>) : (<<k>> \o <<x>>)[i] = <<k, x>>[i]
  BY <1>2
<1>4. Len(<<k, x>>) = 2
  OBVIOUS
<1> HIDE DEF S
<1> QED BY <1>1, <1>2, <1>3, <1>4, SeqEqual

\* No path has more than two steps.
LEMMA PathLength ==
  ASSUME NEW p \in Path, NEW x
  PROVE  Len(p) \in {1, 2} /\ Len(p \o <<x>>) = Len(p) + 1
<1> DEFINE S == Key \cup Inner \cup {x}
<1>1. <<x>> \in Seq(S) /\ Len(<<x>>) = 1
  OBVIOUS
<1>2. p \in Seq(S) /\ Len(p) \in {1, 2}
  <2>1. CASE p \in {<<k>> : k \in Key}
    <3>1. PICK k \in Key : p = <<k>>
      BY <2>1
    <3>2. <<k>> \in Seq(S) /\ Len(<<k>>) = 1
      OBVIOUS
    <3> QED BY <3>1, <3>2
  <2>2. CASE p \in Key \X Inner
    <3>1. PICK k \in Key, y \in Inner : p = <<k, y>>
      BY <2>2
    <3>2. <<k, y>> \in Seq(S) /\ Len(<<k, y>>) = 2
      OBVIOUS
    <3> QED BY <3>1, <3>2
  <2> QED BY <2>1, <2>2 DEF Path
<1> HIDE DEF S
<1> QED BY <1>1, <1>2, ConcatProperties

\* MaskedReadExact, for any document and any mask.
LEMMA MaskedDocumentExact ==
  ASSUME NEW fields \in Fields, NEW mask \in Seq(Path), NEW path \in Path
  PROVE  LET named(p)  == \E i \in 1..Len(mask) : mask[i] = p
             inside(p) == named(p) \/ named(<<p[1]>>)
             below(p)  == \E x \in Inner : named(p \o <<x>>)
         IN  /\ inside(path) /\ (below(path) => fields[path[1]].kind = "map") =>
                  ReadField(MaskedDocument(fields, mask), path) = ReadField(fields, path)
             /\ ~inside(path) /\ ~below(path) =>
                  ReadField(MaskedDocument(fields, mask), path) = None
<1> DEFINE named(p)  == \E i \in 1..Len(mask) : mask[i] = p
           inside(p) == named(p) \/ named(<<p[1]>>)
           below(p)  == \E x \in Inner : named(p \o <<x>>)
           key  == path[1]
           read == CopyMasked(Empty, fields, mask)
<1>1. MaskedDocument(fields, mask) = read
  BY DEF MaskedDocument
<1>2. CASE Len(path) = 1 /\ path = <<key>>
  <2>1. \A f : ReadField(f, path) = f[key]
    BY <1>2 DEF ReadField
  <2>2. key \in Key /\ \A x \in Inner : path \o <<x>> = <<key, x>>
    <3>1. key \in Key
      BY PathShape
    <3> HIDE DEF key
    <3> QED BY <1>2, <3>1, PathBelow
  <2>3. ASSUME inside(path), below(path) => fields[key].kind = "map"
        PROVE  read[key] = fields[key]
    <3>1. \E i \in 1..Len(mask) : mask[i] = <<key>>
      BY <1>2, <2>3
    <3>2. (\E i \in 1..Len(mask), x \in Inner : mask[i] = <<key, x>>) => fields[key].kind = "map"
      BY <2>2, <2>3
    <3> HIDE DEF key, inside, below
    <3> QED BY <2>2, <3>1, <3>2, EmptyType, CopyMaskedWhole
  <2>4. ASSUME ~inside(path), ~below(path)
        PROVE  read[key] = None
    <3>1. ASSUME NEW i \in 1..Len(mask)
          PROVE  mask[i][1] # key
      <4>1. mask[i] \in Path /\ mask[i] # <<key>>
        BY <1>2, <2>4
      <4>2. \A x \in Inner : mask[i] # <<key, x>>
        BY <2>2, <2>4
      <4> HIDE DEF key
      <4> QED BY <4>1, <4>2, PathShape
    <3> HIDE DEF key, inside, below
    <3> QED BY <2>2, <3>1, EmptyType, CopyMaskedKeeps
  <2> HIDE DEF key, read, inside, below
  <2>5. /\ inside(path) /\ (below(path) => fields[key].kind = "map") =>
             ReadField(read, path) = ReadField(fields, path)
        /\ ~inside(path) /\ ~below(path) => ReadField(read, path) = None
    BY <2>1, <2>3, <2>4
  <2> QED BY <1>1, <2>5 DEF key, read, inside, below
<1>3. CASE Len(path) = 2 /\ path[2] \in Inner /\ path = <<key, path[2]>>
  <2> DEFINE x == path[2]
  <2>1. \A f : ReadField(f, path) = FieldsOf(f[key])[x]
    BY <1>3 DEF ReadField
  <2>2. key \in Key /\ x \in Inner
    BY <1>3, PathShape
  <2>3. inside(path) <=> \E i \in 1..Len(mask) : mask[i] \in {<<key>>, <<key, x>>}
    BY <1>3
  <2>4. ~ below(path)
    <3>1. ASSUME NEW y \in Inner, NEW i \in 1..Len(mask)
          PROVE  mask[i] # path \o <<y>>
      <4>1. mask[i] \in Path
        OBVIOUS
      <4> HIDE DEF key, x
      <4> QED BY <1>3, <4>1, PathLength
    <3> QED BY <3>1
  <2>5. FieldsOf(Empty[key])[x] = None
    BY <2>2 DEF Empty, FieldsOf, None
  <2> HIDE DEF key, x, read, inside, below
  <2>6. FieldsOf(read[key])[x] = IF inside(path) THEN FieldsOf(fields[key])[x] ELSE None
    BY <2>2, <2>3, <2>5, EmptyType, CopyMaskedInner DEF read
  <2>7. /\ inside(path) /\ (below(path) => fields[key].kind = "map") =>
             ReadField(read, path) = ReadField(fields, path)
        /\ ~inside(path) /\ ~below(path) => ReadField(read, path) = None
    BY <2>1, <2>6
  <2> QED BY <1>1, <2>7 DEF key, read, inside, below
<1> QED BY <1>2, <1>3, PathShape

-----------------------------------------------------------------------------
(***************************************************************************)
(* The invariant.  While a batch is under way its copies are right in the  *)
(* same way as what they are copies of, save the document in the middle of *)
(* a draw: there the number is what the draw has made of it so far.        *)
(***************************************************************************)
Document == Fields \cup {Missing}
Counter  == {None} \cup {IntegerValue(n) : n \in Word}

BatchRecord ==
  [writer : Writer, us : User, todo : Seq(Operation), document : Document,
   global : Counter, drawn : Seq(Word), told : Word]

\* n operations of the request r are done, the last k of them those of a draw
\* that is not complete.
Drawing(r, n, k) == k <= n /\ IsDraw(r, n + 1 - k)

\* A counter g, and the numbers d drawn from it.
Counted(g, d) ==
  /\ g = IF d = <<>> THEN None ELSE IntegerValue(d[Len(d)])
  /\ \A i \in 1..Len(d) - 1 : d[i] < d[i + 1]

\* A document has the number t that its participant was told.
Stored(document, t) ==
  t # NoNumber => document # Missing /\ document[Number] = IntegerValue(t)

\* What k transforms of a draw make of the number, as compared to the counter.
Ahead(v, g, k) ==
  /\ k = 1 /\ g # None => v = g
  /\ k > 1 => /\ \E a \in Word : v = IntegerValue(a)
              /\ g # None => v.n >= g.n
  /\ k > 2 /\ g # None => v.n > g.n

Progress(b, r, n) ==
  /\ b.todo = SubSeq(r, n + 1, Len(r))
  /\ \A k \in 1..3 : Drawing(r, n, k) =>
       b.document # Missing /\ Ahead(b.document[Number], b.global, k)
  /\ (\A k \in 1..3 : ~Drawing(r, n, k)) => Stored(b.document, b.told)

Right(b) ==
  /\ b \in BatchRecord
  /\ Counted(b.global, b.drawn)
  /\ \E r \in Request : \E n \in 0..Len(r) : Progress(b, r, n)

BatchInv == batch # NoBatch => Right(batch)

NumberInv ==
  /\ TypeOK
  /\ Counted(global, drawn)
  /\ \A us \in User : Stored(documents[us], told[us])
  /\ BatchInv

-----------------------------------------------------------------------------
(* Integers, transforms and requests *)

\* Words are integers, and zero is one.
LEMMA WordIs == Word \subseteq Int /\ 0 \in Word
  BY ParticipantAssumption DEF Word, MinInt

\* A sum that does not overflow is the sum.
LEMMA WrapIsSum ==
  ASSUME NEW a \in Word, NEW b \in Word, ~Overflows(a, b)
  PROVE  a + b \in Word /\ Wrap(a + b) = a + b
<1>1. MaxInt \in Nat /\ a \in Int /\ b \in Int
  BY ParticipantAssumption DEF Word, MinInt
<1>2. -MaxInt - 1 <= a + b /\ a + b <= MaxInt
  BY <1>1 DEF Word, Overflows, MinInt
<1>3. a + b \in Word
  BY <1>1, <1>2 DEF Word, MinInt
<1>4. \A x \in Int : -MaxInt - 1 <= x /\ x <= MaxInt =>
        ((x - (-MaxInt - 1)) % (2 * MaxInt + 2)) + (-MaxInt - 1) = x
  BY <1>1
<1> QED BY <1>1, <1>2, <1>3, <1>4 DEF Wrap, MinInt

\* An integer that a transform finds in a field is the value of the field, or zero.
LEMMA IntegerIs ==
  ASSUME NEW v \in Value, NEW a \in Integer(v)
  PROVE  a \in Word /\ (v # None => v = IntegerValue(a))
<1>1. CASE v = None
  BY <1>1, WordIs DEF Integer, None
<1>2. CASE v # None
  <2>1. v.kind = "integer" /\ a = v.n
    BY <1>2 DEF Integer
  <2>2. PICK n \in Word : v = IntegerValue(n)
    BY <2>1 DEF Value, Scalar, None, Time, Map
  <2> QED BY <1>2, <2>1, <2>2 DEF IntegerValue
<1> QED BY <1>1, <1>2

\* A counter may be the value of any field.
LEMMA CounterIs ==
  ASSUME NEW g \in Counter
  PROVE  g \in Scalar /\ g \in Value /\ (g # None => \E n \in Word : g = IntegerValue(n))
  BY DEF Counter, Scalar, Value

\* A transform makes a value of the field's kind.
LEMMA TransformedFits ==
  ASSUME NEW t, t.n \in Word, NEW path \in Path, NEW current, Fits(current, path),
         NEW g \in Counter, NEW v \in Transformed(t, current, g)
  PROVE  Fits(v, path) /\ v # None
<1>1. ASSUME NEW n \in Word
      PROVE  Fits(IntegerValue(n), path) /\ IntegerValue(n) # None
  BY DEF Fits, Value, Scalar, IntegerValue, None
<1>2. Fits(Time, path) /\ Time # None
  BY DEF Fits, Value, Scalar, Time, None
<1>3. \A a \in Integer(current) : a \in Word
  BY IntegerIs DEF Fits
<1>4. CASE t.by = "load"
  <2>1. v = Loaded(current, g)
    BY <1>4 DEF Transformed
  <2>2. Fits(g, path)
    BY CounterIs DEF Fits
  <2>3. 0 \in Word
    BY WordIs
  <2> QED BY <1>1, <2>1, <2>2, <2>3 DEF Loaded
<1>5. CASE t.by = "time"
  BY <1>2, <1>5 DEF Transformed
<1>6. CASE t.by = "increment"
  <2>1. PICK a \in Integer(current) : ~Overflows(a, t.n) /\ v = IntegerValue(Wrap(a + t.n))
    BY <1>6 DEF Transformed
  <2> QED BY <1>1, <1>3, <2>1, WrapIsSum
<1>7. CASE t.by = "maximum" \/ t.by = "minimum"
  <2>1. PICK a \in Integer(current) : v = IntegerValue(a) \/ v = IntegerValue(t.n)
    BY <1>7 DEF Transformed
  <2> QED BY <1>1, <1>3, <2>1
<1>8. CASE t.by \notin {"load", "time", "increment", "maximum", "minimum"}
  BY <1>8 DEF Transformed
<1> QED BY <1>4, <1>5, <1>6, <1>7, <1>8

\* The operations of a request that is not done.
LEMMA RestOfRequest ==
  ASSUME NEW r \in Request, NEW n \in 0..Len(r), NEW todo, todo = SubSeq(r, n + 1, Len(r))
  PROVE  /\ todo = <<>> => n = Len(r)
         /\ todo # <<>> => /\ n + 1 \in 1..Len(r)
                           /\ Head(todo) = r[n + 1]
                           /\ r[n + 1] \in Operation
                           /\ Tail(todo) = SubSeq(r, (n + 1) + 1, Len(r))
<1>1. r \in Seq(Operation) /\ Len(r) \in Nat
  BY ParticipantAssumption
<1>2. CASE n = Len(r)
  <2>1. todo = <<>>
    BY <1>1, <1>2, SubSeqEmpty
  <2> QED BY <1>2, <2>1
<1>3. CASE n # Len(r)
  <2>1. n + 1 \in 1..Len(r) /\ Len(r) \in (n + 1)..Len(r)
    BY <1>1, <1>3
  <2>2. Head(todo) = r[n + 1] /\ Tail(todo) = SubSeq(r, (n + 1) + 1, Len(r))
    BY <1>1, <2>1, HeadTailOfSubSeq
  <2>3. r[n + 1] \in Operation
    BY <1>1, <2>1
  <2>4. todo # <<>>
    <3>1. \A i \in (n + 1)..Len(r) : r[i] \in Operation
      BY <1>1
    <3>2. Len(todo) = Len(r) - (n + 1) + 1
      BY <1>1, <2>1, <3>1, SubSeqProperties
    <3>3. Len(r) - (n + 1) + 1 # 0
      BY <1>1, <2>1
    <3>4. Len(<<>>) = 0
      OBVIOUS
    <3> QED BY <3>2, <3>3, <3>4, Zenon
  <2> QED BY <2>1, <2>2, <2>3, <2>4
<1> QED BY <1>2, <1>3

\* An operation leaves the number alone, outside of any draw, or it is the
\* m-th after the first of a draw.
Between(r, n) == /\ LeavesNumber(r[n + 1])
                 /\ \A k \in 1..3 : ~Drawing(r, n, k) /\ ~Drawing(r, n + 1, k)

DrawStep(r, n, m) ==
  /\ r[n + 1].op = "transform" /\ r[n + 1].path = <<Number>>
  /\ r[n + 1].by = DrawSteps[m + 1]
  /\ m = 2 => r[n + 1].n > 0
  /\ \A k \in 1..3 : /\ Drawing(r, n, k) <=> k = m
                     /\ Drawing(r, n + 1, k) <=> k = m + 1

LEMMA OperationIs ==
  ASSUME NEW r \in Request, NEW n \in Nat, n + 1 \in 1..Len(r)
  PROVE  Between(r, n) \/ \E m \in 0..3 : DrawStep(r, n, m)
<1>1. r \in Seq(Operation) /\ Len(r) \in Nat
  BY ParticipantAssumption
\* An operation that is the m-th after the first of a draw.
<1> DEFINE Is(m) == /\ r[n + 1].op = "transform" /\ r[n + 1].path = <<Number>>
                    /\ r[n + 1].by = DrawSteps[m + 1]
<1>2. ASSUME NEW j \in Int, NEW m \in 0..3, IsDraw(r, j), n + 1 = j + m
      PROVE  Is(m) /\ (m = 2 => r[n + 1].n > 0)
  BY <1>2 DEF IsDraw
<1>3. ASSUME NEW k \in 1..3
      PROVE  /\ Drawing(r, n, k) => Is(k)
             /\ Drawing(r, n + 1, k) => Is(k - 1)
  <2>1. n + 1 = (n + 1 - k) + k /\ n + 1 - k \in Int /\ k \in 0..3
    OBVIOUS
  <2>2. n + 1 = ((n + 1) + 1 - k) + (k - 1) /\ (n + 1) + 1 - k \in Int /\ k - 1 \in 0..3
    OBVIOUS
  <2> HIDE DEF Is
  <2> QED BY <1>2, <2>1, <2>2 DEF Drawing
<1>4. ASSUME NEW m \in 0..3, Is(m)
      PROVE  ~LeavesNumber(r[n + 1])
  <2>1. DrawSteps[m + 1] # "clear"
    BY DEF DrawSteps
  <2>2. r[n + 1].by # "clear" /\ r[n + 1].path[1] = Number
    BY <1>4, <2>1
  <2> QED BY <1>4, <2>2 DEF LeavesNumber
<1>5. ASSUME NEW l \in 0..3, NEW m \in 0..3, Is(l), Is(m)
      PROVE  l = m
  <2>1. DrawSteps[l + 1] = DrawSteps[m + 1]
    BY <1>5
  <2> QED BY <2>1 DEF DrawSteps
<1>6. CASE LeavesNumber(r[n + 1])
  <2>1. \A k \in 1..3 : k \in 0..3 /\ k - 1 \in 0..3
    OBVIOUS
  <2> HIDE DEF Is
  <2> QED BY <1>3, <1>4, <1>6, <2>1 DEF Between
<1>7. CASE \E j \in 1..(n + 1) : n + 1 <= j + 3 /\ IsDraw(r, j)
  <2>1. PICK j \in 1..(n + 1) : n + 1 <= j + 3 /\ IsDraw(r, j)
    BY <1>7
  <2> DEFINE m == n + 1 - j
  <2>2. m \in 0..3 /\ n + 1 = j + m /\ j = n + 1 - m /\ j = (n + 1) + 1 - (m + 1)
          /\ m <= n /\ m + 1 <= n + 1 /\ j \in Int
    BY <2>1
  <2> HIDE DEF m
  <2>3. Is(m) /\ (m = 2 => r[n + 1].n > 0)
    BY <1>2, <2>1, <2>2
  <2>4. Drawing(r, n, m) /\ Drawing(r, n + 1, m + 1)
    BY <2>1, <2>2 DEF Drawing
  <2>5. ASSUME NEW k \in 1..3
        PROVE  (Drawing(r, n, k) <=> k = m) /\ (Drawing(r, n + 1, k) <=> k = m + 1)
    <3>1. k \in 0..3 /\ k - 1 \in 0..3 /\ (k - 1 = m <=> k = m + 1)
      BY <2>2
    <3> HIDE DEF Is
    <3> QED BY <1>3, <1>5, <2>2, <2>3, <2>4, <3>1
  <2>6. DrawStep(r, n, m)
    BY <2>3, <2>5 DEF DrawStep
  <2> QED BY <2>2, <2>6
<1> QED BY <1>6, <1>7, ParticipantAssumption

\* When all is done no draw is under way.
LEMMA NothingDrawnAtEnd ==
  ASSUME NEW r \in Request, NEW k \in 1..3
  PROVE  ~Drawing(r, Len(r), k) /\ ~Drawing(r, 0, k)
<1>1. Len(r) \in Nat
  BY ParticipantAssumption
<1> QED BY <1>1 DEF Drawing, IsDraw

-----------------------------------------------------------------------------
(* What each operation makes of a batch that is right *)

\* One operation of the request is done.
LEMMA NextIsRight ==
  ASSUME NEW b, NEW r \in Request, NEW n \in 0..Len(r), Progress(b, r, n), b.todo # <<>>,
         NEW c \in BatchRecord, c.todo = Tail(b.todo), Counted(c.global, c.drawn),
         \/ Between(r, n) /\ (Stored(b.document, b.told) => Stored(c.document, c.told))
         \/ \E m \in 0..2 : /\ DrawStep(r, n, m)
                            /\ c.document # Missing
                            /\ Ahead(c.document[Number], c.global, m + 1)
         \/ DrawStep(r, n, 3) /\ Stored(c.document, c.told)
  PROVE  Right(c)
<1>1. n + 1 \in 0..Len(r) /\ c.todo = SubSeq(r, (n + 1) + 1, Len(r))
  BY RestOfRequest DEF Progress
<1>2. CASE Between(r, n) /\ (Stored(b.document, b.told) => Stored(c.document, c.told))
  <2>1. Stored(b.document, b.told)
    BY <1>2 DEF Progress, Between
  <2>2. Progress(c, r, n + 1)
    BY <1>1, <1>2, <2>1 DEF Progress, Between
  <2> QED BY <1>1, <2>2 DEF Right
<1>3. ASSUME NEW m \in 0..2, DrawStep(r, n, m),
             c.document # Missing, Ahead(c.document[Number], c.global, m + 1)
      PROVE  Right(c)
  <2>1. m + 1 \in 1..3 /\ \A k \in 1..3 : Drawing(r, n + 1, k) <=> k = m + 1
    BY <1>3 DEF DrawStep
  <2>2. Progress(c, r, n + 1)
    BY <1>1, <1>3, <2>1 DEF Progress
  <2> QED BY <1>1, <2>2 DEF Right
<1>4. CASE DrawStep(r, n, 3) /\ Stored(c.document, c.told)
  <2>1. \A k \in 1..3 : ~Drawing(r, n + 1, k)
    BY <1>4 DEF DrawStep
  <2>2. Progress(c, r, n + 1)
    BY <1>1, <1>4, <2>1 DEF Progress
  <2> QED BY <1>1, <2>2 DEF Right
<1> QED BY <1>2, <1>3, <1>4

\* What is known when an operation is about to be done.
LEMMA RightHasNext ==
  ASSUME NEW b, Right(b), b.todo # <<>>
  PROVE  /\ b \in BatchRecord
         /\ Head(b.todo) \in Operation
         /\ Tail(b.todo) \in Seq(Operation)
         /\ Counted(b.global, b.drawn)
         /\ \E r \in Request : \E n \in 0..Len(r) :
              /\ Progress(b, r, n)
              /\ Head(b.todo) = r[n + 1]
              /\ Between(r, n) \/ \E m \in 0..3 : DrawStep(r, n, m)
<1>1. b \in BatchRecord /\ b.todo \in Seq(Operation)
  BY DEF Right, BatchRecord
<1>2. PICK r \in Request, n \in Nat : n \in 0..Len(r) /\ Progress(b, r, n)
  BY DEF Right
<1>3. n \in Nat /\ n + 1 \in 1..Len(r) /\ Head(b.todo) = r[n + 1]
  BY <1>2, RestOfRequest DEF Progress
<1>4. Between(r, n) \/ \E m \in 0..3 : DrawStep(r, n, m)
  BY <1>3, OperationIs
<1>5. Head(b.todo) \in Operation /\ Tail(b.todo) \in Seq(Operation)
  BY <1>1, HeadTailProperties
<1>6. Counted(b.global, b.drawn)
  BY DEF Right
<1> QED BY <1>1, <1>2, <1>3, <1>4, <1>5, <1>6

\* An update, a merge or a delete is not one of a draw: it must only leave the
\* number of a document as it was told.
LEMMA OtherIsRight ==
  ASSUME NEW b, Right(b), b.todo # <<>>, Head(b.todo).op # "transform",
         NEW document \in Document, NEW t \in Word,
         LeavesNumber(Head(b.todo)) /\ Stored(b.document, b.told) => Stored(document, t),
         NEW c, c = [b EXCEPT !.todo = Tail(@), !.document = document, !.told = t]
  PROVE  Right(c)
<1>1. PICK r \in Request, n \in Nat :
        /\ n \in 0..Len(r)
        /\ Progress(b, r, n)
        /\ Head(b.todo) = r[n + 1]
        /\ Between(r, n) \/ \E m \in 0..3 : DrawStep(r, n, m)
  BY RightHasNext
<1>2. Between(r, n) /\ LeavesNumber(Head(b.todo))
  BY <1>1 DEF DrawStep, Between
<1>3. b \in BatchRecord /\ Tail(b.todo) \in Seq(Operation) /\ Counted(b.global, b.drawn)
  BY RightHasNext
<1>4. /\ c \in BatchRecord
      /\ c.todo = Tail(b.todo) /\ c.document = document /\ c.told = t
      /\ c.global = b.global /\ c.drawn = b.drawn
  BY <1>3 DEF BatchRecord
<1> QED BY <1>1, <1>2, <1>3, <1>4, NextIsRight

\* What a write starts from has fields.
LEMMA ExistingIs ==
  ASSUME NEW document \in Document, NEW e,
         e = IF document = Missing THEN Empty ELSE document
  PROVE  e \in Fields
  BY EmptyType DEF Document

\* The parts of each kind of operation.
LEMMA UpdateKind ==
  ASSUME NEW op \in Operation, op.op = "update"
  PROVE  /\ op.fields \in Fields
         /\ op.mask = "*" \/ op.mask \in Seq(Path)
         /\ LeavesNumber(op) => op.mask = "*" \/ \A i \in 1..Len(op.mask) : op.mask[i][1] # Number
  BY DEF Operation, LeavesNumber

LEMMA MergeKind ==
  ASSUME NEW op \in Operation, op.op = "merge"
  PROVE  op.fields \in Fields /\ (LeavesNumber(op) => op.fields[Number] = None)
  BY DEF Operation, LeavesNumber

LEMMA TransformKind ==
  ASSUME NEW op \in Operation, op.op = "transform"
  PROVE  /\ op.path \in Path /\ op.n \in Word
         /\ LeavesNumber(op) =>
              /\ op.by # "store"
              /\ op.path[1] # Number \/ (op.by = "clear" /\ op.path = <<Number>>)
  BY DEF Operation, LeavesNumber

\* A masked update has the number that was there.
LEMMA UpdateIsRight ==
  ASSUME BatchInv, UpdateDocument
  PROVE  Right(batch')
<1> DEFINE op == Head(batch.todo)
           document == IF op.mask = "*" THEN op.fields
                       ELSE CopyMasked(Existing, op.fields, op.mask)
           t == IF op.mask = "*" THEN NoNumber ELSE batch.told
<1>1. /\ Right(batch) /\ batch.todo # <<>> /\ op.op = "update"
      /\ batch' = [batch EXCEPT !.todo = Tail(@), !.document = document, !.told = t]
  BY DEF UpdateDocument, Working, BatchInv
<1>2. op \in Operation /\ batch.document \in Document /\ batch.told \in Word
  BY <1>1, RightHasNext DEF BatchRecord
<1>3. op.fields \in Fields /\ Existing \in Fields
  BY <1>1, <1>2, UpdateKind, ExistingIs DEF Existing
<1>4. CASE op.mask = "*"
  <2>1. document \in Document /\ t \in Word /\ Stored(document, t)
    BY <1>3, <1>4, WordIs DEF Document, NoNumber, Stored
  <2> HIDE DEF document, t, op
  <2> QED BY <1>1, <2>1, OtherIsRight DEF op
<1>5. CASE op.mask # "*"
  <2>1. op.mask \in Seq(Path)
    BY <1>1, <1>2, <1>5, UpdateKind
  <2>2. document = CopyMasked(Existing, op.fields, op.mask) /\ t = batch.told
    BY <1>5
  <2>3. document \in Fields /\ document # Missing
    <3> HIDE DEF document, op
    <3> QED BY <1>3, <2>1, <2>2, CopyMaskedKeeps, ParticipantAssumption
  <2>4. ASSUME LeavesNumber(op), Stored(batch.document, batch.told)
        PROVE  Stored(document, t)
    <3>1. \A i \in 1..Len(op.mask) : op.mask[i][1] # Number
      BY <1>1, <1>2, <1>5, <2>4, UpdateKind
    <3>2. document[Number] = Existing[Number]
      <4> HIDE DEF document, op
      <4> QED BY <1>3, <2>1, <2>2, <3>1, CopyMaskedKeeps, ParticipantAssumption
    <3>3. batch.document # Missing => document[Number] = batch.document[Number]
      BY <3>2 DEF Existing
    <3> HIDE DEF document
    <3> QED BY <2>2, <2>3, <2>4, <3>3 DEF Stored
  <2>5. document \in Document /\ t \in Word
    BY <1>2, <2>2, <2>3 DEF Document
  <2> HIDE DEF document, t
  <2> QED BY <1>1, <2>4, <2>5, OtherIsRight
<1> QED BY <1>4, <1>5

\* So has a merge.
LEMMA MergeIsRight ==
  ASSUME BatchInv, MergeDocument
  PROVE  Right(batch')
<1> DEFINE op == Head(batch.todo)
           document == Merged(Existing, op.fields)
<1>1. /\ Right(batch) /\ batch.todo # <<>> /\ op.op = "merge"
      /\ batch' = [batch EXCEPT !.todo = Tail(@), !.document = document]
  BY DEF MergeDocument, Working, BatchInv
<1>2. op \in Operation /\ batch.document \in Document /\ batch.told \in Word
        /\ batch \in BatchRecord
  BY <1>1, RightHasNext DEF BatchRecord
<1>3. op.fields \in Fields /\ Existing \in Fields
  BY <1>1, <1>2, MergeKind, ExistingIs DEF Existing
<1>4. document \in Fields /\ document # Missing
  <2>1. document \in Fields
    BY <1>3 DEF Merged, Fields
  <2> QED BY <2>1, ParticipantAssumption
<1>5. ASSUME LeavesNumber(op), Stored(batch.document, batch.told)
      PROVE  Stored(document, batch.told)
  <2>1. op.fields[Number] = None
    BY <1>1, <1>2, <1>5, MergeKind
  <2>2. document[Number] = Existing[Number]
    BY <2>1, NumberPath DEF Merged
  <2>3. batch.document # Missing => document[Number] = batch.document[Number]
    BY <2>2 DEF Existing
  <2> HIDE DEF document
  <2> QED BY <1>4, <1>5, <2>3 DEF Stored
<1>6. batch' = [batch EXCEPT !.todo = Tail(@), !.document = document, !.told = batch.told]
  <2> HIDE DEF document
  <2> QED BY <1>1, <1>2 DEF BatchRecord
<1>7. document \in Document
  BY <1>4 DEF Document
<1>8. Right(batch) /\ batch.todo # <<>> /\ op.op # "transform"
  BY <1>1
<1> HIDE DEF document
<1> QED BY <1>2, <1>5, <1>6, <1>7, <1>8, OtherIsRight

\* Who has no document has been told nothing.
LEMMA DeleteIsRight ==
  ASSUME BatchInv, DeleteDocument
  PROVE  Right(batch')
<1> DEFINE document == Missing
           t == NoNumber
<1>1. Right(batch) /\ batch.todo # <<>> /\ Head(batch.todo).op # "transform"
  BY DEF DeleteDocument, Working, BatchInv
<1>2. batch' = [batch EXCEPT !.todo = Tail(@), !.document = document, !.told = t]
  BY DEF DeleteDocument
<1>3. document \in Document /\ t \in Word /\ Stored(document, t)
  BY WordIs DEF Document, NoNumber, Stored
<1> HIDE DEF document, t
<1> QED BY <1>1, <1>2, <1>3, OtherIsRight

\* What a transform in the middle of a draw makes of the number.
LEMMA DrawGoesOn ==
  ASSUME NEW m \in 0..2, NEW t, t.n \in Word, t.by = DrawSteps[m + 1], m = 2 => t.n > 0,
         NEW current \in Value, NEW g \in Counter, NEW v \in Transformed(t, current, g),
         m \in 1..3 => Ahead(current, g, m)
  PROVE  Ahead(v, g, m + 1)
<1>1. g # None => \E l \in Word : g = IntegerValue(l) /\ g.n = l
  BY CounterIs DEF IntegerValue
<1>2. \A l : IntegerValue(l).n = l
  BY DEF IntegerValue
<1>3. \A l \in Word : l \in Int
  BY WordIs
<1>4. CASE m = 0
  <2>1. v = Loaded(current, g)
    BY <1>4 DEF DrawSteps, Transformed
  <2> QED BY <1>4, <2>1 DEF Loaded, Ahead
<1>5. CASE m = 1
  <2>1. PICK a \in Integer(current) : v = IntegerValue(IF t.n > a THEN t.n ELSE a)
    BY <1>5 DEF DrawSteps, Transformed
  <2> DEFINE l == IF t.n > a THEN t.n ELSE a
  <2>2. a \in Word /\ (current # None => current = IntegerValue(a))
    BY <2>1, IntegerIs
  <2>3. l \in Word /\ l >= a
    BY <1>3, <2>2
  <2>4. g # None => g = IntegerValue(a)
    BY <1>5, <2>2 DEF Ahead
  <2>5. v = IntegerValue(l) /\ v.n = l
    BY <1>2, <2>1
  <2>6. g # None => g.n = a
    BY <1>2, <2>4
  <2> HIDE DEF l
  <2> QED BY <1>5, <2>3, <2>5, <2>6 DEF Ahead
<1>6. CASE m = 2
  <2>1. PICK a \in Integer(current) : ~Overflows(a, t.n) /\ v = IntegerValue(Wrap(a + t.n))
    BY <1>6 DEF DrawSteps, Transformed
  <2>2. PICK l \in Word : current = IntegerValue(l)
    BY <1>6 DEF Ahead
  <2>3. a = l /\ current.n = a
    BY <2>1, <2>2 DEF Integer, IntegerValue, None
  <2>4. a + t.n \in Word /\ v = IntegerValue(a + t.n) /\ v.n = a + t.n
    BY <1>2, <2>1, <2>2, <2>3, WrapIsSum
  <2>5. g # None => a >= g.n
    BY <1>6, <2>3 DEF Ahead
  <2>6. g # None => v.n > g.n
    BY <1>1, <1>3, <1>6, <2>2, <2>3, <2>4, <2>5
  <2>7. g # None => v.n >= g.n
    BY <1>1, <1>3, <2>4, <2>6
  <2> QED BY <1>6, <2>4, <2>6, <2>7 DEF Ahead
<1> QED BY <1>4, <1>5, <1>6

\* Storing a number that is ahead of the counter draws it.
LEMMA DrawEnds ==
  ASSUME NEW g \in Counter, NEW d \in Seq(Word), Counted(g, d),
         NEW v, Ahead(v, g, 3)
  PROVE  /\ v \in Counter /\ v.n \in Word /\ v = IntegerValue(v.n)
         /\ Append(d, v.n) \in Seq(Word)
         /\ Counted(v, Append(d, v.n))
<1>1. PICK a \in Word : v = IntegerValue(a)
  BY DEF Ahead
<1>2. v.n = a /\ v \in Counter
  BY <1>1 DEF IntegerValue, Counter
<1> DEFINE e == Append(d, a)
<1>3. /\ e \in Seq(Word) /\ e # <<>> /\ Len(e) = Len(d) + 1 /\ Len(d) \in Nat
      /\ e[Len(d) + 1] = a /\ \A i \in 1..Len(d) : e[i] = d[i]
  BY AppendProperties, LenProperties
<1>4. d # <<>> => d[Len(d)] < a
  <2> SUFFICES ASSUME d # <<>> PROVE d[Len(d)] < a
    OBVIOUS
  <2>1. g = IntegerValue(d[Len(d)]) /\ g # None /\ g.n = d[Len(d)]
    BY DEF Counted, IntegerValue, None
  <2>2. v.n > g.n
    BY <2>1 DEF Ahead
  <2>3. d[Len(d)] \in Word
    <3>1. Len(d) \in 1..Len(d)
      BY EmptySeq
    <3> QED BY <3>1, ElementOfSeq
  <2> QED BY <1>2, <2>1, <2>2, <2>3, WordIs
<1>5. \A i \in 1..Len(e) - 1 : e[i] < e[i + 1]
  <2> SUFFICES ASSUME NEW i \in 1..Len(d) PROVE e[i] < e[i + 1]
    BY <1>3
  <2>1. CASE i = Len(d)
    <3>1. d # <<>>
      BY <1>3
    <3> HIDE DEF e
    <3> QED BY <1>3, <1>4, <2>1, <3>1
  <2>2. CASE i # Len(d)
    <3>1. i \in 1..Len(d) - 1 /\ i + 1 \in 1..Len(d)
      BY <1>3, <2>2
    <3>2. d[i] < d[i + 1]
      BY <3>1 DEF Counted
    <3> HIDE DEF e
    <3> QED BY <1>3, <3>1, <3>2
  <2> QED BY <2>1, <2>2
<1> HIDE DEF e
<1>6. Counted(v, e)
  BY <1>1, <1>3, <1>5 DEF Counted
<1> QED BY <1>1, <1>2, <1>3, <1>6 DEF e

LEMMA TransformedBatchIsRight ==
  ASSUME NEW b, Right(b), b.todo # <<>>, b.document # Missing,
         NEW t, t = Head(b.todo), t.op = "transform",
         NEW v \in Transformed(t, ReadField(b.document, t.path), b.global),
         NEW c, c = [b EXCEPT
           !.todo = Tail(@),
           !.document = SetField(@, t.path, v),
           !.global = GlobalAfter(t, v, @),
           !.drawn = CASE t.by = "store" -> Append(@, v.n)
                       [] t.by = "clear" -> <<>>
                       [] OTHER          -> @,
           !.told = IF t.by = "store" THEN v.n ELSE @]
  PROVE  Right(c)
<1> DEFINE current == ReadField(b.document, t.path)
           document == SetField(b.document, t.path, v)
<1>1. /\ b \in BatchRecord /\ t \in Operation /\ Tail(b.todo) \in Seq(Operation)
      /\ Counted(b.global, b.drawn)
  BY RightHasNext
<1>2. /\ b.document \in Fields /\ b.global \in Counter /\ b.drawn \in Seq(Word)
      /\ b.told \in Word
  BY <1>1 DEF BatchRecord, Document
<1>3. t.path \in Path /\ t.n \in Word
  BY <1>1, TransformKind
<1>4. Fits(current, t.path)
  BY <1>2, <1>3, ReadFieldFits
<1>5. Fits(v, t.path) /\ v # None
  <2> HIDE DEF current
  <2> QED BY <1>2, <1>3, <1>4, TransformedFits DEF current
<1>6. document \in Fields /\ document # Missing
  <2>1. document \in Fields
    BY <1>2, <1>3, <1>5, SetFieldElsewhere
  <2> QED BY <2>1, ParticipantAssumption
<1>7. ASSUME t.path = <<Number>>
      PROVE  current = b.document[Number] /\ document[Number] = v
  <2>1. Len(t.path) = 1 /\ t.path[1] = Number
    <3>1. Len(<<Number>>) = 1 /\ <<Number>>[1] = Number
      OBVIOUS
    <3> QED BY <1>7, <3>1, Zenon
  <2>2. current = b.document[Number]
    BY <2>1 DEF ReadField
  <2> QED BY <1>2, <1>3, <2>1, <2>2, SetFieldThere
<1>8. t.path[1] # Number => document[Number] = b.document[Number]
  BY <1>2, <1>3, <1>5, NumberPath, SetFieldElsewhere
<1>9. PICK r \in Request, n \in Nat :
        /\ n \in 0..Len(r)
        /\ Progress(b, r, n)
        /\ t = r[n + 1]
        /\ Between(r, n) \/ \E m \in 0..3 : DrawStep(r, n, m)
  BY RightHasNext
<1> HIDE DEF current, document
<1>10. c = [b EXCEPT
         !.todo = Tail(@), !.document = document,
         !.global = GlobalAfter(t, v, @),
         !.drawn = CASE t.by = "store" -> Append(@, v.n)
                     [] t.by = "clear" -> <<>>
                     [] OTHER          -> @,
         !.told = IF t.by = "store" THEN v.n ELSE @]
  BY DEF document
<1>11. ASSUME NEW g \in Counter, NEW d \in Seq(Word), NEW l \in Word, g = GlobalAfter(t, v, b.global),
              d = CASE t.by = "store" -> Append(b.drawn, v.n)
                    [] t.by = "clear" -> <<>>
                    [] OTHER          -> b.drawn,
              l = IF t.by = "store" THEN v.n ELSE b.told
       PROVE  /\ c \in BatchRecord
              /\ c.todo = Tail(b.todo) /\ c.document = document
              /\ c.global = g /\ c.drawn = d /\ c.told = l
  <2>1. c = [b EXCEPT !.todo = Tail(@), !.document = document, !.global = g,
                      !.drawn = d, !.told = l]
    BY <1>1, <1>10, <1>11 DEF BatchRecord
  <2> QED BY <1>1, <1>6, <2>1 DEF BatchRecord, Document
<1>12. ASSUME t.by \notin {"store", "clear"}
       PROVE  /\ c \in BatchRecord
              /\ c.todo = Tail(b.todo) /\ c.document = document
              /\ c.global = b.global /\ c.drawn = b.drawn /\ c.told = b.told
  <2>1. b.global = GlobalAfter(t, v, b.global)
    BY <1>12 DEF GlobalAfter
  <2> QED BY <1>2, <1>11, <1>12, <2>1
<1>13. CASE Between(r, n)
  <2>1. /\ t.by # "store"
        /\ t.path[1] # Number \/ (t.by = "clear" /\ t.path = <<Number>>)
    BY <1>1, <1>9, <1>13, TransformKind DEF Between
  <2>2. Stored(b.document, b.told) => Stored(document, b.told)
    <3>1. t.by = "clear" => v = current
      BY DEF Transformed, current
    <3>2. document[Number] = b.document[Number]
      BY <1>7, <1>8, <2>1, <3>1
    <3> QED BY <1>6, <3>2 DEF Stored
  <2>3. CASE t.by = "clear"
    <3>1. None \in Counter /\ <<>> \in Seq(Word) /\ None = GlobalAfter(t, v, b.global)
      BY <2>3 DEF Counter, GlobalAfter
    <3>2. /\ c \in BatchRecord
          /\ c.todo = Tail(b.todo) /\ c.document = document
          /\ c.global = None /\ c.drawn = <<>> /\ c.told = b.told
      BY <1>2, <1>11, <2>3, <3>1
    <3>3. Counted(None, <<>>)
      BY DEF Counted
    <3> QED BY <1>9, <1>13, <2>2, <3>2, <3>3, NextIsRight
  <2>4. CASE t.by # "clear"
    <3>1. t.by \notin {"store", "clear"}
      BY <2>1, <2>4
    <3> QED BY <1>1, <1>9, <1>12, <1>13, <2>2, <3>1, NextIsRight
  <2> QED BY <2>3, <2>4
<1>14. ASSUME NEW m \in 0..3, DrawStep(r, n, m)
       PROVE  Right(c)
  <2>1. t.path = <<Number>> /\ t.by = DrawSteps[m + 1] /\ (m = 2 => t.n > 0)
    BY <1>9, <1>14 DEF DrawStep
  <2>2. current = b.document[Number] /\ document[Number] = v /\ current \in Value
    BY <1>4, <1>7, <2>1 DEF Fits
  <2>3. m \in 1..3 => Ahead(current, b.global, m)
    <3>1. m \in 1..3 => Drawing(r, n, m)
      BY <1>14 DEF DrawStep
    <3> QED BY <1>9, <2>2, <3>1 DEF Progress
  <2>4. CASE m \in 0..2
    <3>1. Ahead(v, b.global, m + 1)
      BY <1>2, <1>3, <2>1, <2>2, <2>3, <2>4, DrawGoesOn DEF current
    <3>2. t.by \notin {"store", "clear"}
      BY <2>1, <2>4 DEF DrawSteps
    <3>3. /\ c \in BatchRecord
          /\ c.todo = Tail(b.todo) /\ c.document = document
          /\ c.global = b.global /\ c.drawn = b.drawn /\ c.told = b.told
      BY <1>12, <3>2
    <3> QED BY <1>1, <1>6, <1>9, <1>14, <2>2, <2>4, <3>1, <3>3, NextIsRight
  <2>5. CASE m = 3
    <3>1. t.by = "store"
      BY <2>1, <2>5 DEF DrawSteps
    <3>2. v = current
      BY <3>1 DEF Transformed, current
    <3>3. Ahead(v, b.global, 3)
      BY <2>3, <2>5, <3>2
    <3>4. /\ v \in Counter /\ v.n \in Word /\ v = IntegerValue(v.n)
          /\ Append(b.drawn, v.n) \in Seq(Word)
          /\ Counted(v, Append(b.drawn, v.n))
      BY <1>1, <1>2, <3>3, DrawEnds
    <3>5. v = GlobalAfter(t, v, b.global)
      BY <3>1 DEF GlobalAfter
    <3>6. /\ c \in BatchRecord
          /\ c.todo = Tail(b.todo) /\ c.document = document
          /\ c.global = v /\ c.drawn = Append(b.drawn, v.n) /\ c.told = v.n
      BY <1>11, <3>1, <3>4, <3>5
    <3>7. Stored(document, v.n)
      BY <1>6, <2>2, <3>4 DEF Stored
    <3> QED BY <1>9, <1>14, <2>5, <3>4, <3>6, <3>7, NextIsRight
  <2> QED BY <2>4, <2>5
<1> QED BY <1>9, <1>13, <1>14

LEMMA TransformIsRight ==
  ASSUME BatchInv, TransformDocument
  PROVE  Right(batch')
<1>1. /\ Right(batch) /\ batch.todo # <<>> /\ batch.document # Missing
      /\ Head(batch.todo).op = "transform"
  BY DEF TransformDocument, Working, BatchInv
<1> DEFINE t == Head(batch.todo)
<1>2. PICK v \in Transformed(t, ReadField(batch.document, t.path), batch.global) :
        batch' = [batch EXCEPT
           !.todo = Tail(@),
           !.document = SetField(@, t.path, v),
           !.global = GlobalAfter(t, v, @),
           !.drawn = CASE t.by = "store" -> Append(@, v.n)
                       [] t.by = "clear" -> <<>>
                       [] OTHER          -> @,
           !.told = IF t.by = "store" THEN v.n ELSE @]
  BY DEF TransformDocument
<1> QED BY <1>1, <1>2, TransformedBatchIsRight

-----------------------------------------------------------------------------
(* The invariant is kept *)

\* While a batch is being worked on only its copies change.
LEMMA OperationKeeps ==
  ASSUME NumberInv, Right(batch'),
         UNCHANGED <<sessions, documents, global, writer, drawn, told>>
  PROVE  NumberInv'
<1>1. TypeOK'
  BY DEF NumberInv, TypeOK, Right, BatchRecord, Document, Counter
<1> QED BY <1>1 DEF NumberInv, BatchInv, Counted, Stored

\* Nobody is at work: what a session has may come and go.
LEMMA SessionKeeps ==
  ASSUME NumberInv, NEW us \in User, IssueToken(us) \/ ExpireSession(us)
  PROVE  NumberInv'
<1>1. CASE IssueToken(us)
  <2>1. TypeOK'
    BY <1>1 DEF NumberInv, TypeOK, IssueToken
  <2> QED BY <1>1, <2>1 DEF IssueToken, NumberInv, BatchInv, Counted, Stored
<1>2. CASE ExpireSession(us)
  <2>1. TypeOK'
    BY <1>2, WordIs DEF NumberInv, TypeOK, ExpireSession, NoNumber
  <2>2. ASSUME NEW other \in User
        PROVE  Stored(documents[other], told[other])'
    <3>1. CASE other = us
      BY <1>2, <3>1 DEF NumberInv, TypeOK, ExpireSession, Stored
    <3>2. CASE other # us
      BY <1>2, <3>2 DEF NumberInv, TypeOK, ExpireSession, Stored
    <3> QED BY <3>1, <3>2
  <2>3. Counted(global, drawn)' /\ batch' = NoBatch
    BY <1>2 DEF NumberInv, ExpireSession, Counted
  <2> QED BY <2>1, <2>2, <2>3 DEF NumberInv, BatchInv
<1> QED BY <1>1, <1>2

\* Authorizing a request does nothing to any document.
LEMMA AuthorizeKeeps ==
  ASSUME NumberInv, NEW w \in Writer, NEW us \in User, NEW r \in Request, Authorize(w, us, r)
  PROVE  NumberInv'
<1>1. TypeOK'
  BY DEF NumberInv, TypeOK, Authorize
<1>2. UNCHANGED <<global, drawn, documents, told, batch>>
  BY DEF Authorize
<1> QED BY <1>1, <1>2 DEF NumberInv, BatchInv, Counted, Stored

\* A batch begins with nothing done of its request.
LEMMA BeginBatchKeeps ==
  ASSUME NumberInv, NEW w \in Writer, BeginBatch(w)
  PROVE  NumberInv'
<1> DEFINE us == writer[w].us
           r == writer[w].todo
           b == [writer |-> w, us |-> us, todo |-> r, document |-> documents[us],
                 global |-> global, drawn |-> drawn, told |-> told[us]]
<1>1. us \in User /\ r \in Request
  BY DEF NumberInv, TypeOK, BeginBatch
<1>2. CASE us \in sessions
  <2>1. batch' = b /\ UNCHANGED <<sessions, documents, global, writer, drawn, told>>
    BY <1>2 DEF BeginBatch
  <2>2. r \in Seq(Operation)
    BY <1>1, ParticipantAssumption
  <2>3. b \in BatchRecord
    BY <1>1, <2>2 DEF NumberInv, TypeOK, BatchRecord, Document, Counter
  <2>4. Progress(b, r, 0)
    <3>1. SubSeq(r, 0 + 1, Len(r)) = r
      BY <2>2, SubSeqFull
    <3>2. \A k \in 1..3 : ~Drawing(r, 0, k)
      BY <1>1, NothingDrawnAtEnd
    <3>3. Stored(b.document, b.told)
      BY <1>1 DEF NumberInv
    <3> QED BY <3>1, <3>2, <3>3 DEF Progress
  <2>5. Counted(b.global, b.drawn)
    BY DEF NumberInv
  <2>6. 0 \in 0..Len(r)
    BY <2>2, LenProperties
  <2>7. Right(b)
    <3> HIDE DEF b, r
    <3> QED BY <1>1, <2>3, <2>4, <2>5, <2>6 DEF Right
  <2> HIDE DEF b
  <2> QED BY <2>1, <2>7, OperationKeeps
<1>3. CASE us \notin sessions
  <2>1. TypeOK'
    BY <1>3 DEF NumberInv, TypeOK, BeginBatch
  <2>2. UNCHANGED <<global, drawn, documents, told, batch>>
    BY <1>3 DEF BeginBatch
  <2> QED BY <2>1, <2>2 DEF NumberInv, BatchInv, Counted, Stored
<1> QED BY <1>2, <1>3

\* The copies of a refused batch are dropped.
LEMMA RefuseBatchKeeps ==
  ASSUME NumberInv, RefuseBatch
  PROVE  NumberInv'
<1>1. TypeOK'
  BY DEF NumberInv, TypeOK, RefuseBatch, FinishWrite
<1>2. UNCHANGED <<global, drawn, documents, told>> /\ batch' = NoBatch
  BY DEF RefuseBatch, FinishWrite
<1> QED BY <1>1, <1>2 DEF NumberInv, BatchInv, Counted, Stored

\* All of a request is done: no draw is under way.
LEMMA CommitBatchKeeps ==
  ASSUME NumberInv, CommitBatch
  PROVE  NumberInv'
<1>1. Right(batch) /\ batch \in BatchRecord
  BY DEF NumberInv, BatchInv, CommitBatch, Right
<1>2. Stored(batch.document, batch.told) /\ Counted(batch.global, batch.drawn)
  <2>1. PICK r \in Request, n \in Nat : n \in 0..Len(r) /\ Progress(batch, r, n)
    BY <1>1 DEF Right
  <2>2. n = Len(r)
    BY <2>1, RestOfRequest DEF Progress, CommitBatch
  <2>3. Stored(batch.document, batch.told)
    BY <2>1, <2>2, NothingDrawnAtEnd DEF Progress
  <2> QED BY <1>1, <2>3 DEF Right
<1>3. /\ batch.us \in User /\ batch.document \in Document /\ batch.told \in Word
      /\ batch.global \in Counter /\ batch.drawn \in Seq(Word)
  BY <1>1 DEF BatchRecord
<1>4. TypeOK'
  BY <1>3 DEF NumberInv, TypeOK, CommitBatch, FinishWrite, Document, Counter
<1>5. Counted(global, drawn)' /\ batch' = NoBatch
  BY <1>2 DEF CommitBatch, FinishWrite, Counted
<1>6. ASSUME NEW us \in User
      PROVE  Stored(documents[us], told[us])'
  <2>1. CASE us = batch.us
    BY <1>2, <1>3, <2>1 DEF NumberInv, TypeOK, CommitBatch, Stored
  <2>2. CASE us # batch.us
    BY <2>2 DEF NumberInv, TypeOK, CommitBatch, Stored
  <2> QED BY <2>1, <2>2
<1> QED BY <1>4, <1>5, <1>6 DEF NumberInv, BatchInv

\* Each step keeps the invariant.
LEMMA NumberInvKept == NumberInv /\ [Next]_vars => NumberInv'
<1> SUFFICES ASSUME NumberInv, [Next]_vars PROVE NumberInv'
  OBVIOUS
<1>1. ASSUME Right(batch'), UNCHANGED <<sessions, documents, global, writer, drawn, told>>
      PROVE  NumberInv'
  BY <1>1, OperationKeeps
<1>2. BatchInv
  BY DEF NumberInv
<1>3. CASE UpdateDocument
  BY <1>1, <1>2, <1>3, UpdateIsRight DEF UpdateDocument
<1>4. CASE MergeDocument
  BY <1>1, <1>2, <1>4, MergeIsRight DEF MergeDocument
<1>5. CASE TransformDocument
  BY <1>1, <1>2, <1>5, TransformIsRight DEF TransformDocument
<1>6. CASE DeleteDocument
  BY <1>1, <1>2, <1>6, DeleteIsRight DEF DeleteDocument
<1>7. CASE UNCHANGED vars
  <2>1. TypeOK'
    BY <1>7 DEF NumberInv, TypeOK, vars
  <2> QED BY <1>7, <2>1 DEF vars, NumberInv, BatchInv, Counted, Stored
<1> QED BY <1>3, <1>4, <1>5, <1>6, <1>7, SessionKeeps, AuthorizeKeeps, BeginBatchKeeps,
           RefuseBatchKeeps, CommitBatchKeeps DEF Next

\* At first there is no document and no number.
LEMMA NumberInvInitially == Init => NumberInv
<1> SUFFICES ASSUME Init PROVE NumberInv
  OBVIOUS
<1>1. TypeOK
  BY WordIs DEF Init, TypeOK, NoNumber
<1>2. Counted(global, drawn)
  BY DEF Init, Counted
<1> QED BY <1>1, <1>2 DEF Init, NumberInv, BatchInv, Stored

\* The invariant holds always.
LEMMA AlwaysCounted == Spec => []NumberInv
  BY NumberInvInitially, NumberInvKept, PTL DEF Spec

\* Documents have fields of their kinds, the global is an integer or not there,
\* and a batch is a request that is partly done.
THEOREM ParticipantTypes == Spec => []TypeOK
<1>1. NumberInv => TypeOK
  BY DEF NumberInv
<1> QED BY <1>1, AlwaysCounted, PTL

\* The game session's counter is the last number that was given out, whatever
\* batches are refused and whoever leaves.
THEOREM CounterKeepsLastDraw == Spec => []CounterIsLastDraw
<1>1. NumberInv => CounterIsLastDraw
  BY DEF NumberInv, Counted, CounterIsLastDraw
<1> QED BY <1>1, AlwaysCounted, PTL

\* No number is given out twice, for any requests that draw as the game does.
THEOREM NumbersAreNew == Spec => []DrawsIncrease
<1>1. NumberInv => DrawsIncrease
  BY DEF NumberInv, Counted, DrawsIncrease
<1> QED BY <1>1, AlwaysCounted, PTL

\* The number a participant was told is the one in its document.
THEOREM ToldNumberIsRead == Spec => []ToldIsStored
<1>1. NumberInv => ToldIsStored
  <2>1. \A f : ReadField(f, <<Number>>) = f[Number]
    BY DEF ReadField
  <2> QED BY <2>1 DEF NumberInv, Stored, ToldIsStored
<1> QED BY <1>1, AlwaysCounted, PTL

\* Whatever the mask and the document, a masked read is exact.
THEOREM MaskedReadsAreExact == Spec => []MaskedReadExact
<1>1. NumberInv => MaskedReadExact
  <2> SUFFICES ASSUME NumberInv, NEW us \in User, NEW mask \in Mask, NEW path \in Path,
                      documents[us] # Missing
               PROVE  LET named(p)  == \E i \in 1..Len(mask) : mask[i] = p
                          inside(p) == named(p) \/ named(<<p[1]>>)
                          below(p)  == \E x \in Inner : named(p \o <<x>>)
                      IN  /\ inside(path) /\ (below(path) => documents[us][path[1]].kind = "map") =>
                               ReadField(GetDocument(us, mask), path) = ReadField(documents[us], path)
                          /\ ~inside(path) /\ ~below(path) =>
                               ReadField(GetDocument(us, mask), path) = None
    BY DEF MaskedReadExact
  <2>1. documents[us] \in Fields /\ mask \in Seq(Path)
    BY ParticipantAssumption DEF NumberInv, TypeOK
  <2> QED BY <2>1, MaskedDocumentExact DEF GetDocument
<1> QED BY <1>1, AlwaysCounted, PTL
=============================================================================
