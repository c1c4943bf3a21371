-------------------------- MODULE TlsRecordsProofs --------------------------
(***************************************************************************)
(* What the proofs about TlsConnection need to know of the numbers of      *)
(* cells and of plaintext units: where the records of a script end, which  *)
(* of them are sent, how far the cells at hand can be decrypted.  End and  *)
(* Text are recursive; a least element of a set of numbers takes the place *)
(* of induction.                                                           *)
(***************************************************************************)
EXTENDS TlsConnection, FiniteSetTheorems, WellFoundedInduction, TLAPS

-----------------------------------------------------------------------------
(* Induction *)

Below == {ss \in Nat \X Nat : ss[1] < ss[2]}

LEMMA BelowWellFounded == IsWellFoundedOn(Below, Nat)
BY NatLessThanWellFounded, Zenon DEF OpToRel, Below

LEMMA LeastElement ==
  ASSUME NEW T, T \subseteq Nat, T # {}
  PROVE  \E x \in T : \A y \in T : x <= y
<1>1. PICK x \in T : \A y \in T : <<y, x>> \notin Below
  BY BelowWellFounded, WFMin
<1>2. ASSUME NEW y \in T PROVE x <= y
  <2>1. x \in Nat /\ y \in Nat /\ <<y, x>> \notin Below
    BY <1>1
  <2>2. QED
    BY <2>1 DEF Below
<1>3. QED
  BY <1>2

LEMMA Induct ==
  ASSUME NEW T, T \subseteq Nat, 0 \in T, \A k \in T : k + 1 \in T
  PROVE  T = Nat
<1>1. SUFFICES ASSUME Nat \ T # {} PROVE FALSE
  OBVIOUS
<1>2. PICK x \in Nat \ T : \A y \in Nat \ T : x <= y
  BY <1>1, LeastElement
<1>3. x - 1 \in Nat
  OBVIOUS
<1>4. x - 1 \in T
  BY <1>2, <1>3
<1>5. QED
  BY <1>3, <1>4

LEMMA GreatestElement ==
  ASSUME NEW m \in Nat, NEW T, T \subseteq 0..m, T # {}
  PROVE  \E x \in T : \A y \in T : y <= x
<1> DEFINE S == {m - x : x \in T}
<1>1. PICK s \in S : \A u \in S : s <= u
  <2>1. S \subseteq Nat
    OBVIOUS
  <2>2. PICK x \in T : TRUE
    OBVIOUS
  <2>3. m - x \in S
    OBVIOUS
  <2>4. S # {}
    BY <2>3
  <2>5. QED
    BY <2>1, <2>4, LeastElement
<1>2. PICK x \in T : s = m - x
  OBVIOUS
<1>3. ASSUME NEW y \in T PROVE y <= x
  <2>1. m - y \in S
    OBVIOUS
  <2>2. m - x <= m - y
    BY <1>1, <1>2, <2>1
  <2>3. x \in Nat /\ y \in Nat
    OBVIOUS
  <2>4. QED
    BY <2>2, <2>3
<1>4. QED
  BY <1>3

-----------------------------------------------------------------------------
(* The recursive functions satisfy their equations *)

EndOf(e, m) == e = [i \in 0..m |-> IF i = 0 THEN 0 ELSE e[i - 1] + 1 + script[i].size]

TextOf(t, m) ==
  t = [i \in 0..m |-> IF i = 0 THEN 0
                      ELSE t[i - 1] + (IF script[i].kind = "data" THEN script[i].size ELSE 0)]

LEMMA EndExists ==
  ASSUME NEW m \in Nat
  PROVE  \E e : EndOf(e, m)
<1> DEFINE T == {k \in Nat : \E e : EndOf(e, k)}
<1>1. 0 \in T
  <2>1. EndOf([i \in 0..0 |-> 0], 0)
    BY DEF EndOf
  <2>2. QED
    BY <2>1
<1>2. ASSUME NEW k \in T PROVE k + 1 \in T
  <2>1. PICK e : EndOf(e, k)
    OBVIOUS
  <2> DEFINE g == [i \in 0..(k + 1) |-> IF i = 0 THEN 0 ELSE e[i - 1] + 1 + script[i].size]
  <2>2. \A i \in 0..k : g[i] = e[i]
    BY <2>1 DEF EndOf
  <2>3. \A i \in 0..(k + 1) : i # 0 => g[i - 1] = e[i - 1]
    BY <2>2
  <2>4. g = [i \in 0..(k + 1) |-> IF i = 0 THEN 0 ELSE g[i - 1] + 1 + script[i].size]
    BY <2>3
  <2>5. EndOf(g, k + 1)
    BY <2>4, Zenon DEF EndOf
  <2>6. QED
    BY <2>5
<1>3. T = Nat
  <2> HIDE DEF T
  <2>1. T \subseteq Nat
    BY DEF T
  <2>2. QED
    BY <2>1, <1>1, <1>2, Induct
<1>4. QED
  BY <1>3

LEMMA TextExists ==
  ASSUME NEW m \in Nat
  PROVE  \E t : TextOf(t, m)
<1> DEFINE T == {k \in Nat : \E t : TextOf(t, k)}
<1>1. 0 \in T
  <2>1. TextOf([i \in 0..0 |-> 0], 0)
    BY DEF TextOf
  <2>2. QED
    BY <2>1
<1>2. ASSUME NEW k \in T PROVE k + 1 \in T
  <2>1. PICK t : TextOf(t, k)
    OBVIOUS
  <2> DEFINE units(i) == IF script[i].kind = "data" THEN script[i].size ELSE 0
             g == [i \in 0..(k + 1) |-> IF i = 0 THEN 0 ELSE t[i - 1] + units(i)]
  <2>2. \A i \in 0..k : g[i] = t[i]
    BY <2>1 DEF TextOf
  <2>3. \A i \in 0..(k + 1) : i # 0 => g[i - 1] = t[i - 1]
    BY <2>2
  <2>4. g = [i \in 0..(k + 1) |-> IF i = 0 THEN 0 ELSE g[i - 1] + units(i)]
    BY <2>3
  <2>5. TextOf(g, k + 1)
    BY <2>4, Zenon DEF TextOf
  <2>6. QED
    BY <2>5
<1>3. T = Nat
  <2> HIDE DEF T
  <2>1. T \subseteq Nat
    BY DEF T
  <2>2. QED
    BY <2>1, <1>1, <1>2, Induct
<1>4. QED
  BY <1>3

LEMMA EndEquation ==
  ASSUME Len(script) \in Nat
  PROVE  EndOf(End, Len(script))
<1>1. \E e : EndOf(e, Len(script))
  BY EndExists
<1>2. End = CHOOSE e : EndOf(e, Len(script))
  BY DEF End, EndOf
<1>3. QED
  BY <1>1, <1>2, Zenon

LEMMA TextEquation ==
  ASSUME Len(script) \in Nat
  PROVE  TextOf(Text, Len(script))
<1>1. \E t : TextOf(t, Len(script))
  BY TextExists
<1>2. Text = CHOOSE t : TextOf(t, Len(script))
  BY DEF Text, TextOf
<1>3. QED
  BY <1>1, <1>2, Zenon

-----------------------------------------------------------------------------
(* Where the records end *)

Records == 0..Len(script)

\* What the equations and the assumptions on scripts say, record by record.
Numbered ==
  /\ Len(script) \in Nat \ {0}
  /\ End \in [Records -> Nat] /\ Text \in [Records -> Nat]
  /\ End[0] = 0 /\ Text[0] = 0
  /\ \A i \in 1..Len(script) :
       /\ script[i].size \in Nat \ {0}
       /\ End[i] = End[i - 1] + 1 + script[i].size
       /\ Text[i] = Text[i - 1] + (IF script[i].kind = "data" THEN script[i].size ELSE 0)
       /\ script[i].kind \in Kinds
       /\ script[i].kind = "data" => script[i].size <= Limit
       /\ 1 + script[i].size <= MaxWire
  /\ script[1].kind = "hs"
  /\ \A i \in 1..Len(script) : script[i].kind = "hs" => \A j \in 1..i : script[j].kind = "hs"
  /\ \A i \in 1..Len(script) : script[i].kind = "close" => i = Len(script)

LEMMA ScriptShape ==
  ASSUME script \in Scripts
  PROVE  /\ Len(script) \in Nat \ {0}
         /\ DOMAIN script = 1..Len(script)
         /\ \A i \in 1..Len(script) :
              script[i].kind \in Kinds /\ script[i].size \in Nat \ {0}
<1>1. script \in Seq([kind : Kinds, size : Nat \ {0}]) /\ script # <<>>
  BY ScriptsAssumption, RecordsAssumption
<1> DEFINE R == [kind : Kinds, size : Nat \ {0}]
<1>2. script \in Seq(R)
  BY <1>1
<1>3. Len(script) \in Nat \ {0} /\ DOMAIN script = 1..Len(script)
  <2> HIDE DEF R
  <2>1. QED
    BY <1>1, <1>2
<1>4. \A i \in 1..Len(script) : script[i] \in R
  <2> HIDE DEF R
  <2>1. QED
    BY <1>2
<1>5. \A r \in R : r.kind \in Kinds /\ r.size \in Nat \ {0}
  OBVIOUS
<1>6. QED
  BY <1>3, <1>4, <1>5

LEMMA EndType ==
  ASSUME script \in Scripts
  PROVE  /\ End \in [Records -> Nat]
         /\ End[0] = 0
         /\ \A i \in 1..Len(script) : End[i] = End[i - 1] + 1 + script[i].size
<1> DEFINE L == Len(script)
<1>1. L \in Nat /\ \A i \in 1..L : script[i].size \in Nat
  BY ScriptShape
<1>2. End = [i \in 0..L |-> IF i = 0 THEN 0 ELSE End[i - 1] + 1 + script[i].size]
  BY <1>1, EndEquation DEF EndOf
<1>3. End[0] = 0 /\ \A i \in 1..L : End[i] = End[i - 1] + 1 + script[i].size
  <2> HIDE DEF L
  <2>1. \A i \in 0..L : End[i] = IF i = 0 THEN 0 ELSE End[i - 1] + 1 + script[i].size
    BY <1>2
  <2>2. QED
    BY <1>1, <2>1
<1>4. \A i \in 0..L : End[i] \in Nat
  <2> DEFINE T == {k \in Nat : k <= L => End[k] \in Nat}
  <2>1. 0 \in T
    BY <1>3
  <2>2. ASSUME NEW k \in T PROVE k + 1 \in T
    BY <1>1, <1>3
  <2>3. T = Nat
    <3> HIDE DEF T
    <3>1. T \subseteq Nat
      BY DEF T
    <3>2. QED
      BY <2>1, <2>2, <3>1, Induct
  <2>4. QED
    BY <1>1, <2>3
<1>5. End \in [0..L -> Nat]
  <2> HIDE DEF L
  <2>1. DOMAIN End = 0..L /\ End = [i \in 0..L |-> End[i]]
    BY <1>2
  <2>2. QED
    BY <1>4, <2>1
<1>6. QED
  BY <1>3, <1>5 DEF Records

LEMMA TextType ==
  ASSUME script \in Scripts
  PROVE  /\ Text \in [Records -> Nat]
         /\ Text[0] = 0
         /\ \A i \in 1..Len(script) :
              Text[i] = Text[i - 1] + (IF script[i].kind = "data" THEN script[i].size ELSE 0)
<1> DEFINE L == Len(script)
           units(i) == IF script[i].kind = "data" THEN script[i].size ELSE 0
<1>1. L \in Nat /\ \A i \in 1..L : units(i) \in Nat
  BY ScriptShape
<1>2. Text = [i \in 0..L |-> IF i = 0 THEN 0 ELSE Text[i - 1] + units(i)]
  BY <1>1, TextEquation DEF TextOf
<1> HIDE DEF units
<1>3. Text[0] = 0 /\ \A i \in 1..L : Text[i] = Text[i - 1] + units(i)
  <2> HIDE DEF L
  <2>1. \A i \in 0..L : Text[i] = IF i = 0 THEN 0 ELSE Text[i - 1] + units(i)
    BY <1>2
  <2>2. QED
    BY <1>1, <2>1
<1>4. \A i \in 0..L : Text[i] \in Nat
  <2> DEFINE T == {k \in Nat : k <= L => Text[k] \in Nat}
  <2>1. 0 \in T
    BY <1>3
  <2>2. ASSUME NEW k \in T PROVE k + 1 \in T
    BY <1>1, <1>3
  <2>3. T = Nat
    <3> HIDE DEF T
    <3>1. T \subseteq Nat
      BY DEF T
    <3>2. QED
      BY <2>1, <2>2, <3>1, Induct
  <2>4. QED
    BY <1>1, <2>3
<1>5. Text \in [0..L -> Nat]
  <2> HIDE DEF L
  <2>1. DOMAIN Text = 0..L /\ Text = [i \in 0..L |-> Text[i]]
    BY <1>2
  <2>2. QED
    BY <1>4, <2>1
<1>6. QED
  BY <1>3, <1>5 DEF Records, units

LEMMA Numbers == script \in Scripts => Numbered
<1> SUFFICES ASSUME script \in Scripts PROVE Numbered
  OBVIOUS
<1>1. /\ Len(script) \in Nat \ {0} /\ DOMAIN script = 1..Len(script)
      /\ \A i \in 1..Len(script) : script[i].kind \in Kinds /\ script[i].size \in Nat \ {0}
  BY ScriptShape
<1>2. QED
  BY <1>1, EndType, TextType, RecordsAssumption DEF Numbered

LEMMA EndNat ==
  ASSUME Numbered, NEW i \in Records
  PROVE  i \in Nat /\ i <= Len(script) /\ Len(script) \in Nat /\ End[i] \in Nat /\ Text[i] \in Nat
BY DEF Numbered, Records

LEMMA NextRecord ==
  ASSUME Numbered, NEW i \in Records, i < Len(script)
  PROVE  /\ i + 1 \in 1..Len(script) /\ i + 1 \in Records
         /\ script[i + 1].size \in Nat \ {0} /\ 1 + script[i + 1].size <= MaxWire
         /\ End[i + 1] = End[i] + 1 + script[i + 1].size
         /\ Text[i + 1] = Text[i] + (IF script[i + 1].kind = "data" THEN script[i + 1].size ELSE 0)
         /\ Text[i + 1] >= Text[i] /\ Text[i + 1] <= Text[i] + Limit
<1>1. i + 1 \in 1..Len(script) /\ (i + 1) - 1 = i
  BY EndNat
<1>2. i + 1 \in Records
  BY <1>1 DEF Records
<1>3. /\ script[i + 1].size \in Nat \ {0} /\ 1 + script[i + 1].size <= MaxWire
      /\ End[i + 1] = End[i] + 1 + script[i + 1].size
      /\ Text[i + 1] = Text[i] + (IF script[i + 1].kind = "data" THEN script[i + 1].size ELSE 0)
      /\ script[i + 1].kind = "data" => script[i + 1].size <= Limit
  BY <1>1 DEF Numbered
<1>4. Text[i] \in Nat /\ Limit \in Nat
  BY EndNat, SizesAssumption
<1>5. Text[i + 1] >= Text[i] /\ Text[i + 1] <= Text[i] + Limit
  BY <1>3, <1>4
<1>6. QED
  BY <1>1, <1>2, <1>3, <1>5

\* A later record ends later, by its size at least.
LEMMA EndGrows ==
  ASSUME Numbered, NEW i \in Records, NEW j \in Records, i <= j
  PROVE  End[i] <= End[j] /\ Text[i] <= Text[j]
<1> DEFINE T == {k \in Nat : i <= k /\ k <= Len(script) => End[i] <= End[k] /\ Text[i] <= Text[k]}
<1>1. 0 \in T
  <2>1. i \in Nat /\ End[i] \in Nat /\ Text[i] \in Nat
    BY EndNat
  <2>2. QED
    BY <2>1
<1>2. ASSUME NEW k \in T PROVE k + 1 \in T
  <2>1. CASE i <= k /\ k + 1 <= Len(script)
    <3>1. k \in Records /\ k < Len(script)
      BY <2>1 DEF Records, Numbered
    <3>2. End[k + 1] >= End[k] /\ Text[k + 1] >= Text[k] /\ k + 1 \in Records
      BY <3>1, NextRecord, EndNat
    <3>3. End[i] <= End[k] /\ Text[i] <= Text[k]
      BY <2>1, <3>1, EndNat
    <3>4. /\ End[i] \in Nat /\ Text[i] \in Nat /\ End[k] \in Nat /\ Text[k] \in Nat
          /\ End[k + 1] \in Nat /\ Text[k + 1] \in Nat
      BY <3>1, <3>2, EndNat
    <3>5. QED
      BY <3>2, <3>3, <3>4
  <2>2. CASE i = k + 1
    BY <2>2, EndNat
  <2>3. CASE k + 1 < i \/ Len(script) < k + 1
    BY <2>3, EndNat
  <2>4. QED
    BY <2>1, <2>2, <2>3, EndNat
<1>3. T = Nat
  <2> HIDE DEF T
  <2>1. T \subseteq Nat
    BY DEF T
  <2>2. QED
    BY <1>1, <1>2, <2>1, Induct
<1>4. j \in Nat /\ j <= Len(script)
  BY EndNat
<1>5. QED
  BY <1>3, <1>4

LEMMA EndSteps ==
  ASSUME Numbered, NEW i \in Records, NEW j \in Records, i < j
  PROVE  End[i] + 1 + script[i + 1].size <= End[j] /\ End[i] < End[j]
<1>1. i < Len(script) /\ i + 1 <= j
  BY EndNat
<1>2. /\ End[i + 1] = End[i] + 1 + script[i + 1].size /\ i + 1 \in Records
      /\ script[i + 1].size \in Nat
  BY <1>1, NextRecord
<1>3. End[i + 1] <= End[j]
  BY <1>1, <1>2, EndGrows
<1>4. End[i] \in Nat /\ End[j] \in Nat
  BY EndNat
<1>5. QED
  BY <1>2, <1>3, <1>4

\* The last record in any bound on the cells.
LEMMA LastWithin ==
  ASSUME Numbered, NEW a \in Records, NEW c \in Nat, End[a] <= c
  PROVE  \E j \in Records : /\ a <= j /\ End[j] <= c
                            /\ \A i \in Records : j < i => End[i] > c
<1> DEFINE T == {j \in Records : a <= j /\ End[j] <= c}
<1>1. a \in T
  BY EndNat
<1>2. PICK j \in T : \A i \in T : i <= j
  <2>1. T \subseteq 0..Len(script) /\ Len(script) \in Nat
    BY EndNat DEF Records
  <2>2. QED
    BY <1>1, <2>1, GreatestElement
<1>3. ASSUME NEW i \in Records, j < i PROVE End[i] > c
  <2>1. End[i] \in Nat /\ i \in Nat /\ j \in Nat /\ a \in Nat
    BY EndNat
  <2>2. i \notin T
    BY <1>2, <1>3, <2>1
  <2>3. QED
    BY <1>2, <1>3, <2>1, <2>2
<1>4. QED
  BY <1>3

LEMMA RecordOfIs ==
  ASSUME Numbered, NEW cell \in Nat, NEW i \in Records, i < Len(script),
         End[i] < cell, cell <= End[i + 1]
  PROVE  RecordOf(cell) = i + 1
<1>1. i + 1 \in 1..Len(script) /\ (i + 1) - 1 = i /\ i + 1 \in Records /\ i \in Nat
  BY NextRecord, EndNat
<1>2. ASSUME NEW j \in 1..Len(script), End[j - 1] < cell, cell <= End[j] PROVE j = i + 1
  <2>1. j \in Records /\ j - 1 \in Records
    BY DEF Records, Numbered
  <2>2. /\ End[j - 1] \in Nat /\ End[j] \in Nat /\ End[i] \in Nat /\ End[i + 1] \in Nat
        /\ j \in Nat /\ j - 1 \in Nat
    BY <1>1, <2>1, EndNat
  <2>3. ~(j <= i)
    BY <1>2, <2>1, <2>2, EndGrows
  <2>4. ~(i + 1 <= j - 1)
    BY <1>1, <1>2, <2>1, <2>2, EndGrows
  <2>5. QED
    BY <1>1, <2>2, <2>3, <2>4
<1>3. QED
  BY <1>1, <1>2 DEF RecordOf

LEMMA RecordOfCell ==
  ASSUME Numbered, NEW cell \in 1..End[Len(script)]
  PROVE  \E i \in Records : /\ i < Len(script) /\ RecordOf(cell) = i + 1
                            /\ End[i] < cell /\ cell <= End[i + 1]
<1>1. 0 \in Records /\ End[0] = 0 /\ Len(script) \in Nat /\ Len(script) \in Records
  BY DEF Numbered, Records
<1>2. cell \in Nat /\ cell - 1 \in Nat /\ End[Len(script)] \in Nat /\ cell <= End[Len(script)]
  BY <1>1, EndNat
<1>3. PICK j \in Records : End[j] <= cell - 1 /\ \A i \in Records : j < i => End[i] > cell - 1
  BY <1>1, <1>2, LastWithin
<1>4. j \in Nat /\ j <= Len(script) /\ End[j] \in Nat
  BY EndNat
<1>5. j < Len(script)
  <2>1. j # Len(script)
    BY <1>2, <1>3
  <2>2. QED
    BY <1>1, <1>4, <2>1
<1>6. j + 1 \in Records
  BY <1>5, NextRecord
<1>7. End[j + 1] > cell - 1 /\ End[j + 1] \in Nat
  BY <1>3, <1>4, <1>6, EndNat
<1>8. End[j] < cell /\ cell <= End[j + 1]
  BY <1>2, <1>3, <1>4, <1>7
<1>9. RecordOf(cell) = j + 1
  BY <1>2, <1>5, <1>8, RecordOfIs
<1>10. QED
  BY <1>5, <1>8, <1>9

-----------------------------------------------------------------------------
(* What the peer has sent *)

\* j is the number of records that are sent.
Whole(j) ==
  /\ j \in Records /\ End[j] <= sent
  /\ \A i \in Records : j < i => End[i] > sent

LEMMA SentWhole ==
  ASSUME Numbered, sent \in Nat
  PROVE  \E j \in Records : Whole(j)
<1>1. 0 \in Records /\ End[0] = 0
  BY DEF Numbered, Records
<1>2. QED
  BY <1>1, LastWithin DEF Whole

LEMMA WholeIs ==
  ASSUME Numbered, sent \in Nat, NEW j \in Records, Whole(j)
  PROVE  /\ SentRecords = 1..j /\ Cardinality(SentRecords) = j
         /\ SentText = Text[j]
         /\ SentClose <=> Closed(j)
<1>1. j \in Nat /\ j <= Len(script) /\ Len(script) \in Nat
  BY EndNat
<1>2. ASSUME NEW i \in 1..Len(script) PROVE End[i] <= sent <=> i <= j
  <2>1. i \in Records /\ End[i] \in Nat /\ End[j] \in Nat /\ i \in Nat
    BY EndNat DEF Records
  <2>2. i <= j => End[i] <= End[j]
    BY <2>1, EndGrows
  <2>3. j < i => End[i] > sent
    BY <2>1 DEF Whole
  <2>4. End[j] <= sent
    BY DEF Whole
  <2>5. QED
    BY <1>1, <2>1, <2>2, <2>3, <2>4
<1>3. SentRecords = 1..j
  BY <1>1, <1>2 DEF SentRecords
<1>4. Cardinality(SentRecords) = j
  BY <1>1, <1>3, FS_Interval
<1>5. SentText = Text[j]
  <2>1. CASE j = 0
    <3>1. SentRecords = {} /\ Text[0] = 0
      BY <1>3, <2>1 DEF Numbered
    <3>2. QED
      BY <2>1, <3>1 DEF SentText
  <2>2. CASE j # 0
    <3>1. SentRecords # {}
      BY <1>1, <1>3, <2>2
    <3>2. QED
      BY <1>4, <3>1 DEF SentText
  <2>3. QED
    BY <2>1, <2>2
<1>6. SentClose <=> Closed(j)
  BY <1>3 DEF SentClose, Closed
<1>7. QED
  BY <1>3, <1>4, <1>5, <1>6

LEMMA WholeFrom ==
  ASSUME Numbered, sent \in Nat, NEW i \in Records, End[i] <= sent,
         i < Len(script) => sent < End[i + 1]
  PROVE  Whole(i)
<1>1. ASSUME NEW k \in Records, i < k PROVE End[k] > sent
  <2>1. i < Len(script)
    BY <1>1, EndNat
  <2>2. i + 1 \in Records /\ i + 1 <= k
    BY <1>1, <2>1, NextRecord, EndNat
  <2>3. End[i + 1] <= End[k] /\ End[i + 1] \in Nat /\ End[k] \in Nat
    BY <2>2, EndGrows, EndNat
  <2>4. QED
    BY <2>1, <2>3
<1>2. QED
  BY <1>1 DEF Whole

LEMMA WholeBound ==
  ASSUME Numbered, sent \in Nat, NEW j \in Records, Whole(j), NEW i \in Records, End[i] <= sent
  PROVE  i <= j /\ Text[i] <= SentText
<1>1. i <= j
  <2>1. End[i] \in Nat /\ End[j] \in Nat /\ i \in Nat /\ j \in Nat
    BY EndNat
  <2>2. QED
    BY <2>1 DEF Whole
<1>2. QED
  BY <1>1, EndGrows, WholeIs

\* close_notify is the last record.
LEMMA ClosedIsLast ==
  ASSUME Numbered, NEW k \in Records, Closed(k)
  PROVE  /\ k = Len(script) /\ k # 0 /\ script[k].kind = "close"
         /\ Text[k] = Text[k - 1] /\ k - 1 \in Records
<1>1. PICK i \in 1..k : script[i].kind = "close"
  BY DEF Closed
<1>2. k \in Nat /\ k <= Len(script) /\ Len(script) \in Nat
  BY EndNat
<1>3. i = Len(script)
  BY <1>1, <1>2 DEF Numbered
<1>4. i = k /\ k # 0 /\ k - 1 \in Records
  BY <1>2, <1>3 DEF Records
<1>5. script[k].kind = "close" /\ k \in 1..Len(script)
  BY <1>1, <1>2, <1>4
<1>6. Text[k] = Text[k - 1] + 0
  BY <1>5 DEF Numbered
<1>7. Text[k - 1] \in Nat
  BY <1>4, EndNat
<1>8. QED
  BY <1>3, <1>4, <1>5, <1>6, <1>7

\* Up to the last handshake record there is no plaintext.
LEMMA NoTextYet ==
  ASSUME Numbered, NEW k \in Records, Handshaking(k)
  PROVE  k < Len(script) /\ script[k + 1].kind = "hs" /\ Text[k] = 0 /\ Text[k + 1] = 0
<1>1. k \in Nat /\ k <= Len(script) /\ Len(script) \in Nat
  BY EndNat
<1>2. PICK h \in (k + 1)..Len(script) : script[h].kind = "hs"
  BY DEF Handshaking
<1>3. \A j \in 1..h : script[j].kind = "hs"
  BY <1>1, <1>2 DEF Numbered
<1>4. k < Len(script) /\ script[k + 1].kind = "hs"
  BY <1>1, <1>2, <1>3
<1> DEFINE T == {j \in Nat : j <= k + 1 => Text[j] = 0}
<1>5. 0 \in T
  BY DEF Numbered
<1>6. ASSUME NEW j \in T PROVE j + 1 \in T
  <2>1. CASE j + 1 <= k + 1
    <3>1. j \in Records /\ j < Len(script) /\ script[j + 1].kind = "hs"
      BY <1>1, <1>2, <1>3, <1>4, <2>1 DEF Records
    <3>2. Text[j + 1] = Text[j] + 0
      BY <3>1, NextRecord
    <3>3. Text[j] = 0
      BY <1>1, <2>1
    <3>4. QED
      BY <3>2, <3>3
  <2>2. CASE ~(j + 1 <= k + 1)
    BY <2>2
  <2>3. QED
    BY <2>1, <2>2
<1>7. T = Nat
  <2> HIDE DEF T
  <2>1. T \subseteq Nat
    BY DEF T
  <2>2. QED
    BY <1>5, <1>6, <2>1, Induct
<1>8. k \in T /\ k + 1 \in T
  BY <1>1, <1>7
<1>9. QED
  BY <1>1, <1>4, <1>8

-----------------------------------------------------------------------------
(* Runs of cells *)

\* s holds the cells that follow the first a ones.
Run(s, a) == \A i \in 1..Len(s) : s[i] = a + i

LEMMA RunConcat ==
  ASSUME NEW s \in Seq(Nat), NEW r \in Seq(Nat), NEW a \in Nat, Run(s, a), Run(r, a + Len(s))
  PROVE  s \o r \in Seq(Nat) /\ Len(s \o r) = Len(s) + Len(r) /\ Run(s \o r, a)
BY DEF Run

LEMMA RunPrefix ==
  ASSUME NEW s \in Seq(Nat), NEW a \in Nat, NEW k \in 0..Len(s), Run(s, a)
  PROVE  SubSeq(s, 1, k) \in Seq(Nat) /\ Len(SubSeq(s, 1, k)) = k /\ Run(SubSeq(s, 1, k), a)
BY DEF Run

LEMMA RunRest ==
  ASSUME NEW s \in Seq(Nat), NEW a \in Nat, NEW k \in 0..Len(s), Run(s, a)
  PROVE  Rest(s, k) \in Seq(Nat) /\ Len(Rest(s, k)) = Len(s) - k /\ Run(Rest(s, k), a + k)
BY DEF Run, Rest

LEMMA RunSpan ==
  ASSUME NEW a \in Nat, NEW k \in Nat
  PROVE  Span(a, a + k) \in Seq(Nat) /\ Len(Span(a, a + k)) = k /\ Run(Span(a, a + k), a)
BY DEF Run, Span

LEMMA RunIsSpan ==
  ASSUME NEW s \in Seq(Nat), NEW a \in Nat
  PROVE  Run(s, a) <=> s = Span(a, a + Len(s))
BY DEF Run, Span

LEMMA Empty ==
  ASSUME NEW s \in Seq(Nat)
  PROVE  Len(s) \in Nat /\ (Len(s) = 0 <=> s = <<>>)
OBVIOUS

LEMMA Parts ==
  ASSUME NEW S, NEW s \in Seq(S), NEW k \in 0..Len(s)
  PROVE  /\ SubSeq(s, 1, k) \in Seq(S) /\ Len(SubSeq(s, 1, k)) = k
         /\ Rest(s, k) \in Seq(S) /\ Len(Rest(s, k)) = Len(s) - k
BY DEF Rest

LEMMA RestNone ==
  ASSUME NEW S, NEW s \in Seq(S)
  PROVE  Rest(s, 0) = s /\ Rest(s, Len(s)) = <<>>
<1>1. SubSeq(s, 1, Len(s)) = s
  OBVIOUS
<1>2. SubSeq(s, Len(s) + 1, Len(s)) = <<>>
  OBVIOUS
<1>3. QED
  BY <1>1, <1>2 DEF Rest

LEMMA Joined ==
  ASSUME NEW S, NEW s \in Seq(S), NEW r \in Seq(S)
  PROVE  s \o r \in Seq(S) /\ Len(s \o r) = Len(s) + Len(r)
OBVIOUS

LEMMA SpanWithin ==
  ASSUME NEW a \in Nat, NEW b \in Nat, NEW m \in Nat, a <= b, b <= m
  PROVE  Span(a, b) \in Seq(1..m) /\ Len(Span(a, b)) = b - a
<1>1. b - a \in Nat /\ \A i \in 1..(b - a) : a + i \in 1..m
  OBVIOUS
<1>2. QED
  BY <1>1 DEF Span

LEMMA Wider ==
  ASSUME NEW a \in Nat, NEW b \in Nat, a <= b
  PROVE  Seq(1..a) \subseteq Seq(1..b) /\ Seq(1..a) \subseteq Seq(Nat)
<1>1. 1..a \subseteq 1..b /\ 1..a \subseteq Nat
  OBVIOUS
<1>2. \A s \in Seq(1..a) : s \in Seq(1..b) /\ s \in Seq(Nat)
  <2> SUFFICES ASSUME NEW s \in Seq(1..a) PROVE s \in Seq(1..b) /\ s \in Seq(Nat)
    OBVIOUS
  <2>1. Len(s) \in Nat /\ s = [i \in 1..Len(s) |-> s[i]] /\ \A i \in 1..Len(s) : s[i] \in 1..a
    OBVIOUS
  <2>2. \A i \in 1..Len(s) : s[i] \in 1..b /\ s[i] \in Nat
    BY <1>1, <2>1
  <2>3. QED
    BY <2>1, <2>2
<1>3. QED
  BY <1>2

-----------------------------------------------------------------------------
(* What decrypting the cells of d yields *)

LEMMA ThroughIs ==
  ASSUME Numbered, done \in Records, NEW d, Len(d) \in Nat
  PROVE  /\ Through(d) \in Records /\ done <= Through(d)
         /\ End[Through(d)] <= End[done] + Len(d)
         /\ \A i \in Records : Through(d) < i => End[i] > End[done] + Len(d)
<1>1. End[done] \in Nat /\ done \in Nat /\ done <= Len(script) /\ Len(script) \in Nat
  BY EndNat
<1>2. PICK j \in Records : /\ done <= j /\ End[j] <= End[done] + Len(d)
                           /\ \A i \in Records : j < i => End[i] > End[done] + Len(d)
  <2>1. End[done] + Len(d) \in Nat /\ End[done] <= End[done] + Len(d)
    BY <1>1
  <2>2. QED
    BY <2>1, LastWithin
<1>3. ASSUME NEW k \in done..Len(script)
      PROVE  /\ k \in Records
             /\ End[k] - End[done] <= Len(d) <=> End[k] <= End[done] + Len(d)
  <2>1. k \in Records
    BY <1>1 DEF Records
  <2>2. End[k] \in Nat
    BY <2>1, EndNat
  <2>3. QED
    BY <1>1, <2>1, <2>2
<1> DEFINE Last(k) == /\ End[k] - End[done] <= Len(d)
                      /\ \A i \in (k + 1)..Len(script) : End[i] - End[done] > Len(d)
<1>4. j \in done..Len(script) /\ Last(j)
  <2>1. j \in Nat /\ j <= Len(script)
    BY EndNat
  <2>2. j \in done..Len(script)
    BY <1>1, <1>2, <2>1
  <2>3. ASSUME NEW i \in (j + 1)..Len(script) PROVE End[i] - End[done] > Len(d)
    <3>1. i \in done..Len(script) /\ j < i
      BY <1>1, <1>2, <2>1
    <3>2. End[i] > End[done] + Len(d) /\ End[i] \in Nat
      BY <1>2, <1>3, <3>1, EndNat
    <3>3. QED
      BY <1>1, <3>2
  <2>4. QED
    BY <1>2, <1>3, <2>2, <2>3
<1>5. Through(d) \in done..Len(script) /\ Last(Through(d))
  <2>1. Through(d) = CHOOSE k \in done..Len(script) : Last(k)
    BY DEF Through
  <2> HIDE DEF Last
  <2>2. QED
    BY <1>4, <2>1
<1>6. Through(d) \in Records /\ done <= Through(d) /\ End[Through(d)] <= End[done] + Len(d)
  BY <1>1, <1>3, <1>5
<1>7. ASSUME NEW i \in Records, Through(d) < i PROVE End[i] > End[done] + Len(d)
  <2>1. i \in (Through(d) + 1)..Len(script) /\ End[i] \in Nat
    BY <1>6, <1>7, EndNat
  <2>2. End[i] - End[done] > Len(d)
    BY <1>5, <2>1
  <2>3. QED
    BY <1>1, <2>1, <2>2
<1>8. QED
  BY <1>6, <1>7

\* No record at all is decrypted when the cells of the next one are not all there.
LEMMA ThroughBelow ==
  ASSUME Numbered, done \in Records, NEW d, Len(d) \in Nat, NEW i \in Records,
         End[done] + Len(d) < End[i]
  PROVE  Through(d) < i
<1>1. Through(d) \in Records /\ End[Through(d)] <= End[done] + Len(d)
  BY ThroughIs
<1>2. /\ End[Through(d)] \in Nat /\ End[i] \in Nat /\ End[done] \in Nat
      /\ Through(d) \in Nat /\ i \in Nat
  BY <1>1, EndNat
<1>3. i <= Through(d) => End[i] <= End[Through(d)]
  BY <1>1, EndGrows
<1>4. QED
  BY <1>1, <1>2, <1>3

LEMMA Decrypts ==
  ASSUME Numbered, done \in Records, NEW S, NEW d \in Seq(S)
  PROVE  /\ Undecrypted(d) \in Seq(S)
         /\ Len(Undecrypted(d)) = End[done] + Len(d) - End[Through(d)]
         /\ Len(Undecrypted(d)) <= Len(d)
         /\ Through(d) < Len(script) => Len(Undecrypted(d)) < 1 + script[Through(d) + 1].size
<1> DEFINE t == Through(d)
<1>1. /\ t \in Records /\ done <= t /\ End[t] <= End[done] + Len(d)
      /\ \A i \in Records : t < i => End[i] > End[done] + Len(d)
      /\ Len(d) \in Nat
  BY ThroughIs
<1>2. End[done] \in Nat /\ End[t] \in Nat /\ End[done] <= End[t]
  BY <1>1, EndGrows, EndNat
<1>3. End[t] - End[done] \in 0..Len(d)
  BY <1>1, <1>2
<1>4. Undecrypted(d) \in Seq(S) /\ Len(Undecrypted(d)) = Len(d) - (End[t] - End[done])
  BY <1>3, Parts DEF Undecrypted
<1>5. t < Len(script) => Len(Undecrypted(d)) < 1 + script[t + 1].size
  <2> SUFFICES ASSUME t < Len(script) PROVE Len(Undecrypted(d)) < 1 + script[t + 1].size
    OBVIOUS
  <2>1. /\ t + 1 \in Records /\ End[t + 1] = End[t] + 1 + script[t + 1].size
        /\ script[t + 1].size \in Nat
    BY <1>1, NextRecord
  <2>2. t < t + 1
    BY <1>1, EndNat
  <2>3. End[t + 1] > End[done] + Len(d)
    BY <1>1, <2>1, <2>2
  <2>4. QED
    BY <1>1, <1>2, <1>4, <2>1, <2>3
<1>6. QED
  BY <1>1, <1>2, <1>4, <1>5

LEMMA UndecryptedRun ==
  ASSUME Numbered, done \in Records, NEW d \in Seq(Nat), Run(d, End[done])
  PROVE  Run(Undecrypted(d), End[Through(d)])
<1>1. Through(d) \in Records /\ done <= Through(d) /\ End[Through(d)] <= End[done] + Len(d)
  BY ThroughIs
<1>2. End[done] \in Nat /\ End[Through(d)] \in Nat /\ End[done] <= End[Through(d)]
  BY <1>1, EndGrows, EndNat
<1>3. End[Through(d)] - End[done] \in 0..Len(d)
  BY <1>1, <1>2
<1>4. Run(Undecrypted(d), End[done] + (End[Through(d)] - End[done]))
  BY <1>2, <1>3, RunRest DEF Undecrypted
<1>5. End[done] + (End[Through(d)] - End[done]) = End[Through(d)]
  BY <1>2
<1>6. QED
  BY <1>4, <1>5

LEMMA DecryptedUnits ==
  ASSUME Numbered, done \in Records, NEW d, Len(d) \in Nat, NEW m \in Nat,
         plain \in Seq(1..m), Text[Through(d)] <= m
  PROVE  Decrypted(d) \in Seq(1..m)
<1>1. Through(d) \in Records /\ done <= Through(d)
  BY ThroughIs
<1>2. Text[done] \in Nat /\ Text[Through(d)] \in Nat /\ Text[done] <= Text[Through(d)]
  BY <1>1, EndGrows, EndNat
<1>3. Span(Text[done], Text[Through(d)]) \in Seq(1..m)
  BY <1>2, SpanWithin
<1>4. QED
  BY <1>3, Joined DEF Decrypted

LEMMA DecryptedRun ==
  ASSUME Numbered, done \in Records, NEW d, Len(d) \in Nat, plain \in Seq(Nat)
  PROVE  /\ Decrypted(d) \in Seq(Nat)
         /\ Len(Decrypted(d)) = Len(plain) + (Text[Through(d)] - Text[done])
         /\ \A a \in Nat : Run(plain, a) /\ a + Len(plain) = Text[done] => Run(Decrypted(d), a)
<1>1. Through(d) \in Records /\ done <= Through(d)
  BY ThroughIs
<1>2. Text[done] \in Nat /\ Text[Through(d)] \in Nat /\ Text[done] <= Text[Through(d)]
  BY <1>1, EndGrows, EndNat
<1> DEFINE k == Text[Through(d)] - Text[done]
           more == Span(Text[done], Text[Through(d)])
<1>3. k \in Nat /\ Text[done] + k = Text[Through(d)]
  BY <1>2
<1>4. more \in Seq(Nat) /\ Len(more) = k /\ Run(more, Text[done])
  BY <1>2, <1>3, RunSpan
<1>5. Decrypted(d) = plain \o more
  BY DEF Decrypted
<1> HIDE DEF k, more
<1>6. Decrypted(d) \in Seq(Nat) /\ Len(Decrypted(d)) = Len(plain) + k
  <2>1. plain \o more \in Seq(Nat) /\ Len(plain \o more) = Len(plain) + Len(more)
    BY <1>4, Joined
  <2>2. QED
    BY <1>4, <1>5, <2>1
<1>7. ASSUME NEW a \in Nat, Run(plain, a), a + Len(plain) = Text[done] PROVE Run(Decrypted(d), a)
  BY <1>4, <1>5, <1>7, RunConcat
<1>8. QED
  BY <1>6, <1>7 DEF k
=============================================================================
