-------------------------- MODULE DocumentTextProofs --------------------------
(***************************************************************************)
(* Proofs about DocumentText, for texts and positions of any size.  A line *)
(* index is characterised by rank: its (k + 1)st entry is the offset       *)
(* behind the kth line feed.  A position is characterised by a maximum: it *)
(* is the last offset of its line that is not past its column.  Both       *)
(* survive an edit and a shift, which is all the properties need.          *)
(***************************************************************************)
EXTENDS DocumentText, FiniteSetTheorems, SequenceTheorems, WellFoundedInduction, TLAPS

-----------------------------------------------------------------------------
(* Least and greatest numbers, and counting *)

\* A set of numbers has a least one: the only induction these proofs need.
LEMMA LeastNumber ==
    ASSUME NEW T, T \subseteq Nat, T # {}
    PROVE  \E m \in T : \A n \in T : m <= n
<1>1. IsWellFoundedOn(OpToRel(<, Nat), Nat)
  BY NatLessThanWellFounded
<1>2. PICK m \in T : \A n \in T : <<n, m>> \notin OpToRel(<, Nat)
  BY <1>1, WFMin, Zenon
<1>3. \A n \in T : ~(n < m)
  BY <1>2 DEF OpToRel
<1>4. ASSUME NEW n \in T PROVE m <= n
  <2>1. m \in Nat /\ n \in Nat
    OBVIOUS
  <2> QED
    BY <1>3, <2>1
<1> QED
  BY <1>4

\* A bounded one has a greatest.
LEMMA GreatestNumber ==
    ASSUME NEW b \in Nat, NEW T, T \subseteq 0..b, T # {}
    PROVE  \E m \in T : \A n \in T : n <= m
<1> DEFINE D == {b - n : n \in T}
<1>1. D \subseteq Nat /\ D # {}
  <2>1. \A n \in T : b - n \in Nat
    OBVIOUS
  <2> QED
    BY <2>1
<1>2. PICK d \in D : \A n \in D : d <= n
  BY <1>1, LeastNumber
<1>3. PICK m \in T : d = b - m
  BY <1>2
<1>4. \A n \in T : b - m <= b - n
  BY <1>2, <1>3
<1>5. ASSUME NEW n \in T PROVE n <= m
  <2>1. m \in Int /\ n \in Int
    OBVIOUS
  <2> QED
    BY <1>4, <2>1
<1> QED
  BY <1>5

\* Sets that are the same but for a shift count the same.
LEMMA SameCount ==
    ASSUME NEW S, IsFiniteSet(S), S \subseteq Int, NEW T, T \subseteq Int, NEW d \in Int,
           \A i \in Int : i \in S <=> i + d \in T
    PROVE  IsFiniteSet(T) /\ Cardinality(T) = Cardinality(S)
<1> DEFINE f == [i \in S |-> i + d]
<1>1. f \in [S -> T]
  OBVIOUS
<1>2. \A i, j \in S : f[i] = f[j] => i = j
  OBVIOUS
<1>3. \A t \in T : t - d \in S /\ f[t - d] = t
  <2>1. ASSUME NEW t \in T PROVE t \in Int /\ t - d \in Int /\ (t - d) + d = t
    OBVIOUS
  <2> QED
    BY <2>1
<1>4. f \in Bijection(S, T)
  BY <1>1, <1>2, <1>3 DEF Bijection, Injection, Surjection, IsInjective
<1> QED
  BY <1>4, FS_Bijection DEF ExistsBijection

-----------------------------------------------------------------------------
(* Line feeds and units *)

\* The places of a byte, and of those that begin a character, in a stretch of a text.
At(text, byte, a, b) == {i \in a..b : text[i] = byte}
Begin(text, a, b)    == {i \in a..b : text[i] # "c"}

\* The places of a byte in a stretch of text, and of characters that begin there, can be counted.
LEMMA SomeBytesAreFinite ==
    ASSUME NEW text, NEW a \in Int, NEW b \in Int, NEW byte
    PROVE  /\ IsFiniteSet(At(text, byte, a, b)) /\ Cardinality(At(text, byte, a, b)) \in Nat
           /\ IsFiniteSet(Begin(text, a, b)) /\ Cardinality(Begin(text, a, b)) \in Nat
<1>1. /\ At(text, byte, a, b) \in SUBSET (a..b)
      /\ Begin(text, a, b) \in SUBSET (a..b)
  BY DEF At, Begin
<1> QED
  BY <1>1, FS_Interval, FS_Subset, FS_CardinalityType

\* One more byte.
LEMMA OneMoreByte ==
    ASSUME NEW text, NEW a \in Nat, NEW o \in Nat, a <= o, NEW byte
    PROVE  /\ Cardinality(At(text, byte, a + 1, o + 1))
                = Cardinality(At(text, byte, a + 1, o)) + IF text[o + 1] = byte THEN 1 ELSE 0
           /\ Cardinality(Begin(text, a + 1, o + 1))
                = Cardinality(Begin(text, a + 1, o)) + IF text[o + 1] # "c" THEN 1 ELSE 0
<1>1. (a + 1)..(o + 1) = ((a + 1)..o) \cup {o + 1} /\ o + 1 \notin (a + 1)..o
  OBVIOUS
<1>2. /\ At(text, byte, a + 1, o + 1) = IF text[o + 1] = byte
            THEN At(text, byte, a + 1, o) \cup {o + 1} ELSE At(text, byte, a + 1, o)
      /\ o + 1 \notin At(text, byte, a + 1, o)
  BY <1>1 DEF At
<1>3. /\ Begin(text, a + 1, o + 1) = IF text[o + 1] # "c"
            THEN Begin(text, a + 1, o) \cup {o + 1} ELSE Begin(text, a + 1, o)
      /\ o + 1 \notin Begin(text, a + 1, o)
  BY <1>1 DEF Begin
<1>4. /\ IsFiniteSet(At(text, byte, a + 1, o)) /\ Cardinality(At(text, byte, a + 1, o)) \in Nat
      /\ IsFiniteSet(Begin(text, a + 1, o)) /\ Cardinality(Begin(text, a + 1, o)) \in Nat
  BY SomeBytesAreFinite
<1>5. /\ Cardinality(At(text, byte, a + 1, o) \cup {o + 1})
            = Cardinality(At(text, byte, a + 1, o)) + 1
      /\ Cardinality(Begin(text, a + 1, o) \cup {o + 1}) = Cardinality(Begin(text, a + 1, o)) + 1
  BY <1>2, <1>3, <1>4, FS_AddElement
<1> QED
  BY <1>2, <1>3, <1>4, <1>5

\* More bytes.
LEMMA MoreBytes ==
    ASSUME NEW text, NEW a \in Nat, NEW o \in Nat, NEW q \in Nat, o <= q, NEW byte
    PROVE  /\ Cardinality(At(text, byte, a + 1, o)) <= Cardinality(At(text, byte, a + 1, q))
           /\ Cardinality(Begin(text, a + 1, o)) <= Cardinality(Begin(text, a + 1, q))
<1>1. /\ At(text, byte, a + 1, o) \in SUBSET At(text, byte, a + 1, q)
      /\ Begin(text, a + 1, o) \in SUBSET Begin(text, a + 1, q)
  BY DEF At, Begin
<1> QED
  BY <1>1, SomeBytesAreFinite, FS_Subset

\* The same bytes elsewhere.
LEMMA ShiftedBytes ==
    ASSUME NEW s, NEW t, NEW a \in Int, NEW b \in Int, NEW c \in Int, NEW e \in Int, NEW byte,
           e - c = b - a, \A i \in a..b : s[i] = t[i + (c - a)]
    PROVE  Cardinality(At(t, byte, c, e)) = Cardinality(At(s, byte, a, b))
<1>1. PICK d \in Int : d = c - a
  OBVIOUS
<1>2. \A i \in Int : i \in a..b <=> i + d \in c..e
  BY <1>1
<1>3. \A i \in Int : i \in At(s, byte, a, b) <=> i + d \in At(t, byte, c, e)
  BY <1>1, <1>2 DEF At
<1>4. At(s, byte, a, b) \subseteq Int /\ At(t, byte, c, e) \subseteq Int
  BY DEF At
<1> QED
  BY <1>3, <1>4, SomeBytesAreFinite, SameCount

\* The same characters elsewhere.
LEMMA ShiftedBegins ==
    ASSUME NEW s, NEW t, NEW a \in Int, NEW b \in Int, NEW c \in Int, NEW e \in Int,
           e - c = b - a, \A i \in a..b : s[i] = t[i + (c - a)]
    PROVE  Cardinality(Begin(t, c, e)) = Cardinality(Begin(s, a, b))
<1>1. PICK d \in Int : d = c - a
  OBVIOUS
<1>2. \A i \in Int : i \in a..b <=> i + d \in c..e
  BY <1>1
<1>3. \A i \in Int : i \in Begin(s, a, b) <=> i + d \in Begin(t, c, e)
  BY <1>1, <1>2 DEF Begin
<1>4. Begin(s, a, b) \subseteq Int /\ Begin(t, c, e) \subseteq Int
  BY DEF Begin
<1> QED
  BY <1>3, <1>4, SomeBytesAreFinite, SameCount

\* The line of an offset: it goes up by one behind a line feed, and nowhere down.
LEMMA LineOfFacts ==
    ASSUME NEW text
    PROVE  /\ LineOf(text, 0) = 0
           /\ \A o \in Nat : LineOf(text, o) \in Nat
           /\ \A o \in Nat : LineOf(text, o + 1)
                               = LineOf(text, o) + IF text[o + 1] = "LF" THEN 1 ELSE 0
           /\ \A o, q \in Nat : o <= q => LineOf(text, o) <= LineOf(text, q)
<1>1. \A o : LineOf(text, o) = Cardinality(At(text, "LF", 0 + 1, o))
  BY DEF LineOf, At
<1>2. At(text, "LF", 0 + 1, 0) = {}
  BY DEF At
<1>3. LineOf(text, 0) = 0
  BY <1>1, <1>2, FS_EmptySet
<1>4. \A o \in Nat : LineOf(text, o) \in Nat
  BY <1>1, SomeBytesAreFinite
<1>5. \A o \in Nat : LineOf(text, o + 1)
                       = LineOf(text, o) + IF text[o + 1] = "LF" THEN 1 ELSE 0
  BY <1>1, OneMoreByte
<1>6. \A o, q \in Nat : o <= q => LineOf(text, o) <= LineOf(text, q)
  BY <1>1, MoreBytes
<1> QED
  BY <1>3, <1>4, <1>5, <1>6

\* Two texts agree on a stretch of each.
SameStretch(s, a, b, t, c, e) ==
    a <= b /\ e - c = b - a /\ \A i \in (a + 1)..b : s[i] = t[i + (c - a)]

\* Two texts that agree on a stretch have the same number of line feeds there.
LEMMA LineOfShift ==
    ASSUME NEW s, NEW t, NEW a \in Nat, NEW b \in Nat, NEW c \in Nat, NEW e \in Nat,
           SameStretch(s, a, b, t, c, e)
    PROVE  LineOf(t, e) - LineOf(t, c) = LineOf(s, b) - LineOf(s, a)
<1> USE DEF SameStretch
<1>1. ASSUME NEW text, NEW x \in Nat, NEW y \in Nat, x <= y
      PROVE  LineOf(text, y) = LineOf(text, x) + Cardinality(At(text, "LF", x + 1, y))
  <2>1. /\ At(text, "LF", 1, y) = At(text, "LF", 1, x) \cup At(text, "LF", x + 1, y)
        /\ At(text, "LF", 1, x) \cap At(text, "LF", x + 1, y) = {}
    BY <1>1 DEF At
  <2>2. /\ IsFiniteSet(At(text, "LF", 1, x)) /\ IsFiniteSet(At(text, "LF", x + 1, y))
        /\ Cardinality(At(text, "LF", 1, x)) \in Nat
        /\ Cardinality(At(text, "LF", x + 1, y)) \in Nat
    BY SomeBytesAreFinite
  <2>3. Cardinality(At(text, "LF", 1, x) \cup At(text, "LF", x + 1, y))
          = Cardinality(At(text, "LF", 1, x)) + Cardinality(At(text, "LF", x + 1, y))
              - Cardinality(At(text, "LF", 1, x) \cap At(text, "LF", x + 1, y))
    BY <2>2, FS_Union
  <2>4. /\ LineOf(text, x) = Cardinality(At(text, "LF", 1, x))
        /\ LineOf(text, y) = Cardinality(At(text, "LF", 1, y))
    BY DEF LineOf, At
  <2> QED
    BY <2>1, <2>2, <2>3, <2>4, FS_EmptySet
<1>2. Cardinality(At(t, "LF", c + 1, e)) = Cardinality(At(s, "LF", a + 1, b))
  <2>1. PICK x \in Int, y \in Int : x = a + 1 /\ y = c + 1
    OBVIOUS
  <2>2. /\ b \in Int /\ e \in Int /\ e - y = b - x /\ y - x = c - a
        /\ \A i \in x..b : s[i] = t[i + (y - x)]
    BY <2>1
  <2>3. Cardinality(At(t, "LF", y, e)) = Cardinality(At(s, "LF", x, b))
    BY <2>2, ShiftedBytes
  <2> QED
    BY <2>1, <2>3
<1>3. /\ LineOf(s, b) = LineOf(s, a) + Cardinality(At(s, "LF", a + 1, b))
      /\ LineOf(t, e) = LineOf(t, c) + Cardinality(At(t, "LF", c + 1, e))
  BY <1>1
<1>4. LineOf(s, a) \in Nat /\ LineOf(t, c) \in Nat
  BY LineOfFacts
<1>5. Cardinality(At(s, "LF", a + 1, b)) \in Nat
  BY SomeBytesAreFinite, a + 1 \in Int
<1> QED
  BY <1>2, <1>3, <1>4, <1>5

UnitsOf(byte) == (IF byte # "c" THEN 1 ELSE 0) + (IF byte = "p" THEN 1 ELSE 0)

\* A UTF-16 length is two counts: characters, and those of four bytes once more.
LEMMA UnitsAreCounts ==
    ASSUME NEW text, NEW a \in Int, NEW o \in Int
    PROVE  /\ Units(text, a, o)
                = Cardinality(Begin(text, a + 1, o)) + Cardinality(At(text, "p", a + 1, o))
           /\ Cardinality(Begin(text, a + 1, o)) \in Nat
           /\ Cardinality(At(text, "p", a + 1, o)) \in Nat
<1>1. Units(text, a, o)
        = Cardinality(Begin(text, a + 1, o)) + Cardinality(At(text, "p", a + 1, o))
  BY DEF Units, Begin, At
<1> QED
  BY <1>1, SomeBytesAreFinite

\* It grows byte by byte: one unit where a character begins, two for one of four bytes.
LEMMA UnitsFacts ==
    ASSUME NEW text, NEW a \in Nat
    PROVE  /\ Units(text, a, a) = 0
           /\ \A o \in Nat : Units(text, a, o) \in Nat
           /\ \A o \in Nat : a <= o =>
                 Units(text, a, o + 1) = Units(text, a, o) + UnitsOf(text[o + 1])
           /\ \A o, q \in Nat : o <= q => Units(text, a, o) <= Units(text, a, q)
<1>1. Begin(text, a + 1, a) = {} /\ At(text, "p", a + 1, a) = {}
  BY DEF Begin, At
<1>2. Units(text, a, a) = 0
  BY <1>1, FS_EmptySet, UnitsAreCounts
<1>3. \A o \in Nat : Units(text, a, o) \in Nat
  BY UnitsAreCounts
<1>4. ASSUME NEW o \in Nat, a <= o
      PROVE  Units(text, a, o + 1) = Units(text, a, o) + UnitsOf(text[o + 1])
  <2>1. /\ Cardinality(At(text, "p", a + 1, o + 1))
             = Cardinality(At(text, "p", a + 1, o)) + IF text[o + 1] = "p" THEN 1 ELSE 0
        /\ Cardinality(Begin(text, a + 1, o + 1))
             = Cardinality(Begin(text, a + 1, o)) + IF text[o + 1] # "c" THEN 1 ELSE 0
    BY <1>4, OneMoreByte
  <2>2. /\ Units(text, a, o)
             = Cardinality(Begin(text, a + 1, o)) + Cardinality(At(text, "p", a + 1, o))
        /\ Units(text, a, o + 1) = Cardinality(Begin(text, a + 1, o + 1))
                                     + Cardinality(At(text, "p", a + 1, o + 1))
        /\ Cardinality(Begin(text, a + 1, o)) \in Nat
        /\ Cardinality(At(text, "p", a + 1, o)) \in Nat
    BY UnitsAreCounts
  <2> QED
    BY <2>1, <2>2 DEF UnitsOf
<1>5. \A o, q \in Nat : o <= q => Units(text, a, o) <= Units(text, a, q)
  BY MoreBytes, UnitsAreCounts
<1> QED
  BY <1>2, <1>3, <1>4, <1>5

\* Two texts that agree on a stretch have the same UTF-16 length there.
LEMMA UnitsShift ==
    ASSUME NEW s, NEW t, NEW a \in Nat, NEW b \in Nat, NEW c \in Nat, NEW e \in Nat,
           SameStretch(s, a, b, t, c, e)
    PROVE  Units(t, c, e) = Units(s, a, b)
<1> USE DEF SameStretch
<1>1. PICK x \in Int, y \in Int : x = a + 1 /\ y = c + 1
  OBVIOUS
<1>2. /\ b \in Int /\ e \in Int /\ e - y = b - x /\ y - x = c - a
      /\ \A i \in x..b : s[i] = t[i + (y - x)]
  BY <1>1
<1>3. Cardinality(At(t, "p", y, e)) = Cardinality(At(s, "p", x, b))
  BY <1>2, ShiftedBytes
<1>4. Cardinality(Begin(t, y, e)) = Cardinality(Begin(s, x, b))
  BY <1>2, ShiftedBegins
<1> QED
  BY <1>1, <1>3, <1>4, UnitsAreCounts

-----------------------------------------------------------------------------
(* The line index by rank *)

IsIndexOf(starts, text) ==
    /\ starts \in Seq(Nat)
    /\ Len(starts) = LineOf(text, Len(text)) + 1
    /\ starts[1] = 0
    /\ \A k \in 2..Len(starts) :
          starts[k] \in 1..Len(text) /\ text[starts[k]] = "LF" /\ LineOf(text, starts[k]) = k - 1

\* The kth line feed is there, ...
LEMMA LineFeedOfRank ==
    ASSUME NEW text \in Seq(Bytes), NEW k \in 1..LineOf(text, Len(text))
    PROVE  \E i \in 1..Len(text) : text[i] = "LF" /\ LineOf(text, i) = k
<1> DEFINE T == {i \in 0..Len(text) : k <= LineOf(text, i)}
<1>1. Len(text) \in Nat /\ LineOf(text, Len(text)) \in Nat
  BY LenProperties, LineOfFacts
<1>2. T \subseteq Nat /\ Len(text) \in T
  BY <1>1
<1>3. PICK m \in T : \A n \in T : m <= n
  BY <1>2, LeastNumber
<1>4. m \in 1..Len(text) /\ LineOf(text, m) \in Nat /\ k <= LineOf(text, m)
  BY <1>1, <1>3, LineOfFacts
<1>5. PICK n \in 0..(Len(text) - 1) : m = n + 1
  <2>1. m - 1 \in 0..(Len(text) - 1) /\ m = (m - 1) + 1
    BY <1>1, <1>4
  <2> QED
    BY <2>1
<1>6. n \in Nat /\ n \in 0..Len(text) /\ ~(m <= n) /\ LineOf(text, n) \in Nat
  <2>1. n \in Nat /\ n \in 0..Len(text) /\ ~(m <= n)
    BY <1>1, <1>5
  <2> QED
    BY <2>1, LineOfFacts
<1>7. ~(k <= LineOf(text, n))
  BY <1>3, <1>6
<1>8. LineOf(text, m) = LineOf(text, n) + IF text[m] = "LF" THEN 1 ELSE 0
  BY <1>5, <1>6, LineOfFacts
<1>9. text[m] = "LF" /\ LineOf(text, m) = k
  BY <1>4, <1>6, <1>7, <1>8
<1> QED
  BY <1>4, <1>9

\* ... at one place.
LEMMA RankOfLineFeed ==
    ASSUME NEW text, NEW i \in Nat \ {0}, NEW j \in Nat \ {0},
           text[i] = "LF", text[j] = "LF", LineOf(text, i) = LineOf(text, j)
    PROVE  i = j
<1>1. ASSUME NEW x \in Nat \ {0}, NEW y \in Nat \ {0}, x < y, text[y] = "LF"
      PROVE  LineOf(text, x) < LineOf(text, y)
  <2>1. PICK z \in Nat : y = z + 1 /\ x <= z
    <3>1. y - 1 \in Nat /\ y = (y - 1) + 1 /\ x <= y - 1
      BY <1>1
    <3> QED
      BY <3>1
  <2>2. LineOf(text, x) <= LineOf(text, z) /\ LineOf(text, y) = LineOf(text, z) + 1
    BY <1>1, <2>1, LineOfFacts
  <2> QED
    BY <2>1, <2>2, LineOfFacts
<1>2. LineOf(text, i) \in Nat /\ LineOf(text, j) \in Nat
  BY LineOfFacts
<1>3. ~(i < j) /\ ~(j < i)
  BY <1>1, <1>2
<1> QED
  BY <1>3

\* match_indices('\n') gives as many offsets as there are line feeds, each at its rank.
LEMMA LineFeedsFacts ==
    ASSUME NEW text \in Seq(Bytes)
    PROVE  /\ Len(text) \in Nat
           /\ LineOf(text, Len(text)) \in Nat
           /\ LineFeeds(text) \in Seq(1..Len(text))
           /\ Len(LineFeeds(text)) = LineOf(text, Len(text))
           /\ DOMAIN LineFeeds(text) = 1..LineOf(text, Len(text))
           /\ \A k \in 1..LineOf(text, Len(text)) :
                 /\ LineFeeds(text)[k] \in 1..Len(text)
                 /\ text[LineFeeds(text)[k]] = "LF"
                 /\ LineOf(text, LineFeeds(text)[k]) = k
<1> DEFINE N == LineOf(text, Len(text))
           At1(k) == CHOOSE i \in 1..Len(text) : text[i] = "LF" /\ LineOf(text, i) = k
<1>1. Len(text) \in Nat /\ N \in Nat
  BY LenProperties, LineOfFacts
<1>2. \A k \in 1..N : At1(k) \in 1..Len(text) /\ text[At1(k)] = "LF" /\ LineOf(text, At1(k)) = k
  BY LineFeedOfRank
<1>3. LineFeeds(text) = [k \in 1..N |-> At1(k)]
  BY DEF LineFeeds
<1> HIDE DEF N, At1
<1>4. LineFeeds(text) \in [1..N -> 1..Len(text)]
  BY <1>2, <1>3
<1>5. LineFeeds(text) \in Seq(1..Len(text))
  BY <1>1, <1>4, SeqDef
<1>6. DOMAIN LineFeeds(text) = 1..N
  BY <1>4
<1>7. Len(LineFeeds(text)) = N
  BY <1>1, <1>5, <1>6, LenProperties
<1>8. \A k \in 1..N : LineFeeds(text)[k] = At1(k)
  BY <1>3
<1> QED
  BY <1>1, <1>2, <1>5, <1>6, <1>7, <1>8 DEF N

\* compute_line_starts builds an index.
LEMMA ComputedIndex ==
    ASSUME NEW text \in Seq(Bytes)
    PROVE  IsIndexOf(compute_line_starts(text), text)
<1> DEFINE N == LineOf(text, Len(text))
           feeds == LineFeeds(text)
           starts == compute_line_starts(text)
<1>1. /\ Len(text) \in Nat /\ N \in Nat
      /\ feeds \in Seq(1..Len(text)) /\ Len(feeds) = N
      /\ \A k \in 1..N : /\ feeds[k] \in 1..Len(text) /\ text[feeds[k]] = "LF"
                         /\ LineOf(text, feeds[k]) = k
  BY LineFeedsFacts
<1>2. feeds \in Seq(Nat) /\ <<0>> \in Seq(Nat) /\ Len(<<0>>) = 1 /\ <<0>>[1] = 0
  <2>1. 1..Len(text) \subseteq Nat
    BY <1>1
  <2> QED
    BY <1>1, <2>1, SeqMonotonic
<1>3. starts = <<0>> \o feeds
  BY DEF compute_line_starts
<1> HIDE DEF feeds, starts, N
<1>4. /\ starts \in Seq(Nat) /\ Len(starts) = N + 1
      /\ \A k \in 1..(N + 1) : starts[k] = IF k <= 1 THEN <<0>>[k] ELSE feeds[k - 1]
  BY <1>1, <1>2, <1>3, ConcatProperties
<1>5. starts[1] = 0
  BY <1>1, <1>2, <1>4
<1>6. ASSUME NEW k \in 2..Len(starts)
      PROVE  starts[k] \in 1..Len(text) /\ text[starts[k]] = "LF" /\ LineOf(text, starts[k]) = k - 1
  <2>1. k - 1 \in 1..N /\ k \in 1..(N + 1) /\ ~(k <= 1)
    BY <1>1, <1>4
  <2> QED
    BY <1>1, <1>4, <2>1
<1> QED
  BY <1>4, <1>5, <1>6 DEF IsIndexOf, N, starts

\* A text has one index.
LEMMA IndexIsUnique ==
    ASSUME NEW text \in Seq(Bytes), NEW s, IsIndexOf(s, text), NEW t, IsIndexOf(t, text)
    PROVE  s = t
<1>1. /\ s \in Seq(Nat) /\ t \in Seq(Nat) /\ Len(s) = Len(t) /\ Len(s) \in Nat
      /\ Len(text) \in Nat
  BY LenProperties DEF IsIndexOf
<1>2. ASSUME NEW k \in 1..Len(s) PROVE s[k] = t[k]
  <2>1. CASE k = 1
    BY <2>1 DEF IsIndexOf
  <2>2. CASE k # 1
    <3>1. k \in 2..Len(s) /\ k \in 2..Len(t)
      BY <1>1, <2>2
    <3>2. /\ s[k] \in 1..Len(text) /\ text[s[k]] = "LF"
          /\ t[k] \in 1..Len(text) /\ text[t[k]] = "LF"
          /\ LineOf(text, s[k]) = LineOf(text, t[k])
      BY <3>1 DEF IsIndexOf
    <3>3. s[k] \in Nat \ {0} /\ t[k] \in Nat \ {0}
      BY <1>1, <3>2
    <3> QED
      BY <3>2, <3>3, RankOfLineFeed
  <2> QED
    BY <2>1, <2>2
<1> QED
  BY <1>1, <1>2, SeqEqual

\* An offset is behind the starts of its line and of those before it.
LEMMA IndexOrder ==
    ASSUME NEW text \in Seq(Bytes), NEW starts, IsIndexOf(starts, text)
    PROVE  /\ Len(starts) \in Nat \ {0} /\ DOMAIN starts = 1..Len(starts) /\ Len(text) \in Nat
           /\ \A k \in 1..Len(starts) : /\ starts[k] \in 0..Len(text)
                                        /\ LineOf(text, starts[k]) = k - 1
           /\ \A k \in 1..Len(starts) : \A o \in 0..Len(text) :
                 starts[k] <= o <=> k - 1 <= LineOf(text, o)
<1>1. /\ starts \in Seq(Nat) /\ Len(text) \in Nat /\ LineOf(text, Len(text)) \in Nat
      /\ Len(starts) = LineOf(text, Len(text)) + 1
  BY LenProperties, LineOfFacts DEF IsIndexOf
<1>2. Len(starts) \in Nat \ {0} /\ DOMAIN starts = 1..Len(starts)
  BY <1>1, LenProperties
<1>3. ASSUME NEW k \in 1..Len(starts)
      PROVE  starts[k] \in 0..Len(text) /\ LineOf(text, starts[k]) = k - 1
  <2>1. CASE k = 1
    BY <1>1, <2>1, LineOfFacts DEF IsIndexOf
  <2>2. CASE k # 1
    <3>1. k \in 2..Len(starts)
      BY <1>2, <2>2
    <3> QED
      BY <1>1, <3>1 DEF IsIndexOf
  <2> QED
    BY <2>1, <2>2
<1>4. ASSUME NEW k \in 1..Len(starts), NEW o \in 0..Len(text)
      PROVE  starts[k] <= o <=> k - 1 <= LineOf(text, o)
  <2>1. starts[k] \in Nat /\ o \in Nat /\ LineOf(text, o) \in Nat /\ k - 1 \in Nat
    BY <1>1, <1>2, <1>3, LineOfFacts
  <2>2. CASE starts[k] <= o
    <3>1. LineOf(text, starts[k]) <= LineOf(text, o)
      BY <2>1, <2>2, LineOfFacts
    <3> QED
      BY <1>3, <2>2, <3>1
  <2>3. CASE o < starts[k]
    <3>1. k \in 2..Len(starts)
      BY <1>2, <2>1, <2>3 DEF IsIndexOf
    <3>2. PICK z \in Nat : starts[k] = z + 1 /\ o <= z
      <4>1. starts[k] - 1 \in Nat /\ starts[k] = (starts[k] - 1) + 1 /\ o <= starts[k] - 1
        BY <2>1, <2>3
      <4> QED
        BY <4>1
    <3>3. text[starts[k]] = "LF"
      BY <3>1 DEF IsIndexOf
    <3>4. /\ LineOf(text, starts[k]) = LineOf(text, z) + 1 /\ LineOf(text, o) <= LineOf(text, z)
          /\ LineOf(text, z) \in Nat
      BY <2>1, <3>2, <3>3, LineOfFacts
    <3>5. ~(k - 1 <= LineOf(text, o))
      BY <1>3, <2>1, <3>4
    <3> QED
      BY <2>1, <2>3, <3>5
  <2> QED
    BY <2>1, <2>2, <2>3
<1> QED
  BY <1>1, <1>2, <1>3, <1>4

\* What partition_point finds: the line starts up to an offset are those of its line and before.
LEMMA StartsUpToLine ==
    ASSUME NEW text \in Seq(Bytes), NEW starts, IsIndexOf(starts, text), NEW o \in 0..Len(text)
    PROVE  /\ StartsUpTo(starts, o) = LineOf(text, o) + 1
           /\ LineOf(text, o) \in 0..(Len(starts) - 1)
<1>1. /\ Len(text) \in Nat /\ o \in Nat /\ o <= Len(text)
      /\ Len(starts) = LineOf(text, Len(text)) + 1
      /\ DOMAIN starts = 1..Len(starts)
  BY IndexOrder DEF IsIndexOf
<1>2. /\ LineOf(text, o) \in Nat /\ LineOf(text, Len(text)) \in Nat
      /\ LineOf(text, o) <= LineOf(text, Len(text))
  BY <1>1, LineOfFacts
<1>3. {i \in DOMAIN starts : starts[i] <= o} = 1..(LineOf(text, o) + 1)
  <2>1. \A i \in 1..Len(starts) : starts[i] <= o <=> i - 1 <= LineOf(text, o)
    BY IndexOrder
  <2>2. \A i \in 1..(LineOf(text, o) + 1) : i \in 1..Len(starts) /\ i - 1 <= LineOf(text, o)
    BY <1>1, <1>2
  <2>3. \A i \in 1..Len(starts) : i - 1 <= LineOf(text, o) => i \in 1..(LineOf(text, o) + 1)
    BY <1>1, <1>2
  <2> QED
    BY <1>1, <2>1, <2>2, <2>3
<1>4. Cardinality(1..(LineOf(text, o) + 1)) = LineOf(text, o) + 1
  <2>1. PICK n \in Nat : n = LineOf(text, o) + 1
    BY <1>2
  <2>2. Cardinality(1..n) = IF 1 > n THEN 0 ELSE n - 1 + 1
    BY FS_Interval
  <2> QED
    BY <1>2, <2>1, <2>2
<1>5. StartsUpTo(starts, o) = Cardinality(1..(LineOf(text, o) + 1))
  BY <1>3 DEF StartsUpTo
<1>6. LineOf(text, o) \in 0..(Len(starts) - 1)
  BY <1>1, <1>2
<1> QED
  BY <1>4, <1>5, <1>6

-----------------------------------------------------------------------------
(* An edit repairs the index *)

\* One sequence is two others end to end.
Joins(ab, a, b) ==
    /\ Len(ab) = Len(a) + Len(b)
    /\ \A i \in 1..Len(a) : ab[i] = a[i]
    /\ \A i \in 1..Len(b) : ab[Len(a) + i] = b[i]

\* What is where in a concatenation, ...
LEMMA TwoParts ==
    ASSUME NEW S, NEW a \in Seq(S), NEW b \in Seq(S)
    PROVE  a \o b \in Seq(S) /\ Joins(a \o b, a, b)
<1>1. /\ a \o b \in Seq(S) /\ Len(a \o b) = Len(a) + Len(b)
      /\ \A i \in 1..(Len(a) + Len(b)) :
            (a \o b)[i] = IF i <= Len(a) THEN a[i] ELSE b[i - Len(a)]
  BY ConcatProperties
<1>2. PICK ab \in Seq(S) : ab = a \o b
  BY <1>1
<1>3. /\ Len(ab) = Len(a) + Len(b)
      /\ \A i \in 1..(Len(a) + Len(b)) : ab[i] = IF i <= Len(a) THEN a[i] ELSE b[i - Len(a)]
  BY <1>1, <1>2, Zenon
<1>4. Len(a) \in Nat /\ Len(b) \in Nat
  BY LenProperties
<1>5. \A i \in 1..Len(a) : ab[i] = a[i]
  BY <1>3, <1>4
<1>6. ASSUME NEW i \in 1..Len(b) PROVE ab[Len(a) + i] = b[i]
  <2>1. PICK j \in 1..(Len(a) + Len(b)) : j = Len(a) + i /\ ~(j <= Len(a)) /\ j - Len(a) = i
    BY <1>4
  <2> QED
    BY <1>3, <2>1
<1>7. Joins(ab, a, b)
  BY <1>3, <1>5, <1>6 DEF Joins
<1> QED
  BY <1>2, <1>7

\* One sequence is three others end to end.
JoinsThree(whole, a, b, c) ==
    /\ Len(whole) = Len(a) + Len(b) + Len(c)
    /\ \A i \in 1..Len(a) : whole[i] = a[i]
    /\ \A i \in 1..Len(b) : whole[Len(a) + i] = b[i]
    /\ \A i \in 1..Len(c) : whole[Len(a) + Len(b) + i] = c[i]

\* ... in one of three, ...
LEMMA ThreeParts ==
    ASSUME NEW S, NEW a \in Seq(S), NEW b \in Seq(S), NEW c \in Seq(S)
    PROVE  a \o b \o c \in Seq(S) /\ JoinsThree(a \o b \o c, a, b, c)
<1>1. PICK ab \in Seq(S) : ab = a \o b /\ Joins(ab, a, b)
  BY TwoParts
<1>2. PICK whole \in Seq(S) : whole = ab \o c /\ Joins(whole, ab, c)
  BY TwoParts
<1>3. Len(a) \in Nat /\ Len(b) \in Nat /\ Len(c) \in Nat
  BY LenProperties
<1>4. /\ Len(ab) = Len(a) + Len(b)
      /\ \A i \in 1..Len(a) : ab[i] = a[i]
      /\ \A i \in 1..Len(b) : ab[Len(a) + i] = b[i]
  BY <1>1 DEF Joins
<1>5. /\ Len(whole) = Len(a) + Len(b) + Len(c)
      /\ \A i \in 1..(Len(a) + Len(b)) : whole[i] = ab[i]
      /\ \A i \in 1..Len(c) : whole[Len(a) + Len(b) + i] = c[i]
  BY <1>2, <1>4 DEF Joins
<1>6. \A i \in 1..Len(a) : whole[i] = a[i]
  BY <1>3, <1>4, <1>5
<1>7. ASSUME NEW i \in 1..Len(b) PROVE whole[Len(a) + i] = b[i]
  <2>1. PICK j \in 1..(Len(a) + Len(b)) : j = Len(a) + i
    BY <1>3
  <2> QED
    BY <1>4, <1>5, <2>1
<1>8. JoinsThree(whole, a, b, c)
  BY <1>5, <1>6, <1>7 DEF JoinsThree
<1> QED
  BY <1>1, <1>2, <1>8

\* A part of a sequence.
IsPart(part, s, from, to) ==
    Len(part) = to - from /\ \A i \in 1..(to - from) : part[i] = s[from + i]

\* ... and in a part.
LEMMA PartOf ==
    ASSUME NEW S, NEW s \in Seq(S), NEW from \in 0..Len(s), NEW to \in from..Len(s),
           NEW m \in Int, m = from + 1
    PROVE  SubSeq(s, m, to) \in Seq(S) /\ IsPart(SubSeq(s, m, to), s, from, to)
<1>1. Len(s) \in Nat /\ \A i \in 1..Len(s) : s[i] \in S
  BY LenProperties, ElementOfSeq
<1>3. to \in Int /\ (\A i \in m..to : s[i] \in S)
  BY <1>1
<1>4. /\ SubSeq(s, m, to) \in Seq(S)
      /\ Len(SubSeq(s, m, to)) = IF m <= to THEN to - m + 1 ELSE 0
      /\ \A i \in 1..(to - m + 1) : SubSeq(s, m, to)[i] = s[m + i - 1]
  BY <1>3, SubSeqProperties
<1>5. PICK part \in Seq(S) : part = SubSeq(s, m, to)
  BY <1>4
<1>6. /\ Len(part) = IF m <= to THEN to - m + 1 ELSE 0
      /\ \A i \in 1..(to - m + 1) : part[i] = s[m + i - 1]
  BY <1>4, <1>5, Zenon
<1>7. Len(part) = to - from
  BY <1>1, <1>6
<1>8. ASSUME NEW i \in 1..(to - from) PROVE part[i] = s[from + i]
  <2>1. i \in 1..(to - m + 1) /\ m + i - 1 = from + i
    BY <1>1
  <2> QED
    BY <1>6, <2>1
<1>9. IsPart(part, s, from, to)
  BY <1>7, <1>8 DEF IsPart
<1> QED
  BY <1>5, <1>9

\* What an edit makes of a text.
Edited(text, start, end, inserted) ==
    SubSeq(text, 1, start) \o inserted \o SubSeq(text, end + 1, Len(text))

IsEdited(new, text, start, end, inserted) ==
    /\ Len(new) = start + Len(inserted) + (Len(text) - end)
    /\ \A i \in 1..start : new[i] = text[i]
    /\ \A i \in 1..Len(inserted) : new[start + i] = inserted[i]
    /\ \A i \in 1..(Len(text) - end) : new[start + Len(inserted) + i] = text[end + i]

\* An edit is text, and where each of its bytes comes from.
LEMMA EditedText ==
    ASSUME NEW text \in Seq(Bytes), NEW inserted \in Seq(Bytes),
           NEW start \in 0..Len(text), NEW end \in start..Len(text)
    PROVE  /\ Edited(text, start, end, inserted) \in Seq(Bytes)
           /\ IsEdited(Edited(text, start, end, inserted), text, start, end, inserted)
<1>1. /\ Len(text) \in Nat /\ Len(inserted) \in Nat /\ end \in 0..Len(text)
      /\ 0 \in 0..Len(text) /\ start \in 0..Len(text) /\ Len(text) \in end..Len(text)
  BY LenProperties
<1>2. PICK a \in Seq(Bytes) : a = SubSeq(text, 1, start) /\ IsPart(a, text, 0, start)
  <2>1. 1 \in Int /\ 1 = 0 + 1
    OBVIOUS
  <2> QED
    BY <1>1, <2>1, PartOf
<1>3. PICK c \in Seq(Bytes) : c = SubSeq(text, end + 1, Len(text)) /\ IsPart(c, text, end, Len(text))
  <2>1. PICK m \in Int : m = end + 1
    BY <1>1
  <2>2. SubSeq(text, m, Len(text)) \in Seq(Bytes) /\ IsPart(SubSeq(text, m, Len(text)), text, end, Len(text))
    BY <1>1, <2>1, PartOf
  <2> QED
    BY <2>1, <2>2
<1>4. /\ Len(a) = start /\ \A i \in 1..start : a[i] = text[i]
      /\ Len(c) = Len(text) - end /\ \A i \in 1..(Len(text) - end) : c[i] = text[end + i]
  BY <1>1, <1>2, <1>3 DEF IsPart
<1>5. PICK new \in Seq(Bytes) : new = a \o inserted \o c /\ JoinsThree(new, a, inserted, c)
  BY ThreeParts
<1>6. new = Edited(text, start, end, inserted)
  BY <1>2, <1>3, <1>5 DEF Edited
<1>7. IsEdited(new, text, start, end, inserted)
  BY <1>1, <1>4, <1>5 DEF IsEdited, JoinsThree
<1> QED
  BY <1>6, <1>7

\* The lines of an edited text: those before, those of what is inserted, those behind.
LinesOfEdit(new, text, start, end, inserted) ==
    /\ \A o \in 0..start : LineOf(new, o) = LineOf(text, o)
    /\ \A o \in 0..Len(inserted) :
          LineOf(new, start + o) = LineOf(text, start) + LineOf(inserted, o)
    /\ \A o \in 0..(Len(text) - end) :
          LineOf(new, start + Len(inserted) + o)
            = LineOf(text, start) + LineOf(inserted, Len(inserted))
                + (LineOf(text, end + o) - LineOf(text, end))

\* The line of an offset before, inside and behind what was inserted.
LEMMA EditedLines ==
    ASSUME NEW text \in Seq(Bytes), NEW inserted \in Seq(Bytes), NEW new \in Seq(Bytes),
           NEW start \in 0..Len(text), NEW end \in start..Len(text),
           IsEdited(new, text, start, end, inserted)
    PROVE  LinesOfEdit(new, text, start, end, inserted)
<1> DEFINE n == Len(inserted)
<1>1. Len(text) \in Nat /\ n \in Nat /\ start \in Nat /\ end \in Nat /\ start <= end
  BY LenProperties
<1>2. /\ \A i \in 1..start : new[i] = text[i]
      /\ \A i \in 1..n : new[start + i] = inserted[i]
      /\ \A i \in 1..(Len(text) - end) : new[start + n + i] = text[end + i]
  BY DEF IsEdited
<1> HIDE DEF n
<1>3. LineOf(new, 0) = 0 /\ LineOf(text, 0) = 0 /\ LineOf(inserted, 0) = 0
  BY LineOfFacts
<1>4. ASSUME NEW o \in 0..start PROVE LineOf(new, o) = LineOf(text, o)
  <2>1. o \in Nat /\ 0 \in Nat /\ SameStretch(text, 0, o, new, 0, o)
    BY <1>1, <1>2 DEF SameStretch
  <2>2. LineOf(new, o) - LineOf(new, 0) = LineOf(text, o) - LineOf(text, 0)
    BY <2>1, LineOfShift
  <2>3. LineOf(new, o) \in Nat /\ LineOf(text, o) \in Nat
    BY <2>1, LineOfFacts
  <2> QED
    BY <1>3, <2>2, <2>3
<1>5. ASSUME NEW o \in 0..n
      PROVE  LineOf(new, start + o) = LineOf(text, start) + LineOf(inserted, o)
  <2>1. PICK e \in Nat : e = start + o
    BY <1>1
  <2>2. o \in Nat /\ 0 \in Nat /\ SameStretch(inserted, 0, o, new, start, e)
    <3>1. ASSUME NEW i \in (0 + 1)..o PROVE inserted[i] = new[i + (start - 0)]
      <4>1. i \in 1..n /\ i + (start - 0) = start + i
        BY <1>1
      <4> QED
        BY <1>2, <4>1
    <3> QED
      BY <1>1, <2>1, <3>1 DEF SameStretch
  <2>3. LineOf(new, e) - LineOf(new, start) = LineOf(inserted, o) - LineOf(inserted, 0)
    BY <1>1, <2>2, LineOfShift
  <2>4. LineOf(new, start) = LineOf(text, start)
    BY <1>1, <1>4
  <2>5. /\ LineOf(new, e) \in Nat /\ LineOf(new, start) \in Nat /\ LineOf(inserted, o) \in Nat
    BY <1>1, <2>1, <2>2, LineOfFacts
  <2> QED
    BY <1>3, <2>1, <2>3, <2>4, <2>5
<1>6. ASSUME NEW o \in 0..(Len(text) - end)
      PROVE  LineOf(new, start + n + o) = LineOf(text, start) + LineOf(inserted, n)
                                            + (LineOf(text, end + o) - LineOf(text, end))
  <2>1. PICK b \in Nat, c \in Nat, e \in Nat :
            b = end + o /\ c = start + n /\ e = start + n + o
    BY <1>1
  <2>2. SameStretch(text, end, b, new, c, e)
    <3>1. ASSUME NEW i \in (end + 1)..b PROVE text[i] = new[i + (c - end)]
      <4>1. PICK j \in 1..(Len(text) - end) : i = end + j /\ i + (c - end) = start + n + j
        <5>1. /\ i - end \in 1..(Len(text) - end) /\ i = end + (i - end)
              /\ i + (c - end) = start + n + (i - end)
          BY <1>1, <2>1
        <5> QED
          BY <5>1
      <4> QED
        BY <1>2, <4>1
    <3> QED
      BY <1>1, <2>1, <3>1 DEF SameStretch
  <2>3. LineOf(new, e) - LineOf(new, c) = LineOf(text, b) - LineOf(text, end)
    BY <1>1, <2>2, LineOfShift
  <2>4. LineOf(new, c) = LineOf(text, start) + LineOf(inserted, n)
    BY <1>1, <1>5, <2>1
  <2>5. /\ LineOf(new, e) \in Nat /\ LineOf(text, start) \in Nat /\ LineOf(inserted, n) \in Nat
        /\ LineOf(text, b) \in Nat /\ LineOf(text, end) \in Nat
    BY <1>1, LineOfFacts
  <2>6. LineOf(new, start + n + o) = LineOf(new, e) /\ LineOf(text, end + o) = LineOf(text, b)
    BY <2>1
  <2> QED
    BY <2>3, <2>4, <2>5, <2>6
<1> QED
  BY <1>4, <1>5, <1>6 DEF LinesOfEdit, n

\* What is left of the index, what is inserted into it, and what slides behind.
SplicedStarts(starts, start, inserted, kept, gone, by) ==
    SubSeq(starts, 1, kept)
      \o [i \in DOMAIN LineFeeds(inserted) |-> start + LineFeeds(inserted)[i]]
      \o [i \in 1 .. Len(starts) - gone |-> starts[gone + i] + by]

\* A function on 1..n is a sequence.
LEMMA SequenceOfNumbers ==
    ASSUME NEW n \in Nat, NEW f, DOMAIN f = 1..n, f = [i \in 1..n |-> f[i]],
           \A i \in 1..n : f[i] \in Nat
    PROVE  f \in Seq(Nat) /\ Len(f) = n
<1>1. f \in [1..n -> Nat]
  OBVIOUS
<1>2. f \in Seq(Nat)
  BY <1>1, SeqDef
<1> QED
  BY <1>2, LenProperties

IsSplice(index, starts, start, inserted, kept, gone, by, m, rest) ==
    /\ Len(index) = kept + m + rest
    /\ \A k \in 1..kept : index[k] = starts[k]
    /\ \A k \in 1..m : index[kept + k] = start + LineFeeds(inserted)[k]
    /\ \A k \in 1..rest : index[kept + m + k] = starts[gone + k] + by

\* Where each line start comes from after splice has repaired the index.
LEMMA SplicedStartsFacts ==
    ASSUME NEW starts \in Seq(Nat), NEW kept \in 0..Len(starts), NEW gone \in 0..Len(starts),
           NEW inserted \in Seq(Bytes), NEW start \in Nat, NEW by \in Int,
           NEW m \in Nat, m = LineOf(inserted, Len(inserted)),
           NEW rest \in Nat, rest = Len(starts) - gone,
           \A i \in 1..rest : starts[gone + i] + by \in Nat,
           NEW index, index = SplicedStarts(starts, start, inserted, kept, gone, by)
    PROVE  /\ index \in Seq(Nat)
           /\ IsSplice(index, starts, start, inserted, kept, gone, by, m, rest)
<1>1. PICK a \in Seq(Nat) : /\ a = SubSeq(starts, 1, kept) /\ Len(a) = kept
                            /\ \A k \in 1..kept : a[k] = starts[k]
  <2>1. 1 \in Int /\ 1 = 0 + 1 /\ 0 \in 0..Len(starts) /\ kept \in 0..Len(starts)
    BY LenProperties
  <2>2. SubSeq(starts, 1, kept) \in Seq(Nat) /\ IsPart(SubSeq(starts, 1, kept), starts, 0, kept)
    BY <2>1, PartOf
  <2>3. PICK a \in Seq(Nat) : a = SubSeq(starts, 1, kept) /\ IsPart(a, starts, 0, kept)
    BY <2>2
  <2>4. kept - 0 = kept /\ \A i \in 1..kept : 0 + i = i
    BY LenProperties
  <2> QED
    BY <2>3, <2>4 DEF IsPart
<1>2. PICK b \in Seq(Nat) :
         /\ b = [i \in DOMAIN LineFeeds(inserted) |-> start + LineFeeds(inserted)[i]]
         /\ Len(b) = m /\ \A k \in 1..m : b[k] = start + LineFeeds(inserted)[k]
  <2>1. /\ DOMAIN LineFeeds(inserted) = 1..m
        /\ \A k \in 1..m : LineFeeds(inserted)[k] \in 1..Len(inserted)
    BY LineFeedsFacts
  <2>2. \A k \in 1..m : start + LineFeeds(inserted)[k] \in Nat
    BY <2>1, LenProperties
  <2>3. PICK b : b = [i \in 1..m |-> start + LineFeeds(inserted)[i]]
    OBVIOUS
  <2>4. DOMAIN b = 1..m /\ b = [i \in 1..m |-> b[i]] /\ \A i \in 1..m : b[i] \in Nat
    BY <2>2, <2>3
  <2>5. b \in Seq(Nat) /\ Len(b) = m
    BY <2>4, SequenceOfNumbers
  <2> QED
    BY <2>1, <2>3, <2>5
<1>3. PICK c \in Seq(Nat) :
         /\ c = [i \in 1 .. Len(starts) - gone |-> starts[gone + i] + by]
         /\ Len(c) = rest /\ \A k \in 1..rest : c[k] = starts[gone + k] + by
  <2>3. PICK c : c = [i \in 1..rest |-> starts[gone + i] + by]
    OBVIOUS
  <2>4. DOMAIN c = 1..rest /\ c = [i \in 1..rest |-> c[i]] /\ \A i \in 1..rest : c[i] \in Nat
    BY <2>3
  <2>5. c \in Seq(Nat) /\ Len(c) = rest
    BY <2>4, SequenceOfNumbers
  <2> QED
    BY <2>3, <2>5
<1>4. /\ a \o b \o c \in Seq(Nat) /\ JoinsThree(a \o b \o c, a, b, c)
  BY ThreeParts
<1>5. index = a \o b \o c
  BY <1>1, <1>2, <1>3 DEF SplicedStarts
<1>6. index \in Seq(Nat) /\ JoinsThree(index, a, b, c)
  BY <1>4, <1>5
<1> QED
  BY <1>1, <1>2, <1>3, <1>6 DEF JoinsThree, IsSplice

\* Every start that slides is behind the edit.
Slides(text, starts, end, k) ==
    \E o \in 1..(Len(text) - end) :
        starts[k] = end + o /\ text[end + o] = "LF" /\ LineOf(text, end + o) = k - 1

\* A line start behind the edit is behind a line feed which the edit leaves.
LEMMA SlidingStarts ==
    ASSUME NEW text \in Seq(Bytes), NEW starts, IsIndexOf(starts, text),
           NEW end \in 0..Len(text), NEW k \in Nat, LineOf(text, end) + 1 < k, k <= Len(starts)
    PROVE  Slides(text, starts, end, k)
<1>1. Len(text) \in Nat /\ Len(starts) \in Nat /\ LineOf(text, end) \in Nat
  BY IndexOrder, LineOfFacts
<1>2. k \in 2..Len(starts) /\ k \in 1..Len(starts) /\ ~(k - 1 <= LineOf(text, end))
  BY <1>1
<1>3. starts[k] \in 1..Len(text) /\ text[starts[k]] = "LF" /\ LineOf(text, starts[k]) = k - 1
  BY <1>2 DEF IsIndexOf
<1>4. ~(starts[k] <= end)
  BY <1>2, IndexOrder
<1>5. starts[k] - end \in 1..(Len(text) - end) /\ starts[k] = end + (starts[k] - end)
  BY <1>1, <1>3, <1>4
<1> QED
  BY <1>3, <1>5 DEF Slides

\* The index that splice repairs is an index of what it makes of the text.
LEMMA SplicedIndex ==
    ASSUME NEW text \in Seq(Bytes), NEW starts, IsIndexOf(starts, text),
           NEW inserted \in Seq(Bytes), NEW new \in Seq(Bytes),
           NEW start \in 0..Len(text), NEW end \in start..Len(text),
           IsEdited(new, text, start, end, inserted)
    PROVE  IsIndexOf(SplicedStarts(starts, start, inserted,
                        StartsUpTo(starts, start), StartsUpTo(starts, end),
                        Len(inserted) - (end - start)), new)
<1>0. PICK n \in Nat, m \in Nat, by \in Int :
          n = Len(inserted) /\ m = LineOf(inserted, n) /\ by = n - (end - start)
  <2>1. Len(inserted) \in Nat /\ Len(text) \in Nat
    BY LenProperties
  <2>2. LineOf(inserted, Len(inserted)) \in Nat /\ Len(inserted) - (end - start) \in Int
    BY <2>1, LineOfFacts
  <2> QED
    BY <2>1, <2>2
<1>1. PICK len \in Nat, size \in Nat \ {0}, ls \in Nat, le \in Nat, lt \in Nat :
        /\ len = Len(text) /\ size = Len(starts)
        /\ ls = LineOf(text, start) /\ le = LineOf(text, end) /\ lt = LineOf(text, len)
        /\ size = lt + 1 /\ ls <= lt /\ le <= lt /\ start <= len /\ end <= len
  <2>1. /\ Len(text) \in Nat /\ Len(starts) \in Nat \ {0}
        /\ Len(starts) = LineOf(text, Len(text)) + 1
    BY IndexOrder DEF IsIndexOf
  <2>2. start \in Nat /\ end \in Nat /\ start <= Len(text) /\ end <= Len(text)
    BY <2>1
  <2>3. /\ LineOf(text, start) \in Nat /\ LineOf(text, end) \in Nat
        /\ LineOf(text, Len(text)) \in Nat
        /\ LineOf(text, start) <= LineOf(text, Len(text))
        /\ LineOf(text, end) <= LineOf(text, Len(text))
    BY <2>1, <2>2, LineOfFacts
  <2> QED
    BY <2>1, <2>2, <2>3
<1>2. PICK kept \in Nat, gone \in Nat, rest \in Nat :
          /\ kept = StartsUpTo(starts, start) /\ kept = ls + 1 /\ kept <= size
          /\ gone = StartsUpTo(starts, end) /\ gone = le + 1 /\ rest = size - gone
  <2>1. end \in 0..Len(text)
    BY <1>1
  <2>2. StartsUpTo(starts, start) = ls + 1 /\ StartsUpTo(starts, end) = le + 1
    BY <1>1, <2>1, StartsUpToLine
  <2>3. ls + 1 \in Nat /\ le + 1 \in Nat /\ ls + 1 <= size /\ size - (le + 1) \in Nat
    BY <1>1
  <2> QED
    BY <2>2, <2>3
<1>20. /\ size = lt + 1 /\ ls <= lt /\ le <= lt /\ start <= len /\ end <= len
       /\ kept = ls + 1 /\ kept <= size /\ gone = le + 1 /\ rest = size - gone
  BY <1>1, <1>2
<1>3. /\ Len(new) = start + n + (len - end)
      /\ \A i \in 1..start : new[i] = text[i]
      /\ \A i \in 1..n : new[start + i] = inserted[i]
      /\ \A i \in 1..(len - end) : new[start + n + i] = text[end + i]
  BY <1>0, <1>1, Zenon DEF IsEdited
<1>4. /\ \A o \in 0..start : LineOf(new, o) = LineOf(text, o)
      /\ \A o \in 0..n : LineOf(new, start + o) = ls + LineOf(inserted, o)
      /\ \A o \in 0..(len - end) :
            LineOf(new, start + n + o) = ls + m + (LineOf(text, end + o) - le)
  <2>1. LinesOfEdit(new, text, start, end, inserted)
    BY EditedLines
  <2> QED
    BY <1>0, <1>1, <2>1, Zenon DEF LinesOfEdit
<1>5. ASSUME NEW i \in 1..rest
      PROVE  \E o \in 1..(len - end) :
                /\ starts[gone + i] + by = start + n + o /\ text[end + o] = "LF"
                /\ LineOf(text, end + o) = le + i
  <2>1. PICK k \in Nat : k = gone + i
    OBVIOUS
  <2>0. le + 1 < k /\ k <= size /\ k - 1 = le + i
    BY <1>2, <2>1
  <2>2. end \in 0..Len(text) /\ LineOf(text, end) + 1 < k /\ k <= Len(starts)
    BY <1>1, <2>0
  <2>3. PICK o \in 1..(Len(text) - end) :
          starts[k] = end + o /\ text[end + o] = "LF" /\ LineOf(text, end + o) = k - 1
    <3>1. Slides(text, starts, end, k)
      BY <2>2, SlidingStarts
    <3> QED
      BY <3>1 DEF Slides
  <2>4. end + o + by = start + n + o
    BY <1>0, <1>1
  <2> QED
    BY <1>1, <2>0, <2>1, <2>3, <2>4
<1>6. PICK index : index = SplicedStarts(starts, start, inserted, kept, gone, by)
  OBVIOUS
<1>7. /\ index \in Seq(Nat) /\ Len(index) = kept + m + rest
      /\ \A k \in 1..kept : index[k] = starts[k]
      /\ \A k \in 1..m : index[kept + k] = start + LineFeeds(inserted)[k]
      /\ \A k \in 1..rest : index[kept + m + k] = starts[gone + k] + by
  <2>1. starts \in Seq(Nat)
    BY DEF IsIndexOf
  <2>2. kept \in 0..Len(starts) /\ gone \in 0..Len(starts) /\ rest = Len(starts) - gone
    BY <1>1, <1>2
  <2>3. \A i \in 1..rest : starts[gone + i] + by \in Nat
    <3>1. ASSUME NEW i \in 1..rest PROVE starts[gone + i] + by \in Nat
      <4>1. PICK o \in 1..(len - end) : starts[gone + i] + by = start + n + o
        BY <1>5
      <4>2. start + n + o \in Nat
        BY <1>1
      <4> QED
        BY <4>1, <4>2
    <3> QED
      BY <3>1
  <2>4. m = LineOf(inserted, Len(inserted)) /\ start \in Nat
    BY <1>0, <1>1
  <2>5. /\ index \in Seq(Nat)
        /\ IsSplice(index, starts, start, inserted, kept, gone, by, m, rest)
    BY <1>6, <2>1, <2>2, <2>3, <2>4, SplicedStartsFacts
  <2> QED
    BY <2>5 DEF IsSplice
<1>8. Len(index) = LineOf(new, Len(new)) + 1
  <2>1. len - end \in 0..(len - end) /\ end + (len - end) = len
    BY <1>1
  <2>2. LineOf(new, Len(new)) = ls + m + (lt - le)
    BY <1>1, <1>3, <1>4, <2>1
  <2>3. kept + m + rest = ls + m + (lt - le) + 1
    BY <1>20
  <2> QED
    BY <1>7, <2>2, <2>3
<1>9. index[1] = 0
  <2>1. 1 \in 1..kept
    BY <1>2
  <2> QED
    BY <1>7, <2>1 DEF IsIndexOf
<1>10. ASSUME NEW k \in Nat, 2 <= k, k <= kept + m + rest
       PROVE  index[k] \in 1..Len(new) /\ new[index[k]] = "LF" /\ LineOf(new, index[k]) = k - 1
  <2>1. CASE k <= kept
    <3>0. k <= size /\ k - 1 <= ls
      BY <1>20, <2>1
    <3>1. k \in 2..Len(starts) /\ k \in 1..Len(starts) /\ k \in 1..kept /\ k - 1 <= ls
      BY <1>1, <1>10, <2>1, <3>0
    <3>2. index[k] = starts[k]
      BY <1>7, <3>1
    <3>3. starts[k] \in 1..Len(text) /\ text[starts[k]] = "LF" /\ LineOf(text, starts[k]) = k - 1
      BY <3>1 DEF IsIndexOf
    <3>4. starts[k] <= start
      BY <1>1, <3>1, IndexOrder
    <3>5. PICK j \in 1..start : j = starts[k]
      BY <1>1, <3>3, <3>4
    <3>6. j \in 0..start /\ j \in 1..Len(new)
      BY <1>1, <1>3
    <3> QED
      BY <1>3, <1>4, <3>2, <3>3, <3>5, <3>6
  <2>2. CASE kept < k /\ k <= kept + m
    <3>1. PICK i \in 1..m : k = kept + i
      <4>1. k - kept \in 1..m /\ k = kept + (k - kept)
        BY <2>2
      <4> QED
        BY <4>1
    <3>2. PICK j \in 1..n : /\ j = LineFeeds(inserted)[i] /\ inserted[j] = "LF"
                            /\ LineOf(inserted, j) = i
      BY <1>0, LineFeedsFacts
    <3>3. index[k] = start + j
      BY <1>7, <3>1, <3>2
    <3>4. j \in 0..n /\ start + j \in 1..Len(new)
      BY <1>1, <1>3
    <3>5. new[start + j] = "LF" /\ LineOf(new, start + j) = ls + i
      BY <1>3, <1>4, <3>2, <3>4
    <3>6. ls + i = k - 1
      BY <1>2, <3>1
    <3> QED
      BY <3>3, <3>4, <3>5, <3>6
  <2>3. CASE kept + m < k
    <3>1. PICK i \in 1..rest : k = kept + m + i
      <4>1. k - (kept + m) \in 1..rest /\ k = kept + m + (k - (kept + m))
        BY <1>10, <2>3
      <4> QED
        BY <4>1
    <3>2. PICK o \in 1..(len - end) :
             /\ starts[gone + i] + by = start + n + o
             /\ text[end + o] = "LF" /\ LineOf(text, end + o) = le + i
      BY <1>5
    <3>3. index[k] = start + n + o
      BY <1>7, <3>1, <3>2
    <3>4. o \in 0..(len - end) /\ start + n + o \in 1..Len(new)
      BY <1>1, <1>3
    <3>5. new[start + n + o] = "LF" /\ LineOf(new, start + n + o) = ls + m + ((le + i) - le)
      BY <1>3, <1>4, <3>2, <3>4
    <3>6. ls + m + ((le + i) - le) = k - 1
      BY <1>2, <3>1
    <3> QED
      BY <3>3, <3>4, <3>5, <3>6
  <2> QED
    BY <1>2, <2>1, <2>2, <2>3
<1>11. ASSUME NEW k \in 2..Len(index) PROVE k \in Nat /\ 2 <= k /\ k <= kept + m + rest
  BY <1>7
<1>12. IsIndexOf(index, new)
  BY <1>7, <1>8, <1>9, <1>10, <1>11 DEF IsIndexOf
<1> QED
  BY <1>0, <1>2, <1>6, <1>12

\* So it is what a full rebuild would give.
LEMMA SpliceIsRebuild ==
    ASSUME NEW d, d.text \in Seq(Bytes), d.line_starts = compute_line_starts(d.text),
           NEW inserted \in Seq(Bytes), NEW start \in 0..Len(d.text), NEW end \in start..Len(d.text)
    PROVE  splice(d, start, end, inserted) = NewDocument(Edited(d.text, start, end, inserted))
<1>1. PICK text \in Seq(Bytes) : text = d.text
  OBVIOUS
<1>2. PICK starts : starts = d.line_starts /\ IsIndexOf(starts, text)
  BY <1>1, ComputedIndex
<1>3. PICK new \in Seq(Bytes) : /\ new = Edited(text, start, end, inserted)
                                /\ IsEdited(new, text, start, end, inserted)
  <2>1. start \in 0..Len(text) /\ end \in start..Len(text)
    BY <1>1
  <2> QED
    BY <2>1, EditedText
<1>4. PICK index : /\ index = SplicedStarts(starts, start, inserted, StartsUpTo(starts, start),
                                 StartsUpTo(starts, end), Len(inserted) - (end - start))
                   /\ IsIndexOf(index, new)
  <2>1. start \in 0..Len(text) /\ end \in start..Len(text)
    BY <1>1
  <2> QED
    BY <1>2, <1>3, <2>1, SplicedIndex
<1>5. index = compute_line_starts(new)
  BY <1>4, ComputedIndex, IndexIsUnique
<1>6. splice(d, start, end, inserted) = [text |-> new, line_starts |-> index]
  BY <1>1, <1>2, <1>3, <1>4, Zenon DEF splice, Spliced, SplicedStarts, Edited
<1> QED
  BY <1>1, <1>3, <1>5, <1>6, Zenon DEF NewDocument

-----------------------------------------------------------------------------
(* Characters *)

\* The character at i ends at next.
EndsAt(text, i, next) ==
    /\ next <= Len(text)
    /\ \A k \in i + 1 .. next : text[k] = "c"
    /\ IsCharBoundary(text, next)

\* The characters that begin in a stretch.
Characters(text, from, to) ==
    \A i \in from + 1 .. to : text[i] # "c" => EndsAt(text, i, i + Follow(text[i]))

\* Follow is a number for every byte.
LEMMA FollowIsNumber ==
    \A byte : Follow(byte) \in Nat
BY DEF Follow

\* Text is characters from its first byte to its last.
LEMMA WellFormedIsCharacters ==
    ASSUME NEW text \in Seq(Bytes)
    PROVE  WellFormed(text) <=> IsCharBoundary(text, 0) /\ Characters(text, 0, Len(text))
<1>1. DOMAIN text = 0 + 1 .. Len(text)
  BY LenProperties
<1> QED
  BY <1>1, Zenon DEF WellFormed, Characters, EndsAt

\* A character that begins before a boundary ends before it.
LEMMA CharacterEnds ==
    ASSUME NEW text \in Seq(Bytes), NEW o \in 0..Len(text), IsCharBoundary(text, o),
           NEW i \in 1..o, NEW next \in Nat, EndsAt(text, i, next)
    PROVE  next <= o
<1>1. Len(text) \in Nat /\ o \in Nat /\ o <= Len(text) /\ i \in Nat
  BY LenProperties
<1>2. SUFFICES ASSUME o < next PROVE FALSE
  BY <1>1
<1>3. next <= Len(text) /\ \A k \in i + 1 .. next : text[k] = "c"
  BY DEF EndsAt
<1>4. o + 1 \in i + 1 .. next /\ o # Len(text)
  BY <1>1, <1>2, <1>3
<1> QED
  BY <1>3, <1>4 DEF IsCharBoundary

\* A stretch between boundaries keeps its characters wherever it goes.
LEMMA CharactersShift ==
    ASSUME NEW s \in Seq(Bytes), NEW t \in Seq(Bytes),
           NEW a \in Nat, NEW b \in Nat, NEW c \in Nat, NEW e \in Nat,
           SameStretch(s, a, b, t, c, e), b <= Len(s), e <= Len(t),
           IsCharBoundary(s, b), IsCharBoundary(t, e), Characters(s, 0, Len(s))
    PROVE  Characters(t, c, e)
<1>1. /\ Len(s) \in Nat /\ Len(t) \in Nat /\ a <= b /\ e - c = b - a
      /\ \A i \in (a + 1)..b : s[i] = t[i + (c - a)]
  BY LenProperties DEF SameStretch
<1>2. ASSUME NEW j \in c + 1 .. e, t[j] # "c"
      PROVE  EndsAt(t, j, j + Follow(t[j]))
  <2>1. PICK i \in (a + 1)..b : j = i + (c - a)
    <3>1. j - (c - a) \in (a + 1)..b /\ j = (j - (c - a)) + (c - a)
      BY <1>1
    <3> QED
      BY <3>1
  <2>2. s[i] = t[j] /\ s[i] # "c" /\ i \in Nat /\ j \in Nat
    BY <1>1, <1>2, <2>1
  <2>3. PICK f \in Nat : f = Follow(t[j])
    BY FollowIsNumber
  <2>4. PICK next \in Nat : next = i + f
    BY <2>2
  <2>5. i \in 0 + 1 .. Len(s)
    BY <1>1, <2>1
  <2>6. EndsAt(s, i, next)
    BY <2>2, <2>3, <2>4, <2>5 DEF Characters
  <2>7. next <= b
    <3>1. b \in 0..Len(s) /\ i \in 1..b
      BY <1>1, <2>1
    <3> QED
      BY <2>6, <3>1, CharacterEnds
  <2>8. PICK end \in Nat : end = j + f /\ end <= e /\ end = next + (c - a)
    BY <1>1, <2>1, <2>2, <2>4, <2>7
  <2>9. ASSUME NEW k \in j + 1 .. end PROVE t[k] = "c"
    <3>1. PICK h \in (a + 1)..b : k = h + (c - a) /\ h \in i + 1 .. next
      <4>1. /\ k - (c - a) \in (a + 1)..b /\ k = (k - (c - a)) + (c - a)
            /\ k - (c - a) \in i + 1 .. next
        BY <1>1, <2>1, <2>7, <2>8
      <4> QED
        BY <4>1
    <3> QED
      BY <1>1, <2>6, <3>1 DEF EndsAt
  <2>10. IsCharBoundary(t, end)
    <3>1. CASE end = e
      BY <3>1
    <3>2. CASE end # e
      <4>1. PICK h \in (a + 1)..b : h = next + 1 /\ h + (c - a) = end + 1
        BY <1>1, <2>1, <2>2, <2>4, <2>7, <2>8, <3>2
      <4>2. next # Len(s) /\ IsCharBoundary(s, next)
        BY <1>1, <2>6, <4>1 DEF EndsAt
      <4>3. s[h] # "c"
        BY <4>1, <4>2 DEF IsCharBoundary
      <4>4. t[end + 1] # "c"
        BY <1>1, <4>1, <4>3
      <4> QED
        BY <4>4 DEF IsCharBoundary
    <3> QED
      BY <3>1, <3>2
  <2>11. end <= Len(t)
    BY <1>1, <2>8
  <2>12. EndsAt(t, j, end)
    BY <2>9, <2>10, <2>11 DEF EndsAt
  <2> QED
    BY <2>3, <2>8, <2>12
<1> QED
  BY <1>2 DEF Characters

\* An edit between characters leaves characters.
LEMMA EditedIsWellFormed ==
    ASSUME NEW text \in Seq(Bytes), WellFormed(text),
           NEW inserted \in Seq(Bytes), WellFormed(inserted), NEW new \in Seq(Bytes),
           NEW start \in 0..Len(text), NEW end \in start..Len(text),
           IsCharBoundary(text, start), IsCharBoundary(text, end),
           IsEdited(new, text, start, end, inserted)
    PROVE  WellFormed(new)
<1>1. PICK len \in Nat, n \in Nat, mid \in Nat, all \in Nat :
         /\ len = Len(text) /\ n = Len(inserted) /\ mid = start + n /\ all = Len(new)
         /\ start \in Nat /\ end \in Nat /\ start <= end /\ end <= len
  <2>1. Len(text) \in Nat /\ Len(inserted) \in Nat /\ Len(new) \in Nat
    BY LenProperties
  <2>2. /\ start \in Nat /\ end \in Nat /\ start <= end /\ end <= Len(text)
        /\ start + Len(inserted) \in Nat
    BY <2>1
  <2> QED
    BY <2>1, <2>2
<1>2. /\ all = mid + (len - end)
      /\ \A i \in 1..start : new[i] = text[i]
      /\ \A i \in 1..n : new[start + i] = inserted[i]
      /\ \A i \in 1..(len - end) : new[mid + i] = text[end + i]
  BY <1>1 DEF IsEdited
<1>3. /\ IsCharBoundary(text, 0) /\ Characters(text, 0, len)
      /\ IsCharBoundary(inserted, 0) /\ Characters(inserted, 0, n)
  BY <1>1, WellFormedIsCharacters
<1>4. mid <= all /\ start <= mid
  BY <1>1, <1>2
\* what is cut stays a boundary
<1>5. IsCharBoundary(new, mid)
  <2>1. CASE end = len
    <3>1. mid = all
      BY <1>1, <1>2, <2>1
    <3> QED
      BY <1>1, <3>1 DEF IsCharBoundary
  <2>2. CASE end # len
    <3>1. 1 \in 1..(len - end)
      BY <1>1, <2>2
    <3>2. text[end + 1] # "c"
      BY <1>1, <2>2 DEF IsCharBoundary
    <3>3. new[mid + 1] # "c"
      BY <1>2, <3>1, <3>2
    <3> QED
      BY <3>3 DEF IsCharBoundary
  <2> QED
    BY <2>1, <2>2
<1>6. IsCharBoundary(new, start)
  <2>1. CASE n = 0
    <3>1. start = mid
      BY <1>1, <2>1
    <3> QED
      BY <1>5, <3>1
  <2>2. CASE n # 0
    <3>1. 1 \in 1..n /\ 0 # n /\ 0 + 1 = 1
      BY <2>2
    <3>2. inserted[1] # "c"
      BY <1>1, <1>3, <3>1 DEF IsCharBoundary
    <3>3. new[start + 1] # "c"
      BY <1>2, <3>1, <3>2
    <3> QED
      BY <3>3 DEF IsCharBoundary
  <2> QED
    BY <2>1, <2>2
<1>7. IsCharBoundary(new, 0)
  <2>1. CASE start = 0
    BY <1>6, <2>1
  <2>2. CASE start # 0
    <3>1. 1 \in 1..start /\ 0 # len /\ 0 + 1 = 1
      BY <1>1, <2>2
    <3>2. text[1] # "c"
      BY <1>1, <1>3, <3>1 DEF IsCharBoundary
    <3>3. new[0 + 1] # "c"
      BY <1>2, <3>1, <3>2
    <3> QED
      BY <3>3 DEF IsCharBoundary
  <2> QED
    BY <2>1, <2>2
\* the three stretches
<1>8. Characters(new, 0, start)
  <2>1. SameStretch(text, 0, start, new, 0, start)
    BY <1>1, <1>2 DEF SameStretch
  <2>2. start <= Len(text) /\ start <= Len(new) /\ 0 \in Nat
    BY <1>1, <1>4
  <2> QED
    BY <1>1, <1>3, <1>6, <2>1, <2>2, CharactersShift
<1>9. Characters(new, start, mid)
  <2>1. SameStretch(inserted, 0, n, new, start, mid)
    <3>1. ASSUME NEW i \in (0 + 1)..n PROVE inserted[i] = new[i + (start - 0)]
      <4>1. i \in 1..n /\ i + (start - 0) = start + i
        BY <1>1
      <4> QED
        BY <1>2, <4>1
    <3> QED
      BY <1>1, <3>1 DEF SameStretch
  <2>2. n <= Len(inserted) /\ mid <= Len(new) /\ 0 \in Nat /\ IsCharBoundary(inserted, n)
    BY <1>1, <1>4 DEF IsCharBoundary
  <2> QED
    BY <1>1, <1>3, <1>5, <2>1, <2>2, CharactersShift
<1>10. Characters(new, mid, all)
  <2>1. SameStretch(text, end, len, new, mid, all)
    <3>1. ASSUME NEW i \in (end + 1)..len PROVE text[i] = new[i + (mid - end)]
      <4>1. PICK j \in 1..(len - end) : i = end + j /\ i + (mid - end) = mid + j
        <5>1. /\ i - end \in 1..(len - end) /\ i = end + (i - end)
              /\ i + (mid - end) = mid + (i - end)
          BY <1>1
        <5> QED
          BY <5>1
      <4> QED
        BY <1>2, <4>1
    <3> QED
      BY <1>1, <1>2, <3>1 DEF SameStretch
  <2>2. /\ len <= Len(text) /\ all <= Len(new) /\ IsCharBoundary(text, len)
        /\ IsCharBoundary(new, all)
    BY <1>1 DEF IsCharBoundary
  <2> QED
    BY <1>1, <1>3, <2>1, <2>2, CharactersShift
<1>11. Characters(new, 0, all)
  <2>1. ASSUME NEW i \in 0 + 1 .. all, new[i] # "c"
        PROVE  EndsAt(new, i, i + Follow(new[i]))
    <3>1. i \in 0 + 1 .. start \/ i \in start + 1 .. mid \/ i \in mid + 1 .. all
      BY <1>1
    <3> QED
      BY <1>8, <1>9, <1>10, <2>1, <3>1 DEF Characters
  <2> QED
    BY <2>1 DEF Characters
<1> QED
  BY <1>1, <1>7, <1>11, WellFormedIsCharacters

\* Bytes that only continue a character have no units.
LEMMA UnitsOfTail ==
    ASSUME NEW text, NEW a \in Nat, NEW o \in Nat, NEW q \in Nat, a <= o, o <= q,
           \A k \in o + 1 .. q : text[k] = "c"
    PROVE  Units(text, a, q) = Units(text, a, o)
<1>1. \A k \in a + 1 .. q : k \in a + 1 .. o \/ k \in o + 1 .. q
  OBVIOUS
<1>2. /\ Begin(text, a + 1, q) = Begin(text, a + 1, o)
      /\ At(text, "p", a + 1, q) = At(text, "p", a + 1, o)
  BY <1>1 DEF Begin, At
<1> QED
  BY <1>2, UnitsAreCounts

-----------------------------------------------------------------------------
(* Positions *)

\* Where a line of an index starts, where it ends, and where the next one starts.
LineStart(starts, line)      == starts[line + 1]
NextStart(starts, len, line) == IF line + 1 < Len(starts) THEN starts[line + 2] ELSE len
LineEnd(text, starts, line)  ==
    EndOfLine(text, LineStart(starts, line), NextStart(starts, Len(text), line))

\* An offset of a line: a boundary between its start and its end, no further than the
\* units; the last of these is the position.
Reaches(text, start, end, units, o) ==
    o \in start..end /\ IsCharBoundary(text, o) /\ Units(text, start, o) <= units
IsPosition(text, start, end, units, o) ==
    /\ Reaches(text, start, end, units, o)
    /\ \A q \in start..end : Reaches(text, start, end, units, q) => q <= o

\* There is at most one, ...
LEMMA PositionIsUnique ==
    ASSUME NEW text, NEW start \in Nat, NEW end \in Nat, NEW units,
           NEW o, IsPosition(text, start, end, units, o),
           NEW q, IsPosition(text, start, end, units, q)
    PROVE  o = q
<1>1. o \in start..end /\ q \in start..end /\ o <= q /\ q <= o
  BY DEF IsPosition, Reaches
<1> QED
  BY <1>1

\* ... and there is one: the start of the line is never past a column.
LEMMA PositionExists ==
    ASSUME NEW text, NEW start \in Nat, NEW end \in Nat, NEW units \in Nat,
           start <= end, IsCharBoundary(text, start)
    PROVE  \E o \in start..end : IsPosition(text, start, end, units, o)
<1> DEFINE M == {o \in start..end : Reaches(text, start, end, units, o)}
<1>1. Units(text, start, start) = 0
  BY UnitsFacts
<1>2. start \in M
  BY <1>1 DEF Reaches
<1>3. M \subseteq 0..end
  OBVIOUS
<1>4. PICK m \in M : \A n \in M : n <= m
  BY <1>2, <1>3, GreatestNumber
<1> QED
  BY <1>4 DEF IsPosition, Reaches

\* The offset the scan of a line stops at is the position.
LEMMA ScanIsPosition ==
    ASSUME NEW text \in Seq(Bytes), Characters(text, 0, Len(text)),
           NEW start \in 0..Len(text), NEW end \in start..Len(text), NEW units \in Nat,
           IsCharBoundary(text, start), IsCharBoundary(text, end),
           NEW at, at = char_pos_to_byte_pos(text, start, end, units)
    PROVE  /\ at = {} => IsPosition(text, start, end, units, end)
           /\ \A o \in at : IsPosition(text, start, end, units, o)
<1>1. PICK len \in Nat : len = Len(text) /\ start \in Nat /\ end \in Nat /\ start <= end /\ end <= len
  BY LenProperties
<1>2. ASSUME NEW o \in at PROVE IsPosition(text, start, end, units, o)
  <2>1. /\ o \in start..end /\ IsCharBoundary(text, o) /\ Units(text, start, o) <= units
        /\ o # end => units < Units(text, start, o + 1)
    BY DEF char_pos_to_byte_pos
  <2>2. ASSUME NEW q \in start..end, Reaches(text, start, end, units, q), o < q PROVE FALSE
    <3>1. o # end /\ o \in Nat /\ q \in Nat /\ o + 1 \in Nat /\ o + 1 <= q
      BY <1>1, <2>1, <2>2
    <3>2. /\ Units(text, start, o + 1) <= Units(text, start, q)
          /\ Units(text, start, o + 1) \in Nat /\ Units(text, start, q) \in Nat
      BY <1>1, <3>1, UnitsFacts
    <3>3. Units(text, start, q) <= units /\ units < Units(text, start, o + 1)
      BY <2>1, <2>2, <3>1 DEF Reaches
    <3> QED
      BY <3>2, <3>3
  <2>3. \A q \in start..end : q <= o \/ o < q
    BY <1>1, <2>1
  <2> QED
    BY <2>1, <2>2, <2>3 DEF IsPosition, Reaches
<1>3. ASSUME at = {} PROVE IsPosition(text, start, end, units, end)
  <2>1. PICK m \in start..end : IsPosition(text, start, end, units, m)
    BY <1>1, PositionExists
  <2>2. SUFFICES ASSUME m # end PROVE FALSE
    BY <2>1
  <2>3. m \in Nat /\ m < end /\ m + 1 \in Nat /\ start <= m
    BY <1>1, <2>2
  <2>4. /\ IsCharBoundary(text, m) /\ Units(text, start, m) <= units
        /\ Units(text, start, m + 1) \in Nat
    BY <1>1, <2>1, <2>3, UnitsFacts DEF IsPosition, Reaches
  <2>5. Units(text, start, m + 1) <= units
    BY <1>3, <2>2, <2>3, <2>4 DEF char_pos_to_byte_pos
  <2>6. m + 1 \in 0 + 1 .. Len(text) /\ text[m + 1] # "c"
    BY <1>1, <2>3, <2>4 DEF IsCharBoundary
  <2>7. PICK next \in Nat : next = m + 1 + Follow(text[m + 1]) /\ m + 1 <= next
    BY <2>3, FollowIsNumber
  <2>8. EndsAt(text, m + 1, next)
    BY <2>6, <2>7 DEF Characters
  <2>9. next <= end
    <3>1. m + 1 \in 1..end /\ end \in 0..Len(text)
      BY <1>1, <2>3
    <3> QED
      BY <2>8, <3>1, CharacterEnds
  <2>10. Units(text, start, next) = Units(text, start, m + 1)
    <3>1. PICK o \in Nat : o = m + 1
      BY <2>3
    <3>2. start <= o /\ o <= next /\ \A k \in o + 1 .. next : text[k] = "c"
      BY <1>1, <2>3, <2>7, <2>8, <3>1 DEF EndsAt
    <3> QED
      BY <1>1, <3>1, <3>2, UnitsOfTail
  <2>11. next \in start..end /\ ~(next <= m)
    BY <1>1, <2>3, <2>7, <2>9
  <2>12. Reaches(text, start, end, units, next)
    BY <2>5, <2>8, <2>10, <2>11 DEF Reaches, EndsAt
  <2> QED
    BY <2>1, <2>11, <2>12 DEF IsPosition
<1> QED
  BY <1>2, <1>3

\* What the bounds of a line are: the cursor offsets of that line are the boundaries
\* between them, and its columns count from the first.
LineIs(text, line, start, end) ==
    /\ start \in 0..Len(text) /\ end \in start..Len(text)
    /\ IsCharBoundary(text, start) /\ IsCharBoundary(text, end)
    /\ \A o \in 0..Len(text) :
          o \in CursorOffsets(text) /\ LineOf(text, o) = line
            <=> o \in start..end /\ IsCharBoundary(text, o)
    /\ \A o \in start..end : StartOfLine(text, o) = start

\* What the index and EndOfLine cut out is the line, for offsets and for cursors: the
\* terminator, of one byte or two, belongs to neither.
LEMMA LineBounds ==
    ASSUME NEW text \in Seq(Bytes), WellFormed(text), NEW starts, IsIndexOf(starts, text),
           NEW line \in Nat, line < Len(starts)
    PROVE  LineIs(text, line, LineStart(starts, line), LineEnd(text, starts, line))
<1>1. PICK len \in Nat, size \in Nat : /\ len = Len(text) /\ size = Len(starts) /\ line < size
                                      /\ LineOf(text, len) = size - 1
  <2>1. /\ Len(text) \in Nat /\ Len(starts) \in Nat /\ LineOf(text, Len(text)) \in Nat
        /\ Len(starts) = LineOf(text, Len(text)) + 1
    BY IndexOrder, LineOfFacts DEF IsIndexOf
  <2> QED
    BY <2>1
<1>2. /\ \A o \in 0..len : LineOf(text, o) \in Nat
      /\ \A o \in 0..len : text[o + 1] = "LF" => LineOf(text, o + 1) = LineOf(text, o) + 1
  <2>1. ASSUME NEW o \in Nat
        PROVE  /\ LineOf(text, o) \in Nat
               /\ text[o + 1] = "LF" => LineOf(text, o + 1) = LineOf(text, o) + 1
    BY LineOfFacts
  <2>2. \A o \in 0..len : o \in Nat
    OBVIOUS
  <2> QED
    BY <2>1, <2>2
<1>3. PICK start \in 0..len : /\ start = LineStart(starts, line) /\ LineOf(text, start) = line
                             /\ \A o \in 0..len : start <= o <=> line <= LineOf(text, o)
  <2>1. PICK k \in 1..Len(starts) : k = line + 1
    BY <1>1
  <2>2. /\ starts[k] \in 0..len /\ LineOf(text, starts[k]) = k - 1
        /\ \A o \in 0..len : starts[k] <= o <=> k - 1 <= LineOf(text, o)
    BY <1>1, IndexOrder
  <2> QED
    BY <2>1, <2>2 DEF LineStart
<1>4. start = 0 \/ (start # 0 /\ text[start] = "LF")
  <2>1. CASE line = 0
    BY <1>3, <2>1 DEF LineStart, IsIndexOf
  <2>2. CASE line # 0
    <3>1. line + 1 \in 2..Len(starts)
      BY <1>1, <2>2
    <3> QED
      BY <1>3, <3>1 DEF LineStart, IsIndexOf
  <2> QED
    BY <2>1, <2>2
<1>5. IsCharBoundary(text, start)
  <2>1. CASE start = 0
    BY <2>1 DEF WellFormed
  <2>2. CASE start # 0
    <3>1. start \in DOMAIN text /\ text[start] = "LF" /\ text[start] # "c"
      BY <1>1, <1>4, <2>2, LenProperties
    <3>2. IsCharBoundary(text, start + Follow(text[start]))
      BY <3>1 DEF WellFormed
    <3>3. Follow("LF") = 0
      BY DEF Follow
    <3> QED
      BY <3>1, <3>2, <3>3
  <2> QED
    BY <2>1, <2>2
\* the last offset of the line, in front of its line feed
<1>6. PICK next \in start..len : next = NextStart(starts, len, line)
                                 /\ (line + 1 < size => next = starts[line + 2])
                                 /\ (~(line + 1 < size) => next = len)
  <2>1. CASE line + 1 < size
    <3>1. PICK k \in 1..Len(starts) : k = line + 2
      BY <1>1, <2>1
    <3>2. /\ starts[k] \in 0..len /\ LineOf(text, starts[k]) = k - 1
      BY <1>1, IndexOrder
    <3>3. start <= starts[k]
      BY <1>1, <1>3, <3>1, <3>2
    <3> QED
      BY <1>1, <2>1, <3>1, <3>2, <3>3 DEF NextStart
  <2>2. CASE ~(line + 1 < size)
    BY <1>1, <2>2 DEF NextStart
  <2> QED
    BY <2>1, <2>2
<1>7. PICK last \in start..len :
         /\ last = IF next > start /\ text[next] = "LF" THEN next - 1 ELSE next
         /\ \A o \in 0..len : LineOf(text, o) = line <=> start <= o /\ o <= last
         /\ last = len \/ (last # len /\ text[last + 1] = "LF")
  <2>1. CASE line + 1 < size
    <3>1. PICK k \in 2..Len(starts) : k = line + 2 /\ next = starts[k]
      BY <1>1, <1>6, <2>1
    <3>2. /\ next \in 1..len /\ text[next] = "LF" /\ LineOf(text, next) = k - 1
      BY <1>1, <3>1 DEF IsIndexOf
    <3>3. \A o \in 0..len : next <= o <=> k - 1 <= LineOf(text, o)
      <4>1. k \in 1..Len(starts)
        BY <3>1
      <4> QED
        BY <1>1, <3>1, <4>1, IndexOrder
    <3>4. ~(next <= start)
      BY <1>3, <3>1, <3>3
    <3>5. PICK last \in start..len : last = next - 1 /\ last + 1 = next /\ last # len
      BY <1>1, <3>2, <3>4
    <3>6. \A o \in 0..len : LineOf(text, o) = line <=> start <= o /\ ~(next <= o)
      BY <1>2, <1>3, <3>1, <3>3
    <3>7. \A o \in 0..len : ~(next <= o) <=> o <= last
      BY <1>1, <3>5
    <3>8. next > start
      BY <1>1, <3>4
    <3> QED
      BY <3>2, <3>5, <3>6, <3>7, <3>8
  <2>2. CASE ~(line + 1 < size)
    <3>1. next = len /\ LineOf(text, len) = line
      BY <1>1, <1>6, <2>2
    <3>2. ~(len > start /\ text[len] = "LF")
      <4>1. SUFFICES ASSUME len > start, text[len] = "LF" PROVE FALSE
        OBVIOUS
      <4>2. PICK o \in 0..len : o + 1 = len /\ start <= o
        <5>1. len - 1 \in 0..len /\ (len - 1) + 1 = len /\ start <= len - 1
          BY <1>1, <4>1
        <5> QED
          BY <5>1
      <4>3. LineOf(text, len) = LineOf(text, o) + 1 /\ line <= LineOf(text, o)
        BY <1>2, <1>3, <4>1, <4>2
      <4> QED
        BY <1>2, <3>1, <4>3
    <3>3. ASSUME NEW o \in 0..len PROVE LineOf(text, o) = line <=> start <= o
      <4>1. LineOf(text, o) <= LineOf(text, len)
        BY <1>1, LineOfFacts
      <4> QED
        BY <1>2, <1>3, <3>1, <4>1
    <3> QED
      BY <1>1, <3>1, <3>2, <3>3
  <2> QED
    BY <2>1, <2>2
\* the end of the line, in front of a carriage return before that
<1>8. PICK end \in start..last :
         /\ end = LineEnd(text, starts, line)
         /\ end = IF last > start /\ text[last] = "CR" THEN last - 1 ELSE last
  <2>1. LineEnd(text, starts, line) = IF last > start /\ text[last] = "CR" THEN last - 1 ELSE last
    BY <1>1, <1>3, <1>6, <1>7, Zenon DEF LineEnd, EndOfLine
  <2>2. (IF last > start /\ text[last] = "CR" THEN last - 1 ELSE last) \in start..last
    BY <1>1, <1>3, <1>7
  <2> QED
    BY <2>1, <2>2
<1>9. IsCharBoundary(text, end)
  <2>1. CASE end = last
    BY <1>1, <1>7, <2>1 DEF IsCharBoundary
  <2>2. CASE end # last
    <3>1. end + 1 = last /\ text[last] = "CR"
      BY <1>1, <1>3, <1>7, <1>8, <2>2
    <3> QED
      BY <3>1 DEF IsCharBoundary
  <2> QED
    BY <2>1, <2>2
<1>10. ASSUME NEW o \in start..end PROVE StartOfLine(text, o) = start
  <2>1. /\ o \in 0..len /\ start \in 0..o
        /\ \A i \in start + 1 .. o : i \in start..last /\ text[i] # "LF"
    <3>1. o \in 0..len /\ start \in 0..o
      BY <1>1, <1>3, <1>7, <1>8
    <3>2. ASSUME NEW i \in start + 1 .. o PROVE i \in start..last /\ text[i] # "LF"
      <4>1. PICK h \in 0..len : i = h + 1 /\ start <= h /\ h <= last /\ i \in 0..len /\ i <= last
        <5>1. i - 1 \in 0..len /\ i = (i - 1) + 1 /\ start <= i - 1 /\ i - 1 <= last
          BY <1>1, <1>3, <1>7, <1>8
        <5> QED
          BY <1>1, <1>3, <1>7, <1>8, <5>1
      <4>2. LineOf(text, h) = line /\ LineOf(text, i) = line
        BY <1>1, <1>3, <1>7, <4>1
      <4> QED
        BY <1>2, <4>1, <4>2
    <3> QED
      BY <3>1, <3>2
  <2>2. ASSUME NEW s \in 0..o, s = 0 \/ text[s] = "LF", \A i \in s + 1 .. o : text[i] # "LF"
        PROVE  s = start
    <3>1. CASE s < start
      <4>1. start \in s + 1 .. o /\ text[start] = "LF"
        BY <1>1, <1>4, <2>1, <3>1
      <4> QED
        BY <2>2, <4>1
    <3>2. CASE start < s
      <4>1. s \in start + 1 .. o /\ s # 0
        BY <1>1, <2>1, <3>2
      <4> QED
        BY <2>1, <2>2, <4>1
    <3> QED
      BY <1>1, <2>1, <3>1, <3>2
  <2>3. StartOfLine(text, o)
          = CHOOSE s \in 0..o : (s = 0 \/ text[s] = "LF") /\ \A i \in s + 1 .. o : text[i] # "LF"
    BY DEF StartOfLine
  <2>4. /\ start = 0 \/ text[start] = "LF"
        /\ \A i \in start + 1 .. o : text[i] # "LF"
    BY <1>4, <2>1
  <2> QED
    BY <2>1, <2>2, <2>3, <2>4
<1>11. ASSUME NEW o \in 0..len
       PROVE  o \in CursorOffsets(text) /\ LineOf(text, o) = line
                <=> o \in start..end /\ IsCharBoundary(text, o)
  <2>1. LineOf(text, o) = line <=> start <= o /\ o <= last
    BY <1>7
  <2>2. o \in CursorOffsets(text) <=>
          /\ IsCharBoundary(text, o)
          /\ o > 0 /\ text[o] = "CR" => o < len /\ text[o + 1] # "LF"
    BY <1>1 DEF CursorOffsets
  <2>3. ASSUME o \in start..end, o > 0, text[o] = "CR" PROVE o < len /\ text[o + 1] # "LF"
    <3>1. CASE o = end /\ end # last
      <4>1. end + 1 = last /\ text[last] = "CR"
        BY <1>1, <1>3, <1>7, <1>8, <3>1
      <4> QED
        BY <1>1, <3>1, <4>1
    <3>2. CASE o = end /\ end = last
      <4>1. ~(last > start)
        BY <1>8, <2>3, <3>2
      <4>2. o = start
        BY <1>1, <3>2, <4>1
      <4> QED
        BY <1>4, <2>3, <4>2
    <3>3. CASE o # end
      <4>1. o + 1 \in start..end /\ o + 1 \in 0..len /\ o + 1 <= last /\ start <= o + 1
        BY <1>1, <1>3, <1>7, <1>8, <2>3, <3>3
      <4>2. LineOf(text, o + 1) = line /\ LineOf(text, o) = line
        BY <1>1, <1>3, <1>7, <1>8, <2>3, <4>1
      <4> QED
        BY <1>1, <1>2, <4>1, <4>2
    <3> QED
      BY <3>1, <3>2, <3>3
  <2>4. ASSUME start <= o, o <= last, o > 0 /\ text[o] = "CR" => o < len /\ text[o + 1] # "LF"
        PROVE  o \in start..end
    <3>1. SUFFICES ASSUME o \notin start..end PROVE FALSE
      OBVIOUS
    <3>2. o = last /\ end # last
      BY <1>1, <1>3, <1>7, <1>8, <2>4, <3>1
    <3>3. last > start /\ text[last] = "CR"
      BY <1>8, <3>2
    <3>4. o > 0 /\ text[o] = "CR"
      BY <1>1, <3>2, <3>3
    <3> QED
      BY <1>1, <1>7, <2>4, <3>2, <3>4
  <2>5. o \in start..end => start <= o /\ o <= last
    BY <1>1, <1>3, <1>7, <1>8
  <2> QED
    BY <2>1, <2>2, <2>3, <2>4, <2>5
<1>12. start \in 0..Len(text) /\ end \in start..Len(text)
  BY <1>1, <1>3, <1>7, <1>8
<1> QED
  BY <1>1, <1>3, <1>5, <1>8, <1>9, <1>10, <1>11, <1>12 DEF LineIs

\* What the server makes of a position on a line there is ...
LEMMA OffsetIsPosition ==
    ASSUME NEW d, d.text \in Seq(Bytes), WellFormed(d.text), IsIndexOf(d.line_starts, d.text),
           NEW p, p.line \in Nat, p.character \in Nat, p.line < Len(d.line_starts)
    PROVE  IsPosition(d.text, LineStart(d.line_starts, p.line),
                      LineEnd(d.text, d.line_starts, p.line), p.character, offset_of(d, p))
<1>1. PICK text \in Seq(Bytes), line \in Nat, units \in Nat :
          text = d.text /\ line = p.line /\ units = p.character
  OBVIOUS
<1>2. PICK starts, start, end : /\ starts = d.line_starts
                                /\ start = LineStart(starts, line)
                                /\ end = LineEnd(text, starts, line)
  OBVIOUS
<1>3. LineIs(text, line, start, end)
  BY <1>1, <1>2, LineBounds
<1>4. /\ start \in 0..Len(text) /\ end \in start..Len(text)
      /\ IsCharBoundary(text, start) /\ IsCharBoundary(text, end)
  BY <1>3 DEF LineIs
<1>5. Characters(text, 0, Len(text))
  BY <1>1, WellFormedIsCharacters
<1>6. PICK at : at = char_pos_to_byte_pos(text, start, end, units)
  OBVIOUS
<1>7. /\ at = {} => IsPosition(text, start, end, units, end)
      /\ \A o \in at : IsPosition(text, start, end, units, o)
  BY <1>4, <1>5, <1>6, ScanIsPosition
<1>8. PICK size \in Nat : size = Len(starts) /\ line < size
  BY <1>1, <1>2, IndexOrder
<1>9. ~(line >= size)
  BY <1>8
<1>10. ~(p.line >= Len(d.line_starts))
  BY <1>1, <1>2, <1>8, <1>9, Zenon
<1>11. offset_of(d, p) = IF at = {} THEN end ELSE CHOOSE o \in at : TRUE
  <2>1. /\ start = d.line_starts[p.line + 1]
        /\ end = EndOfLine(d.text, start, IF p.line + 1 < Len(d.line_starts)
                                          THEN d.line_starts[p.line + 2] ELSE Len(d.text))
    BY <1>1, <1>2, Zenon DEF LineStart, LineEnd, NextStart
  <2>2. at = char_pos_to_byte_pos(d.text, start, end, p.character)
    BY <1>1, <1>6
  <2> QED
    BY <1>10, <2>1, <2>2 DEF offset_of
<1>12. at # {} => (CHOOSE o \in at : TRUE) \in at
  OBVIOUS
<1>13. IsPosition(text, start, end, units, offset_of(d, p))
  BY <1>7, <1>11, <1>12
<1> QED
  BY <1>1, <1>2, <1>13

\* ... and what the editor does.
LEMMA EditorOffsetIsPosition ==
    ASSUME NEW text \in Seq(Bytes), WellFormed(text), NEW starts, IsIndexOf(starts, text),
           NEW p, p.line \in Nat, p.character \in Nat, p.line < Len(starts)
    PROVE  IsPosition(text, LineStart(starts, p.line), LineEnd(text, starts, p.line),
                      p.character, EditorOffset(text, p))
<1>1. PICK line \in Nat, units \in Nat, size \in Nat :
          line = p.line /\ units = p.character /\ size = Len(starts) /\ line < size
                        /\ LineOf(text, Len(text)) = size - 1
  <2>1. /\ Len(text) \in Nat /\ Len(starts) \in Nat /\ LineOf(text, Len(text)) \in Nat
        /\ Len(starts) = LineOf(text, Len(text)) + 1
    BY IndexOrder, LineOfFacts DEF IsIndexOf
  <2> QED
    BY <2>1
<1>2. PICK start, end : start = LineStart(starts, line) /\ end = LineEnd(text, starts, line)
  OBVIOUS
<1>3. LineIs(text, line, start, end)
  BY <1>1, <1>2, LineBounds
<1>4. PICK len \in Nat : /\ len = Len(text) /\ start \in 0..len /\ end \in start..len
                         /\ start \in Nat /\ end \in Nat /\ start <= end
                         /\ IsCharBoundary(text, start)
  <2>1. Len(text) \in Nat
    BY LenProperties
  <2>2. start \in 0..Len(text) /\ end \in start..Len(text) /\ IsCharBoundary(text, start)
    BY <1>3 DEF LineIs
  <2> QED
    BY <2>1, <2>2
<1> DEFINE Fits(o) == /\ LineOf(text, o) = line /\ ColumnOf(text, o) <= units
                      /\ \A q \in CursorOffsets(text) :
                            LineOf(text, q) = line /\ ColumnOf(text, q) <= units => q <= o
<1>5. ASSUME NEW o
      PROVE  o \in CursorOffsets(text) /\ LineOf(text, o) = line /\ ColumnOf(text, o) <= units
               <=> Reaches(text, start, end, units, o)
  <2>1. /\ o \in CursorOffsets(text) => o \in 0..len
        /\ o \in start..end => o \in 0..len
    BY <1>4 DEF CursorOffsets
  <2>2. o \in 0..len => (o \in CursorOffsets(text) /\ LineOf(text, o) = line
                            <=> o \in start..end /\ IsCharBoundary(text, o))
    BY <1>3, <1>4 DEF LineIs
  <2>3. o \in start..end => ColumnOf(text, o) = Units(text, start, o)
    BY <1>3 DEF LineIs, ColumnOf
  <2> QED
    BY <2>1, <2>2, <2>3 DEF Reaches
<1>6. ASSUME NEW o \in CursorOffsets(text)
      PROVE  Fits(o) <=> IsPosition(text, start, end, units, o)
  <2>1. (\A q \in CursorOffsets(text) :
            LineOf(text, q) = line /\ ColumnOf(text, q) <= units => q <= o)
          <=> (\A q \in start..end : Reaches(text, start, end, units, q) => q <= o)
    BY <1>5, Zenon DEF Reaches
  <2> QED
    BY <1>5, <2>1, Zenon DEF IsPosition
<1>7. PICK m : IsPosition(text, start, end, units, m)
  BY <1>4, PositionExists
<1>8. m \in CursorOffsets(text)
  BY <1>5, <1>7 DEF IsPosition
<1>9. EditorOffset(text, p) = CHOOSE o \in CursorOffsets(text) : Fits(o)
  <2>1. ~(line > LineOf(text, Len(text)))
    BY <1>1
  <2> QED
    BY <1>1, <2>1, Zenon DEF EditorOffset
<1> HIDE DEF Fits
<1>10. /\ EditorOffset(text, p) \in CursorOffsets(text) /\ Fits(EditorOffset(text, p))
  BY <1>6, <1>7, <1>8, <1>9, Zenon
<1> QED
  BY <1>1, <1>2, <1>6, <1>10

\* They mean the same, and never the inside of a character.
LEMMA OffsetsAgree ==
    ASSUME NEW d, d.text \in Seq(Bytes), WellFormed(d.text), IsIndexOf(d.line_starts, d.text),
           NEW p, p.line \in Nat, p.character \in Nat
    PROVE  /\ offset_of(d, p) = EditorOffset(d.text, p)
           /\ offset_of(d, p) \in 0..Len(d.text)
           /\ IsCharBoundary(d.text, offset_of(d, p))
<1>0. PICK starts : starts = d.line_starts
  OBVIOUS
<1>1. PICK text \in Seq(Bytes), line \in Nat :
          text = d.text /\ line = p.line /\ starts = d.line_starts
  BY <1>0
<1>2. PICK len \in Nat, size \in Nat : /\ len = Len(text) /\ size = Len(starts)
                                      /\ LineOf(text, len) = size - 1
  <2>1. /\ Len(text) \in Nat /\ Len(starts) \in Nat /\ LineOf(text, Len(text)) \in Nat
        /\ Len(starts) = LineOf(text, Len(text)) + 1
    BY <1>1, IndexOrder, LineOfFacts DEF IsIndexOf
  <2> QED
    BY <2>1
<1>3. CASE line < size
  <2>1. PICK start \in Nat, end \in Nat : /\ start = LineStart(starts, line)
                                          /\ end = LineEnd(text, starts, line)
                                          /\ start <= end /\ end <= len
    <3>1. LineIs(text, line, LineStart(starts, line), LineEnd(text, starts, line))
      BY <1>1, <1>2, <1>3, LineBounds
    <3>2. PICK start, end : start = LineStart(starts, line) /\ end = LineEnd(text, starts, line)
      OBVIOUS
    <3>3. start \in 0..len /\ end \in start..len
      BY <1>2, <3>1, <3>2 DEF LineIs
    <3> QED
      BY <3>2, <3>3
  <2>2. /\ IsPosition(text, start, end, p.character, offset_of(d, p))
        /\ IsPosition(text, start, end, p.character, EditorOffset(text, p))
    BY <1>1, <1>2, <1>3, <2>1, OffsetIsPosition, EditorOffsetIsPosition
  <2>3. offset_of(d, p) = EditorOffset(text, p)
    BY <2>2, PositionIsUnique
  <2>4. offset_of(d, p) \in start..end /\ IsCharBoundary(text, offset_of(d, p))
    BY <2>2 DEF IsPosition, Reaches
  <2>5. offset_of(d, p) \in 0..len
    BY <2>1, <2>4
  <2> QED
    BY <1>1, <1>2, <2>3, <2>4, <2>5
<1>4. CASE ~(line < size)
  <2>1. line >= size /\ line > LineOf(text, len)
    BY <1>2, <1>4
  <2>2. offset_of(d, p) = len
    BY <1>1, <1>2, <2>1 DEF offset_of
  <2>3. EditorOffset(text, p) = len
    BY <1>1, <1>2, <2>1 DEF EditorOffset
  <2>4. len \in 0..len /\ IsCharBoundary(text, len)
    BY <1>2 DEF IsCharBoundary
  <2> QED
    BY <1>1, <1>2, <2>2, <2>3, <2>4
<1> QED
  BY <1>3, <1>4

-----------------------------------------------------------------------------
(* The mirror *)

\* What every state of the mirror is: characters, their index, and the editor's text.
IInv ==
    /\ doc.text \in Seq(Bytes) /\ WellFormed(doc.text) /\ Len(doc.text) <= MaxBytes
    /\ doc = NewDocument(doc.text)
    /\ editor = doc.text

\* A mirror that was built anew has its index.
LEMMA NewDocumentIs ==
    ASSUME NEW text \in Seq(Bytes)
    PROVE  /\ NewDocument(text).text = text
           /\ NewDocument(text).line_starts = compute_line_starts(text)
           /\ IsIndexOf(NewDocument(text).line_starts, text)
BY ComputedIndex DEF NewDocument

\* What the editor inserts is text, ...
LEMMA InsertsAreTexts ==
    ASSUME NEW t \in Inserts
    PROVE  t \in Seq(Bytes) /\ WellFormed(t) /\ Len(t) <= MaxBytes
BY InsertsAssumption

\* ... and what it sends as a position is two numbers.
LEMMA PositionsAreNumbers ==
    ASSUME NEW p \in Position
    PROVE  p.line \in Nat /\ p.character \in Nat
BY BoundsAssumption DEF Position

\* The span of a range is the editor's, and it cuts between characters.
LEMMA SpanIsTheEditors ==
    ASSUME NEW text \in Seq(Bytes), WellFormed(text), NEW range \in Ranges,
           NEW span, span = Span(NewDocument(text), range), NEW inserted
    PROVE  /\ span.start \in 0..Len(text) /\ span.end \in span.start..Len(text)
           /\ IsCharBoundary(text, span.start) /\ IsCharBoundary(text, span.end)
           /\ EditorEdit(text, range, inserted) = Edited(text, span.start, span.end, inserted)
<1>1. PICK d : d = NewDocument(text)
  OBVIOUS
<1>2. d.text = text /\ IsIndexOf(d.line_starts, text)
  BY <1>1, NewDocumentIs
<1>3. range.start \in Position /\ range.end \in Position
  BY DEF Ranges
<1>4. PICK start, end : start = offset_of(d, range.start) /\ end = offset_of(d, range.end)
  OBVIOUS
<1>5. /\ start = EditorOffset(text, range.start) /\ end = EditorOffset(text, range.end)
      /\ start \in 0..Len(text) /\ end \in 0..Len(text)
      /\ IsCharBoundary(text, start) /\ IsCharBoundary(text, end)
  BY <1>2, <1>3, <1>4, PositionsAreNumbers, OffsetsAgree
<1>6. span.start = start /\ span.end = IF end < start THEN start ELSE end
  BY <1>1, <1>4 DEF Span
<1>7. Len(text) \in Nat
  BY LenProperties
<1>8. span.start \in 0..Len(text) /\ span.end \in span.start..Len(text)
  BY <1>5, <1>6, <1>7
<1>9. EditorEdit(text, range, inserted) = Edited(text, span.start, span.end, inserted)
  BY <1>5, <1>6, Zenon DEF EditorEdit, Edited
<1> QED
  BY <1>5, <1>6, <1>8, <1>9

\* Opening a buffer establishes the invariant, ...
LEMMA InitEstablishes ==
    Init => IInv
<1> SUFFICES ASSUME NEW t \in Inserts, editor = t, doc = NewDocument(t)
             PROVE  IInv
  BY DEF Init
<1>1. t \in Seq(Bytes) /\ WellFormed(t) /\ Len(t) <= MaxBytes
  BY InsertsAreTexts
<1>2. doc.text = t
  BY <1>1, NewDocumentIs
<1> QED
  BY <1>1, <1>2 DEF IInv

\* ... and every change of a batch preserves it.
LEMMA StepPreserves ==
    IInv /\ [Next]_vars => IInv'
<1> SUFFICES ASSUME IInv, [Next]_vars PROVE IInv'
  OBVIOUS
<1>1. ASSUME NEW t \in Inserts, SetText(t) PROVE IInv'
  <2>1. t \in Seq(Bytes) /\ WellFormed(t) /\ Len(t) <= MaxBytes
    BY InsertsAreTexts
  <2>2. editor' = t /\ doc' = NewDocument(t)
    BY <1>1 DEF SetText
  <2>3. doc'.text = t
    BY <2>1, <2>2, NewDocumentIs
  <2> QED
    BY <2>1, <2>2, <2>3 DEF IInv
<1>2. ASSUME NEW t \in Inserts, NEW range \in Ranges, Edit(range, t) PROVE IInv'
  <2>1. t \in Seq(Bytes) /\ WellFormed(t)
    BY InsertsAreTexts
  <2>2. PICK text \in Seq(Bytes) : /\ text = doc.text /\ text = editor /\ WellFormed(text)
                                   /\ doc = NewDocument(text)
    BY DEF IInv
  <2>3. PICK span : span = Span(NewDocument(text), range)
    OBVIOUS
  <2>4. /\ span.start \in 0..Len(text) /\ span.end \in span.start..Len(text)
        /\ IsCharBoundary(text, span.start) /\ IsCharBoundary(text, span.end)
        /\ EditorEdit(text, range, t) = Edited(text, span.start, span.end, t)
    BY <2>2, <2>3, SpanIsTheEditors
  <2>5. PICK new \in Seq(Bytes) : /\ new = Edited(text, span.start, span.end, t)
                                  /\ IsEdited(new, text, span.start, span.end, t)
    BY <2>1, <2>4, EditedText
  <2>6. WellFormed(new)
    BY <2>1, <2>2, <2>4, <2>5, EditedIsWellFormed
  <2>7. Len(new) <= MaxBytes /\ editor' = new
    BY <1>2, <2>2, <2>4, <2>5 DEF Edit
  <2>8. doc' = NewDocument(new)
    <3>1. doc.text \in Seq(Bytes) /\ doc.line_starts = compute_line_starts(doc.text)
      BY <2>2, NewDocumentIs
    <3>2. /\ splice(doc, span.start, span.end, t) = NewDocument(Edited(doc.text, span.start, span.end, t))
      BY <2>1, <2>2, <2>4, <3>1, SpliceIsRebuild
    <3>3. doc' = splice(doc, span.start, span.end, t)
      BY <1>2, <2>2, <2>3, Zenon DEF Edit
    <3> QED
      BY <2>2, <2>5, <3>2, <3>3, Zenon
  <2>9. doc'.text = new
    BY <2>8, NewDocumentIs
  <2> QED
    BY <2>6, <2>7, <2>8, <2>9 DEF IInv
<1>3. CASE UNCHANGED vars
  BY <1>3 DEF IInv, vars
<1> QED
  BY <1>1, <1>2, <1>3 DEF Next

\* Every reachable mirror is characters with their index, equal to the editor's text.
THEOREM MirrorInvariant ==
    Spec => []IInv
<1> QED
  BY InitEstablishes, StepPreserves, PTL DEF Spec

\* splice repairs the line index in place; what it leaves is, after any number of edits of
\* any text, the index that compute_line_starts would build anew, and the bytes are still
\* characters.
THEOREM IndexExact ==
    Spec => []IndexIsExact
<1>1. ASSUME IInv PROVE IndexIsExact
  <2>1. PICK text \in Seq(Bytes) : text = doc.text /\ doc = NewDocument(text) /\ editor = text
    BY <1>1 DEF IInv
  <2>2. /\ doc.line_starts = compute_line_starts(doc.text)
        /\ IsIndexOf(doc.line_starts, text)
    BY <2>1, NewDocumentIs
  <2>3. doc.line_starts \in Seq(0..MaxBytes)
    <3>1. PICK starts \in Seq(Nat) : starts = doc.line_starts /\ IsIndexOf(starts, text)
      BY <2>2 DEF IsIndexOf
    <3>2. Len(text) \in Nat /\ MaxBytes \in Nat /\ Len(text) <= MaxBytes
      BY <1>1, <2>1, BoundsAssumption, LenProperties DEF IInv
    <3>3. \A k \in 1..Len(starts) : starts[k] \in 0..Len(text)
      BY <3>1, IndexOrder
    <3>4. \A k \in 1..Len(starts) : starts[k] \in 0..MaxBytes
      BY <3>2, <3>3
    <3>5. starts \in [1..Len(starts) -> Nat] /\ Len(starts) \in Nat
      BY LenProperties
    <3>6. starts \in [1..Len(starts) -> 0..MaxBytes]
      BY <3>4, <3>5
    <3>7. starts \in Seq(0..MaxBytes)
      <4>1. PICK n \in Nat : n = Len(starts)
        BY <3>5
      <4>2. PICK S : S = 0..MaxBytes
        OBVIOUS
      <4>3. starts \in [1..n -> S]
        BY <3>6, <4>1, <4>2
      <4>4. starts \in Seq(S)
        BY <4>3, SeqDef
      <4> QED
        BY <4>2, <4>4
    <3> QED
      BY <3>1, <3>7
  <2> QED
    BY <1>1, <2>1, <2>2, <2>3 DEF IndexIsExact, TypeOK, IInv
<1> QED
  BY <1>1, MirrorInvariant, PTL

\* Whatever the edits of a didChange batch, in or out of the text and with their ends in
\* either order, the mirror holds the editor's text.
THEOREM MirrorExact ==
    Spec => []MirrorIsEditors
<1>1. IInv => MirrorIsEditors
  BY DEF IInv, MirrorIsEditors
<1> QED
  BY <1>1, MirrorInvariant, PTL

\* Every position an editor can send is the same offset for both sides, and a String can be
\* sliced there.
THEOREM OffsetsExact ==
    Spec => []OffsetsAreTheEditors
<1>1. ASSUME IInv PROVE OffsetsAreTheEditors
  <2>1. PICK text \in Seq(Bytes) : text = doc.text /\ doc = NewDocument(text) /\ WellFormed(text)
    BY <1>1 DEF IInv
  <2>2. IsIndexOf(doc.line_starts, text)
    BY <2>1, NewDocumentIs
  <2>3. ASSUME NEW p \in Position
        PROVE  /\ offset_of(doc, p) = EditorOffset(doc.text, p)
               /\ IsCharBoundary(doc.text, offset_of(doc, p))
    BY <2>1, <2>2, PositionsAreNumbers, OffsetsAgree
  <2> QED
    BY <2>3 DEF OffsetsAreTheEditors
<1> QED
  BY <1>1, MirrorInvariant, PTL

-----------------------------------------------------------------------------
(* A window of lines *)

\* A part of a text, from a boundary to a boundary.
IsWindow(sub, text, ws, we) ==
    /\ ws \in 0..Len(text) /\ we \in ws..Len(text)
    /\ IsCharBoundary(text, ws) /\ IsCharBoundary(text, we)
    /\ Len(sub) = we - ws
    /\ \A i \in 1..(we - ws) : sub[i] = text[ws + i]

\* Where a window is.
LEMMA WindowBounds ==
    ASSUME NEW text \in Seq(Bytes), NEW sub, NEW ws, NEW we, IsWindow(sub, text, ws, we)
    PROVE  ws \in Nat /\ we \in Nat /\ ws <= we /\ we <= Len(text) /\ Len(text) \in Nat
<1>1. Len(text) \in Nat /\ ws \in 0..Len(text) /\ we \in ws..Len(text)
  BY LenProperties DEF IsWindow
<1> QED
  BY <1>1

\* A stretch of a window is one of the text.
LEMMA WindowStretch ==
    ASSUME NEW text \in Seq(Bytes), NEW sub, NEW ws \in Nat, NEW we \in Nat,
           IsWindow(sub, text, ws, we),
           NEW x \in Nat, NEW y \in Nat, NEW a \in Nat, NEW b \in Nat,
           a = ws + x, b = ws + y, x <= y, b <= we
    PROVE  SameStretch(sub, x, y, text, a, b)
<1>1. ASSUME NEW i \in (x + 1)..y PROVE sub[i] = text[i + (a - x)]
  <2>1. i \in 1..(we - ws) /\ i + (a - x) = ws + i
    OBVIOUS
  <2> QED
    BY <2>1 DEF IsWindow
<1> QED
  BY <1>1 DEF SameStretch

\* Boundaries of the window are those of the text.
LEMMA WindowBoundary ==
    ASSUME NEW text \in Seq(Bytes), NEW sub, NEW ws \in Nat, NEW we \in Nat,
           IsWindow(sub, text, ws, we),
           NEW q \in Nat, NEW o \in Nat, o = ws + q, o <= we
    PROVE  IsCharBoundary(sub, q) <=> IsCharBoundary(text, o)
<1>1. Len(text) \in Nat /\ we <= Len(text) /\ Len(sub) = we - ws
  BY WindowBounds DEF IsWindow
<1>2. CASE o = we
  <2>1. q = Len(sub)
    BY <1>1, <1>2
  <2> QED
    BY <1>2, <2>1 DEF IsCharBoundary, IsWindow
<1>3. CASE o # we
  <2>1. q + 1 \in 1..(we - ws) /\ ws + (q + 1) = o + 1 /\ q # Len(sub) /\ o # Len(text)
    BY <1>1, <1>3
  <2>2. sub[q + 1] = text[o + 1]
    BY <2>1 DEF IsWindow
  <2> QED
    BY <2>1, <2>2 DEF IsCharBoundary
<1> QED
  BY <1>2, <1>3

\* A window cut at two boundaries is text.
LEMMA WindowIsText ==
    ASSUME NEW text \in Seq(Bytes), WellFormed(text), NEW sub \in Seq(Bytes),
           NEW ws \in Nat, NEW we \in Nat, IsWindow(sub, text, ws, we)
    PROVE  WellFormed(sub)
<1>1. PICK n \in Nat : n = we - ws /\ n = Len(sub) /\ we <= Len(text) /\ ws <= we
  <2>1. ws <= we /\ we <= Len(text) /\ Len(sub) = we - ws
    BY WindowBounds DEF IsWindow
  <2> QED
    BY <2>1
<1>2. IsCharBoundary(sub, 0)
  <2>1. ws = ws + 0 /\ 0 \in Nat
    OBVIOUS
  <2> QED
    BY <1>1, <2>1, WindowBoundary DEF IsWindow
<1>3. SameStretch(text, ws, we, sub, 0, n)
  <2>1. ASSUME NEW i \in (ws + 1)..we PROVE text[i] = sub[i + (0 - ws)]
    <3>1. PICK j \in 1..(we - ws) : i = ws + j /\ i + (0 - ws) = j
      <4>1. i - ws \in 1..(we - ws) /\ i = ws + (i - ws) /\ i + (0 - ws) = i - ws
        BY <1>1
      <4> QED
        BY <4>1
    <3> QED
      BY <3>1 DEF IsWindow
  <2> QED
    BY <1>1, <2>1 DEF SameStretch
<1>4. Characters(sub, 0, n)
  <2>1. /\ Characters(text, 0, Len(text)) /\ IsCharBoundary(text, we) /\ IsCharBoundary(sub, n)
        /\ 0 \in Nat /\ n <= Len(sub)
    BY <1>1, WellFormedIsCharacters DEF IsWindow, IsCharBoundary
  <2> QED
    BY <1>1, <1>3, <2>1, CharactersShift
<1> QED
  BY <1>1, <1>2, <1>4, WellFormedIsCharacters

\* A position of the text is one of the window.
LEMMA WindowPosition ==
    ASSUME NEW text \in Seq(Bytes), NEW sub, NEW ws \in Nat, NEW we \in Nat,
           IsWindow(sub, text, ws, we),
           NEW x \in Nat, NEW y \in Nat, NEW a \in Nat, NEW b \in Nat,
           a = ws + x, b = ws + y, x <= y, b <= we, NEW units \in Nat,
           NEW q \in Nat, NEW o \in Nat, o = ws + q, IsPosition(sub, x, y, units, q)
    PROVE  IsPosition(text, a, b, units, o)
<1>1. ASSUME NEW i \in Nat, NEW j \in Nat, j = ws + i
      PROVE  Reaches(sub, x, y, units, i) <=> Reaches(text, a, b, units, j)
  <2>1. i \in x..y <=> j \in a..b
    BY <1>1
  <2>2. ASSUME i \in x..y
        PROVE  Units(text, a, j) = Units(sub, x, i) /\ (IsCharBoundary(sub, i) <=> IsCharBoundary(text, j))
    <3>1. x <= i /\ j <= we
      BY <1>1, <2>2
    <3>2. SameStretch(sub, x, i, text, a, j)
      BY <1>1, <3>1, WindowStretch
    <3>3. Units(text, a, j) = Units(sub, x, i)
      BY <3>2, UnitsShift
    <3>4. IsCharBoundary(sub, i) <=> IsCharBoundary(text, j)
      BY <1>1, <3>1, WindowBoundary
    <3> QED
      BY <3>3, <3>4
  <2> QED
    BY <2>1, <2>2 DEF Reaches
<1>2. Reaches(text, a, b, units, o)
  BY <1>1 DEF IsPosition
<1>3. ASSUME NEW j \in a..b, Reaches(text, a, b, units, j) PROVE j <= o
  <2>1. PICK i \in x..y : j = ws + i
    <3>1. j - ws \in x..y /\ j = ws + (j - ws)
      OBVIOUS
    <3> QED
      BY <3>1
  <2>2. i \in Nat /\ j \in Nat
    BY <2>1
  <2>3. Reaches(sub, x, y, units, i)
    BY <1>1, <1>3, <2>1, <2>2
  <2>4. i <= q
    BY <2>3 DEF IsPosition
  <2> QED
    BY <2>1, <2>2, <2>4
<1> QED
  BY <1>2, <1>3 DEF IsPosition

\* A window from the start of one line to the end of another, and its own index.
LineWindow(sub, text, starts, own, first, last, ws, we) ==
    /\ first <= last /\ first < Len(starts)
    /\ ws = LineStart(starts, first) /\ we = NextStart(starts, Len(text), last)
    /\ IsWindow(sub, text, ws, we)
    /\ IsIndexOf(own, sub)

SlidIndex(own, starts, first, last, ws) ==
    /\ Len(own) = IF last + 1 < Len(starts) THEN (last - first) + 2 ELSE Len(starts) - first
    /\ \A k \in 1..Len(own) : starts[first + k] = ws + own[k]

\* The index of a window of lines is the text's, from the first line of the window on; and the
\* window ends with the text or at a line start, which is then its last, empty line.
LEMMA WindowIndex ==
    ASSUME NEW text \in Seq(Bytes), NEW starts, IsIndexOf(starts, text),
           NEW sub \in Seq(Bytes), NEW own, NEW first \in Nat, NEW last \in Nat,
           NEW ws \in Nat, NEW we \in Nat,
           LineWindow(sub, text, starts, own, first, last, ws, we)
    PROVE  SlidIndex(own, starts, first, last, ws)
<1>1. PICK len \in Nat, size \in Nat, n \in Nat, more \in Nat :
         /\ len = Len(text) /\ size = Len(starts) /\ n = Len(sub) /\ more = Len(own)
         /\ first <= last /\ first < size /\ ws <= we /\ we <= len /\ we = ws + n
         /\ size = LineOf(text, len) + 1 /\ more = LineOf(sub, n) + 1
  <2>1. IsWindow(sub, text, ws, we) /\ IsIndexOf(own, sub)
    BY DEF LineWindow
  <2>2. /\ Len(text) \in Nat /\ Len(starts) \in Nat /\ Len(sub) \in Nat /\ Len(own) \in Nat
        /\ Len(starts) = LineOf(text, Len(text)) + 1 /\ Len(own) = LineOf(sub, Len(sub)) + 1
    BY <2>1, IndexOrder DEF IsIndexOf
  <2>3. ws <= we /\ we <= Len(text) /\ Len(sub) = we - ws
    BY <2>1, WindowBounds DEF IsWindow
  <2> QED
    BY <2>2, <2>3 DEF LineWindow
<1>2. ws = starts[first + 1] /\ LineOf(text, ws) = first
  <2>1. PICK k \in 1..Len(starts) : k = first + 1 /\ k - 1 = first
    BY <1>1
  <2> QED
    BY <2>1, IndexOrder DEF LineWindow, LineStart
<1>3. ASSUME NEW q \in 0..n PROVE LineOf(text, ws + q) = first + LineOf(sub, q)
  <2>1. PICK e \in Nat : e = ws + q
    OBVIOUS
  <2>2. SameStretch(sub, 0, q, text, ws, e)
    <3>1. q \in Nat /\ 0 \in Nat /\ ws = ws + 0 /\ 0 <= q /\ e <= we
      BY <1>1, <2>1
    <3>2. IsWindow(sub, text, ws, we)
      BY DEF LineWindow
    <3> QED
      BY <2>1, <3>1, <3>2, WindowStretch
  <2>3. LineOf(text, e) - LineOf(text, ws) = LineOf(sub, q) - LineOf(sub, 0)
    BY <2>2, LineOfShift
  <2>4. LineOf(sub, 0) = 0 /\ LineOf(sub, q) \in Nat /\ LineOf(text, e) \in Nat
    <3>1. q \in Nat
      OBVIOUS
    <3> QED
      BY <3>1, LineOfFacts
  <2> QED
    BY <1>2, <2>1, <2>3, <2>4
<1>4. LineOf(text, we) = first + LineOf(sub, n) /\ LineOf(sub, n) \in Nat
  <2>1. n \in 0..n /\ we = ws + n
    BY <1>1
  <2> QED
    BY <1>3, <2>1, LineOfFacts
<1>5. more = IF last + 1 < size THEN (last - first) + 2 ELSE size - first
  <2>1. CASE last + 1 < size
    <3>1. PICK k \in 1..Len(starts) : k = last + 2 /\ k - 1 = last + 1
      BY <1>1, <2>1
    <3>2. we = starts[k]
      BY <1>1, <2>1, <3>1 DEF LineWindow, NextStart
    <3>3. LineOf(text, we) = last + 1
      BY <3>1, <3>2, IndexOrder
    <3> QED
      BY <1>1, <1>4, <2>1, <3>3
  <2>2. CASE ~(last + 1 < size)
    <3>1. we = len
      BY <1>1, <2>2 DEF LineWindow, NextStart
    <3> QED
      BY <1>1, <1>4, <2>2, <3>1
  <2> QED
    BY <2>1, <2>2
<1>6. ASSUME NEW k \in 1..more PROVE starts[first + k] = ws + own[k]
  <2>1. CASE k = 1
    <3>1. own[1] = 0
      BY DEF LineWindow, IsIndexOf
    <3> QED
      BY <1>2, <2>1, <3>1
  <2>2. CASE k # 1
    <3>1. PICK j \in 2..Len(starts) : j = first + k /\ j - 1 = first + (k - 1)
      <4>1. first + k <= size
        BY <1>1, <1>5
      <4>2. first + k \in 2..Len(starts) /\ (first + k) - 1 = first + (k - 1)
        BY <1>1, <2>2, <4>1
      <4> QED
        BY <4>2
    <3>2. starts[j] \in 1..len /\ text[starts[j]] = "LF" /\ LineOf(text, starts[j]) = j - 1
      BY <1>1, <3>1 DEF IsIndexOf
    <3>3. PICK i \in 1..n : i = own[k] /\ sub[i] = "LF" /\ LineOf(sub, i) = k - 1
      <4>1. k \in 2..Len(own)
        BY <1>1, <2>2
      <4> QED
        BY <1>1, <4>1 DEF LineWindow, IsIndexOf
    <3>4. text[ws + i] = "LF"
      <4>1. IsWindow(sub, text, ws, we) /\ i \in 1..(we - ws)
        BY <1>1 DEF LineWindow
      <4> QED
        BY <3>3, <4>1 DEF IsWindow
    <3>5. LineOf(text, ws + i) = j - 1
      <4>1. i \in 0..n
        OBVIOUS
      <4> QED
        BY <1>3, <3>1, <3>3, <4>1
    <3>6. PICK x \in Nat \ {0}, y \in Nat \ {0} : x = starts[j] /\ y = ws + i
      <4>1. starts[j] \in Nat \ {0} /\ ws + i \in Nat \ {0}
        BY <3>2
      <4> QED
        BY <4>1
    <3>7. x = y
      BY <3>2, <3>4, <3>5, <3>6, RankOfLineFeed
    <3> QED
      BY <3>1, <3>3, <3>6, <3>7
  <2> QED
    BY <2>1, <2>2
<1> QED
  BY <1>1, <1>5, <1>6 DEF SlidIndex

\* A line of the text is one of the window.
LineSlides(sub, text, own, starts, line, rel, ws, we) ==
    /\ rel < Len(own)
    /\ LineStart(starts, line) = ws + LineStart(own, rel)
    /\ LineEnd(text, starts, line) = ws + LineEnd(sub, own, rel)
    /\ LineEnd(text, starts, line) <= we

\* A line of the text is one of the window, and ends in it.
LEMMA WindowLine ==
    ASSUME NEW text \in Seq(Bytes), WellFormed(text), NEW starts, IsIndexOf(starts, text),
           NEW sub \in Seq(Bytes), NEW own, NEW first \in Nat, NEW last \in Nat,
           NEW ws \in Nat, NEW we \in Nat,
           LineWindow(sub, text, starts, own, first, last, ws, we),
           NEW line \in Nat, NEW rel \in Nat, line = first + rel, line <= last, line < Len(starts)
    PROVE  LineSlides(sub, text, own, starts, line, rel, ws, we)
<1>1. PICK len \in Nat, size \in Nat, n \in Nat, more \in Nat :
         /\ len = Len(text) /\ size = Len(starts) /\ n = Len(sub) /\ more = Len(own)
         /\ we <= len /\ we = ws + n
  <2>1. IsWindow(sub, text, ws, we) /\ IsIndexOf(own, sub)
    BY DEF LineWindow
  <2>2. Len(text) \in Nat /\ Len(starts) \in Nat /\ Len(sub) \in Nat /\ Len(own) \in Nat
    BY <2>1, IndexOrder
  <2>3. ws <= we /\ we <= Len(text) /\ Len(sub) = we - ws
    BY <2>1, WindowBounds DEF IsWindow
  <2>4. we = ws + Len(sub) /\ we <= Len(text)
    BY <2>2, <2>3
  <2> QED
    BY <2>2, <2>4
<1>2. /\ more = IF last + 1 < size THEN (last - first) + 2 ELSE size - first
      /\ \A k \in 1..more : starts[first + k] = ws + own[k]
  <2>1. SlidIndex(own, starts, first, last, ws)
    BY WindowIndex
  <2> QED
    BY <1>1, <2>1 DEF SlidIndex
<1>3. line < size /\ line + 1 <= last + 1 /\ we = NextStart(starts, len, last)
  BY <1>1 DEF LineWindow
<1>4. rel < more
  BY <1>2, <1>3
<1>5. \A k \in 1..more : own[k] \in 0..n
  <2>1. IsIndexOf(own, sub)
    BY DEF LineWindow
  <2> QED
    BY <1>1, <2>1, IndexOrder
<1>6. PICK x \in 0..n : x = LineStart(own, rel) /\ LineStart(starts, line) = ws + x
  <2>1. PICK k \in 1..more : k = rel + 1 /\ first + k = line + 1
    BY <1>4
  <2> QED
    BY <1>2, <1>5, <2>1 DEF LineStart
<1>7. PICK next \in 0..n : next = NextStart(own, n, rel) /\ NextStart(starts, len, line) = ws + next
  <2>1. rel + 1 < more <=> line + 1 < size
    BY <1>2, <1>3
  <2>2. CASE line + 1 < size
    <3>1. PICK k \in 1..more : k = rel + 2 /\ first + k = line + 2
      BY <2>1, <2>2
    <3> QED
      BY <1>1, <1>2, <1>5, <2>1, <2>2, <3>1 DEF NextStart
  <2>3. CASE ~(line + 1 < size)
    <3>1. we = len
      BY <1>1, <1>3, <2>3 DEF NextStart
    <3>2. NextStart(own, n, rel) = n /\ NextStart(starts, len, line) = len
      BY <1>1, <2>1, <2>3 DEF NextStart
    <3> QED
      BY <1>1, <3>1, <3>2
  <2> QED
    BY <2>2, <2>3
<1>8. ASSUME NEW i \in 1..n PROVE sub[i] = text[ws + i]
  <2>1. IsWindow(sub, text, ws, we) /\ i \in 1..(we - ws)
    BY <1>1 DEF LineWindow
  <2> QED
    BY <2>1 DEF IsWindow
<1> DEFINE Cut(t, s, e) == IF e > s /\ t[e] = "LF" THEN e - 1 ELSE e
           Trim(t, s, e) == IF e > s /\ t[e] = "CR" THEN e - 1 ELSE e
<1>9. PICK cut \in 0..n : cut = Cut(sub, x, next) /\ ws + cut = Cut(text, ws + x, ws + next)
  <2>1. next > x <=> ws + next > ws + x
    OBVIOUS
  <2>2. next > x => next \in 1..n /\ next - 1 \in 0..n /\ ws + (next - 1) = (ws + next) - 1
    OBVIOUS
  <2> QED
    BY <1>8, <2>1, <2>2
<1>10. PICK end \in 0..n : end = Trim(sub, x, cut) /\ ws + end = Trim(text, ws + x, ws + cut)
  <2>1. cut > x <=> ws + cut > ws + x
    OBVIOUS
  <2>2. cut > x => cut \in 1..n /\ cut - 1 \in 0..n /\ ws + (cut - 1) = (ws + cut) - 1
    OBVIOUS
  <2> QED
    BY <1>8, <2>1, <2>2
<1>11. LineEnd(sub, own, rel) = end
  BY <1>1, <1>6, <1>7, <1>9, <1>10, Zenon DEF LineEnd, EndOfLine, Cut, Trim
<1>12. LineEnd(text, starts, line) = ws + end
  BY <1>1, <1>6, <1>7, <1>9, <1>10, Zenon DEF LineEnd, EndOfLine, Cut, Trim
<1>13. ws + end <= we
  BY <1>1
<1> QED
  BY <1>1, <1>4, <1>6, <1>11, <1>12, <1>13 DEF LineSlides

\* The same position in the text, up to line last, and in a window that starts at line first;
\* and what is to be shown of it.
SamePosition(p, q, first, last) ==
    /\ p.line \in Nat /\ p.character \in Nat /\ p.line <= last
    /\ q.line \in Nat /\ p.line = first + q.line /\ q.character = p.character

SameOffset(d, p, w, q, ws) ==
    offset_of(w, q) \in 0..Len(w.text) /\ offset_of(d, p) = ws + offset_of(w, q)

\* A position of the text is the same one in the window, counted from its start.
LEMMA WindowOffset ==
    ASSUME NEW d, d.text \in Seq(Bytes), WellFormed(d.text), IsIndexOf(d.line_starts, d.text),
           NEW w, w.text \in Seq(Bytes), NEW first \in Nat, NEW last \in Nat,
           NEW ws \in Nat, NEW we \in Nat,
           LineWindow(w.text, d.text, d.line_starts, w.line_starts, first, last, ws, we),
           NEW p, NEW q, SamePosition(p, q, first, last)
    PROVE  SameOffset(d, p, w, q, ws)
<1>0. PICK starts, own : starts = d.line_starts /\ own = w.line_starts
  OBVIOUS
<1>1. PICK text \in Seq(Bytes), sub \in Seq(Bytes) :
         /\ text = d.text /\ sub = w.text /\ starts = d.line_starts /\ own = w.line_starts
  BY <1>0
<1>2. PICK line \in Nat, rel \in Nat, units \in Nat :
         /\ line = p.line /\ rel = q.line /\ line = first + rel /\ line <= last
         /\ units = p.character /\ units = q.character
  BY DEF SamePosition
<1>3. LineWindow(sub, text, starts, own, first, last, ws, we)
  BY <1>1
<1>4. IsIndexOf(starts, text) /\ IsIndexOf(own, sub) /\ WellFormed(text) /\ WellFormed(sub)
  <2>1. IsWindow(sub, text, ws, we) /\ IsIndexOf(own, sub)
    BY <1>3 DEF LineWindow
  <2> QED
    BY <1>1, <2>1, WindowIsText
<1>5. PICK len \in Nat, size \in Nat, n \in Nat, more \in Nat :
         /\ len = Len(text) /\ size = Len(starts) /\ n = Len(sub) /\ more = Len(own)
         /\ we = ws + n
  <2>1. Len(text) \in Nat /\ Len(starts) \in Nat /\ Len(sub) \in Nat /\ Len(own) \in Nat
    BY <1>4, IndexOrder
  <2>2. Len(sub) = we - ws
    BY <1>3 DEF LineWindow, IsWindow
  <2>3. we = ws + Len(sub)
    BY <2>1, <2>2
  <2> QED
    BY <2>1, <2>3
<1>6. CASE line < size
  <2>1. LineSlides(sub, text, own, starts, line, rel, ws, we)
    BY <1>2, <1>3, <1>4, <1>5, <1>6, WindowLine
  <2>2. rel < Len(own)
    BY <2>1 DEF LineSlides
  <2>3. PICK x \in Nat, y \in Nat : /\ x = LineStart(own, rel) /\ y = LineEnd(sub, own, rel)
                                    /\ x <= y /\ y <= n
    <3>1. PICK x, y : x = LineStart(own, rel) /\ y = LineEnd(sub, own, rel)
      OBVIOUS
    <3>2. LineIs(sub, rel, x, y)
      BY <1>4, <2>2, <3>1, LineBounds
    <3>3. x \in 0..n /\ y \in x..n
      BY <1>5, <3>2 DEF LineIs
    <3> QED
      BY <3>1, <3>3
  <2>4. PICK a \in Nat, b \in Nat : /\ a = LineStart(starts, line) /\ b = LineEnd(text, starts, line)
                                    /\ a = ws + x /\ b = ws + y /\ b <= we
    BY <2>1, <2>3 DEF LineSlides
  <2>5. IsPosition(text, a, b, units, offset_of(d, p))
    BY <1>1, <1>2, <1>4, <1>5, <1>6, <2>4, OffsetIsPosition
  <2>6. IsPosition(sub, x, y, units, offset_of(w, q))
    BY <1>1, <1>2, <1>4, <2>2, <2>3, OffsetIsPosition
  <2>7. PICK i \in Nat : i = offset_of(w, q) /\ i <= n
    <3>1. offset_of(w, q) \in x..y
      BY <2>6 DEF IsPosition, Reaches
    <3> QED
      BY <2>3, <3>1
  <2>8. PICK o \in Nat : o = ws + i
    OBVIOUS
  <2>9. IsPosition(text, a, b, units, o)
    <3>1. IsWindow(sub, text, ws, we)
      BY <1>3 DEF LineWindow
    <3> QED
      BY <2>3, <2>4, <2>6, <2>7, <2>8, <3>1, WindowPosition
  <2>10. offset_of(d, p) = o
    BY <2>5, <2>9, PositionIsUnique
  <2> QED
    BY <1>1, <1>5, <2>7, <2>8, <2>10 DEF SameOffset
<1>7. CASE ~(line < size)
  <2>1. SlidIndex(own, starts, first, last, ws)
    BY <1>3, <1>4, WindowIndex
  <2>2. first < size /\ we = NextStart(starts, len, last)
    BY <1>3, <1>5 DEF LineWindow
  <2>3. ~(last + 1 < size)
    BY <1>2, <1>7
  <2>4. more = size - first /\ we = len
    BY <1>5, <2>1, <2>2, <2>3 DEF SlidIndex, NextStart
  <2>5. rel >= more /\ line >= size
    BY <1>2, <1>7, <2>2, <2>4
  <2>6. offset_of(d, p) = len
    BY <1>1, <1>2, <1>5, <2>5 DEF offset_of
  <2>7. offset_of(w, q) = n
    BY <1>1, <1>2, <1>5, <2>5 DEF offset_of
  <2> QED
    BY <1>1, <1>5, <2>4, <2>6, <2>7 DEF SameOffset
<1> QED
  BY <1>6, <1>7

\* A part of a part.
LEMMA PartOfWindow ==
    ASSUME NEW text \in Seq(Bytes), NEW sub \in Seq(Bytes), NEW ws \in Nat, NEW we \in Nat,
           IsWindow(sub, text, ws, we),
           NEW x \in 0..Len(sub), NEW y \in x..Len(sub),
           NEW a \in Nat, NEW b \in Nat, a = ws + x, b = ws + y
    PROVE  SubSeq(sub, x + 1, y) = SubSeq(text, a + 1, b)
<1>1. PICK n \in Nat : n = Len(sub) /\ we = ws + n /\ we <= Len(text) /\ Len(text) \in Nat
  <2>1. Len(sub) \in Nat /\ Len(sub) = we - ws /\ we <= Len(text) /\ Len(text) \in Nat
    BY WindowBounds, LenProperties DEF IsWindow
  <2>2. we = ws + Len(sub)
    BY <2>1
  <2> QED
    BY <2>1, <2>2
<1>2. x \in Nat /\ y \in Nat /\ x <= y /\ y <= n
  BY <1>1
<1>3. PICK m \in Int, k \in Int : m = x + 1 /\ k = a + 1
  BY <1>2
<1>4. PICK s \in Seq(Bytes) : s = SubSeq(sub, m, y) /\ IsPart(s, sub, x, y)
  BY <1>3, PartOf
<1>5. PICK t \in Seq(Bytes) : t = SubSeq(text, k, b) /\ IsPart(t, text, a, b)
  <2>1. a \in 0..Len(text) /\ b \in a..Len(text)
    BY <1>1, <1>2
  <2> QED
    BY <1>3, <2>1, PartOf
<1>6. Len(s) = y - x /\ Len(t) = y - x
  BY <1>2, <1>4, <1>5 DEF IsPart
<1>7. ASSUME NEW i \in 1..Len(s) PROVE s[i] = t[i]
  <2>1. i \in 1..(y - x) /\ i \in 1..(b - a)
    BY <1>2, <1>6
  <2>2. s[i] = sub[x + i] /\ t[i] = text[a + i]
    BY <1>4, <1>5, <2>1 DEF IsPart
  <2>3. PICK j \in 1..(we - ws) : j = x + i /\ ws + j = a + i
    BY <1>1, <1>2, <2>1
  <2>4. sub[j] = text[ws + j]
    BY <2>3 DEF IsWindow
  <2> QED
    BY <2>2, <2>3, <2>4
<1>8. s = t
  BY <1>6, <1>7, SeqEqual
<1> QED
  BY <1>3, <1>4, <1>5, <1>8

\* A position on a line there is stays on it.
LEMMA OffsetIsOnLine ==
    ASSUME NEW d, d.text \in Seq(Bytes), WellFormed(d.text), IsIndexOf(d.line_starts, d.text),
           NEW p, p.line \in Nat, p.character \in Nat, p.line < Len(d.line_starts)
    PROVE  LineOf(d.text, offset_of(d, p)) = p.line
<1>0. PICK start, end, o :
         /\ start = LineStart(d.line_starts, p.line)
         /\ end = LineEnd(d.text, d.line_starts, p.line) /\ o = offset_of(d, p)
  OBVIOUS
<1>1. PICK text \in Seq(Bytes), line \in Nat :
         /\ text = d.text /\ line = p.line /\ start = LineStart(d.line_starts, line)
         /\ end = LineEnd(text, d.line_starts, line) /\ o = offset_of(d, p)
  BY <1>0
<1>2. LineIs(text, line, start, end)
  BY <1>1, LineBounds
<1>3. o \in start..end /\ IsCharBoundary(text, o)
  <2>1. IsPosition(text, start, end, p.character, o)
    BY <1>1, OffsetIsPosition
  <2> QED
    BY <2>1 DEF IsPosition, Reaches
<1>4. o \in 0..Len(text)
  BY <1>1, OffsetsAgree
<1>5. LineOf(text, o) = line
  BY <1>2, <1>3, <1>4 DEF LineIs
<1> QED
  BY <1>1, <1>5

\* The range that is asked of the window: its first line is line 0, and no end is before that.
LEMMA RebasedRange ==
    ASSUME NEW range \in Ranges
    PROVE  /\ Rebase(range) \in Ranges
           /\ Rebase(range).start.line = 0
           /\ Rebase(range).start.character = range.start.character
           /\ Rebase(range).end.line = IF range.end.line < range.start.line THEN 0
                                       ELSE range.end.line - range.start.line
           /\ Rebase(range).end.character = range.end.character
<1>1. /\ range.start.line \in 0..MaxLine /\ range.end.line \in 0..MaxLine
      /\ range.start.character \in 0..MaxCharacter /\ range.end.character \in 0..MaxCharacter
  BY DEF Ranges, Position
<1>2. PICK line : line = IF range.end.line < range.start.line THEN 0
                         ELSE range.end.line - range.start.line
  OBVIOUS
<1>3. line \in 0..MaxLine /\ 0 \in 0..MaxLine
  BY <1>1, <1>2, BoundsAssumption
<1>4. Rebase(range) = [start |-> [line |-> 0, character |-> range.start.character],
                       end |-> [line |-> line, character |-> range.end.character]]
  BY <1>2, Zenon DEF Rebase
<1> QED
  BY <1>1, <1>2, <1>3, <1>4 DEF Ranges, Position

\* An empty part.
LEMMA EmptyPart ==
    ASSUME NEW s, NEW x \in Nat
    PROVE  SubSeq(s, x + 1, x) = <<>>
<1>1. PICK m \in Int : m = x + 1 /\ x < m /\ x \in Int
  OBVIOUS
<1>2. SubSeq(s, m, x) = <<>>
  BY <1>1, SubSeqEmpty
<1> QED
  BY <1>1, <1>2

\* The window of a range is a part of the text between the start of a line and that of a
\* later one, or the end.
LEMMA WindowOfLines ==
    ASSUME NEW text \in Seq(Bytes), WellFormed(text), NEW starts, IsIndexOf(starts, text),
           NEW first \in Nat, NEW last \in Nat, first <= last, first < Len(starts),
           NEW ws, ws = LineStart(starts, first), NEW we, we = NextStart(starts, Len(text), last)
    PROVE  /\ ws \in 0..Len(text) /\ we \in ws..Len(text)
           /\ IsCharBoundary(text, ws) /\ IsCharBoundary(text, we)
<1>1. PICK len \in Nat, size \in Nat : len = Len(text) /\ size = Len(starts) /\ first < size
  BY IndexOrder
<1>2. ws \in 0..len /\ IsCharBoundary(text, ws)
  <2>1. LineIs(text, first, ws, LineEnd(text, starts, first))
    BY LineBounds
  <2> QED
    BY <1>1, <2>1 DEF LineIs
<1>3. CASE last + 1 < size
  <2>1. PICK next \in Nat : next = last + 1 /\ next < Len(starts)
    BY <1>1, <1>3
  <2>2. we = LineStart(starts, next)
    BY <1>1, <1>3, <2>1 DEF NextStart, LineStart
  <2>3. LineIs(text, next, we, LineEnd(text, starts, next))
    BY <2>1, <2>2, LineBounds
  <2>4. we \in 0..len /\ IsCharBoundary(text, we)
    BY <1>1, <2>3 DEF LineIs
  <2>5. ws <= we
    <3>1. PICK k \in 1..Len(starts), j \in 1..Len(starts) :
             k = first + 1 /\ j = next + 1 /\ k - 1 = first /\ j - 1 = next
      BY <1>1, <2>1
    <3>2. LineOf(text, we) = j - 1
      BY <2>2, <3>1, IndexOrder DEF LineStart
    <3>3. ws <= we <=> k - 1 <= LineOf(text, we)
      BY <1>1, <2>4, <3>1, IndexOrder DEF LineStart
    <3> QED
      BY <2>1, <3>1, <3>2, <3>3
  <2> QED
    BY <1>1, <1>2, <2>4, <2>5
<1>4. CASE ~(last + 1 < size)
  <2>1. we = len
    BY <1>1, <1>4 DEF NextStart
  <2> QED
    BY <1>1, <1>2, <2>1 DEF IsCharBoundary
<1> QED
  BY <1>3, <1>4

\* Reading a range through the index of a text is reading it from the text.
LEMMA ReadIsText ==
    ASSUME NEW text \in Seq(Bytes), WellFormed(text), NEW range \in Ranges,
           NEW d, d = NewDocument(text)
    PROVE  read_range(d.line_starts, Len(text), text, range) = text_in_range(d, range)
<1>1. PICK starts : starts = d.line_starts /\ d.text = text /\ IsIndexOf(starts, text)
  BY NewDocumentIs
<1>2. PICK first \in Nat, last \in Nat : first = range.start.line /\ last = range.end.line
  <2>1. range.start \in Position /\ range.end \in Position
    BY DEF Ranges
  <2> QED
    BY <2>1, PositionsAreNumbers
<1>3. /\ range.start.character \in Nat /\ range.end.character \in Nat
      /\ range.start.line \in Nat /\ range.end.line \in Nat
  <2>1. range.start \in Position /\ range.end \in Position
    BY DEF Ranges
  <2> QED
    BY <2>1, PositionsAreNumbers
<1>4. PICK len \in Nat, size \in Nat : len = Len(text) /\ size = Len(starts)
  BY <1>1, IndexOrder
<1>5. PICK o1 \in Nat, o2 \in Nat : /\ o1 = offset_of(d, range.start) /\ o2 = offset_of(d, range.end)
                                    /\ o1 <= len /\ o2 <= len
  <2>1. offset_of(d, range.start) \in 0..Len(text) /\ offset_of(d, range.end) \in 0..Len(text)
    BY <1>1, <1>3, OffsetsAgree
  <2> QED
    BY <1>4, <2>1
<1>6. text_in_range(d, range) = SubSeq(text, o1 + 1, IF o2 < o1 THEN o1 ELSE o2)
  BY <1>1, <1>5 DEF text_in_range, Span
<1>7. CASE ~(first < size)
  <2>1. first >= size
    BY <1>7
  <2>2. o1 = len
    BY <1>1, <1>2, <1>4, <1>5, <2>1 DEF offset_of
  <2>3. (IF o2 < o1 THEN o1 ELSE o2) = o1
    BY <1>5, <2>2
  <2>4. text_in_range(d, range) = <<>>
    BY <1>6, <2>3, EmptyPart
  <2>5. read_range(d.line_starts, Len(text), text, range) = <<>>
    BY <1>1, <1>2, <1>4, <2>1 DEF read_range
  <2> QED
    BY <2>4, <2>5
<1>8. CASE first < size
  <2>1. PICK ws, we : ws = LineStart(starts, first) /\ we = NextStart(starts, len, last)
    OBVIOUS
  <2>2. PICK to : to = IF we < ws THEN ws ELSE we
    OBVIOUS
  <2>3. PICK sub, w : sub = SubSeq(text, ws + 1, to) /\ w = NewDocument(sub)
    OBVIOUS
  <2>4. read_range(d.line_starts, Len(text), text, range) = text_in_range(w, Rebase(range))
    <3>1. ~(range.start.line >= Len(d.line_starts))
      BY <1>1, <1>2, <1>4, <1>8
    <3>2. Window(d.line_starts, Len(text), range) = [start |-> ws, end |-> to]
      BY <1>1, <1>2, <1>4, <2>1, <2>2, Zenon DEF Window, LineStart, NextStart
    <3> QED
      BY <2>3, <3>1, <3>2 DEF read_range
  <2>5. PICK a, b : a = offset_of(w, Rebase(range).start) /\ b = offset_of(w, Rebase(range).end)
    OBVIOUS
  <2>6. CASE last < first
    <3>1. to = ws /\ ws \in 0..len
      <4>1. PICK k \in 1..Len(starts), j \in 1..Len(starts) :
               k = first + 1 /\ j = last + 2 /\ k - 1 = first /\ j - 1 = last + 1
        BY <1>4, <1>8, <2>6
      <4>2. last + 1 < size /\ j - 1 <= first
        BY <1>8, <2>6, <4>1
      <4>3. ws = starts[k] /\ we = starts[j]
        BY <1>4, <2>1, <4>1, <4>2 DEF LineStart, NextStart
      <4>4. ws \in 0..len /\ we \in 0..len /\ LineOf(text, ws) = first
        BY <1>1, <1>4, <4>1, <4>3, IndexOrder
      <4>5. we <= ws
        BY <1>1, <1>4, <4>1, <4>2, <4>3, <4>4, IndexOrder
      <4> QED
        BY <2>2, <4>4, <4>5
    <3>2. sub = <<>>
      BY <2>3, <3>1, EmptyPart
    <3>3. text_in_range(w, Rebase(range)) = <<>>
      <4>1. sub \in Seq(Bytes) /\ Len(sub) = 0
        BY <3>2, EmptySeq
      <4>2. WellFormed(sub)
        <5>1. DOMAIN sub = {} /\ IsCharBoundary(sub, 0)
          BY <4>1, LenProperties DEF IsCharBoundary
        <5> QED
          BY <5>1 DEF WellFormed
      <4>3. PICK span : span = Span(w, Rebase(range))
        OBVIOUS
      <4>4. span.start \in 0..Len(sub) /\ span.end \in span.start..Len(sub)
        BY <2>3, <4>1, <4>2, <4>3, RebasedRange, SpanIsTheEditors
      <4>5. span.start = 0 /\ span.end = 0
        BY <4>1, <4>4
      <4>6. w.text = sub
        BY <2>3, <4>1, NewDocumentIs
      <4> QED
        BY <4>3, <4>5, <4>6, EmptyPart DEF text_in_range
    <3>4. LineOf(text, o1) = first /\ LineOf(text, o2) = last
      <4>1. range.start.line < Len(d.line_starts) /\ range.end.line < Len(d.line_starts)
        BY <1>1, <1>2, <1>4, <1>8, <2>6
      <4> QED
        BY <1>1, <1>2, <1>3, <1>5, <4>1, OffsetIsOnLine
    <3>5. ~(o1 <= o2)
      <4>1. o1 <= o2 => LineOf(text, o1) <= LineOf(text, o2)
        BY LineOfFacts
      <4> QED
        BY <2>6, <3>4, <4>1
    <3>6. text_in_range(d, range) = <<>>
      <4>1. (IF o2 < o1 THEN o1 ELSE o2) = o1
        BY <3>5
      <4> QED
        BY <1>6, <4>1, EmptyPart
    <3> QED
      BY <2>4, <3>3, <3>6
  <2>7. CASE ~(last < first)
    <3>1. first <= last
      BY <2>7
    <3>2. /\ ws \in 0..Len(text) /\ we \in ws..Len(text)
          /\ IsCharBoundary(text, ws) /\ IsCharBoundary(text, we)
      BY <1>1, <1>4, <1>8, <2>1, <3>1, WindowOfLines
    <3>3. ws \in Nat /\ we \in Nat /\ to = we
      BY <1>4, <2>2, <3>2
    <3>4. sub \in Seq(Bytes) /\ IsPart(sub, text, ws, we)
      <4>1. PICK m \in Int : m = ws + 1
        BY <3>3
      <4> QED
        BY <2>3, <3>2, <3>3, <4>1, PartOf
    <3>5. IsWindow(sub, text, ws, we)
      BY <3>2, <3>4 DEF IsWindow, IsPart
    <3>6. w.text = sub /\ IsIndexOf(w.line_starts, sub)
      BY <2>3, <3>4, NewDocumentIs
    <3>7. LineWindow(w.text, d.text, d.line_starts, w.line_starts, first, last, ws, we)
      BY <1>1, <1>4, <1>8, <2>1, <3>1, <3>5, <3>6 DEF LineWindow
    <3>8. ASSUME NEW p, NEW q, SamePosition(p, q, first, last)
          PROVE  SameOffset(d, p, w, q, ws)
      <4>1. /\ d.text \in Seq(Bytes) /\ WellFormed(d.text) /\ IsIndexOf(d.line_starts, d.text)
            /\ w.text \in Seq(Bytes) /\ ws \in Nat /\ we \in Nat
        BY <1>1, <3>3, <3>4, <3>6
      <4> QED
        BY <3>7, <3>8, <4>1, WindowOffset, Zenon
    <3>9. a \in 0..Len(sub) /\ o1 = ws + a
      <4>1. /\ Rebase(range).start.line \in Nat
            /\ Rebase(range).start.character = range.start.character
            /\ range.start.line = first + Rebase(range).start.line
            /\ range.start.line <= last
        BY <1>2, <3>1, RebasedRange
      <4>2. PICK p, q : p = range.start /\ q = Rebase(range).start
        OBVIOUS
      <4>3. SamePosition(p, q, first, last)
        BY <1>3, <4>1, <4>2 DEF SamePosition
      <4>4. SameOffset(d, p, w, q, ws)
        BY <3>8, <4>3
      <4> QED
        BY <1>5, <2>5, <3>6, <4>2, <4>4 DEF SameOffset
    <3>10. b \in 0..Len(sub) /\ o2 = ws + b
      <4>1. PICK rel \in Nat : rel = last - first /\ last = first + rel
        BY <3>1
      <4>2. PICK p, q : p = range.end /\ q = Rebase(range).end
        OBVIOUS
      <4>3. q.line = last - first /\ q.character = p.character
        BY <1>2, <2>7, <4>2, RebasedRange
      <4>4. q.line \in Nat /\ p.line = first + q.line /\ p.line <= last
        <5>1. p.line = last /\ q.line = rel
          BY <1>2, <4>1, <4>2, <4>3
        <5> QED
          BY <3>1, <4>1, <5>1
      <4>5. SamePosition(p, q, first, last)
        BY <1>3, <4>2, <4>3, <4>4 DEF SamePosition
      <4>6. SameOffset(d, p, w, q, ws)
        BY <3>8, <4>5
      <4> QED
        BY <1>5, <2>5, <3>6, <4>2, <4>6 DEF SameOffset
    <3>11. PICK y \in a..Len(sub), z \in Nat : /\ y = (IF b < a THEN a ELSE b)
                                               /\ z = (IF o2 < o1 THEN o1 ELSE o2) /\ z = ws + y
      <4>1. Len(sub) \in Nat
        BY <3>4, LenProperties
      <4> QED
        BY <3>3, <3>9, <3>10, <4>1
    <3>12. text_in_range(w, Rebase(range)) = SubSeq(sub, a + 1, y)
      BY <2>5, <3>6, <3>11 DEF text_in_range, Span
    <3>13. SubSeq(sub, a + 1, y) = SubSeq(text, o1 + 1, z)
      BY <3>3, <3>4, <3>5, <3>9, <3>11, PartOfWindow
    <3> QED
      BY <1>6, <2>4, <3>11, <3>12, <3>13
  <2> QED
    BY <2>6, <2>7
<1> QED
  BY <1>7, <1>8

\* Whatever range is asked for, in or out of the text and with its ends in either order, the
\* lines the index cuts out of the file give what the whole text would.
THEOREM WindowExact ==
    Spec => []WindowIsEnough
<1>1. ASSUME IInv PROVE WindowIsEnough
  <2>1. PICK text \in Seq(Bytes) : text = doc.text /\ doc = NewDocument(text) /\ WellFormed(text)
    BY <1>1 DEF IInv
  <2>2. ASSUME NEW range \in Ranges
        PROVE  read_range(doc.line_starts, Len(doc.text), doc.text, range) = text_in_range(doc, range)
    BY <2>1, ReadIsText
  <2> QED
    BY <2>2 DEF WindowIsEnough
<1> QED
  BY <1>1, MirrorInvariant, PTL
=============================================================================
