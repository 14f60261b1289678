--------------------------- MODULE WordCountProofs ---------------------------
(***************************************************************************)
(* The word count of a job that goes well is right for any text, any       *)
(* number of chunks and any jobs before it.  First what splitting does to  *)
(* a text: if a border cuts no word, the words of a text are those before  *)
(* the border and those after it.  Then how a job gets there: while it     *)
(* goes well only the handler its script waits for is at work, and the     *)
(* counts a reducer has added up are those of a prefix of the text.        *)
(***************************************************************************)
EXTENDS WordCount, TLAPS, FiniteSetTheorems, FunctionTheorems, SequenceTheorems

WordChars == Letters \cup OtherWordChars

\* Two texts put together make no word of their own.
Apart(a, b) == a # <<>> /\ b # <<>> => ~ {a[Len(a)], b[1]} \subseteq WordChars

\* The matches of b where b follows n characters.
Shift(M, n) == {<<m[1] + n, m[2] + n>> : m \in M}

WordAt(t, m) == SubSeq(t, m[1], m[2])

\* The characters x .. y are letters, with no word character beside them.
IsRun(t, x, y) ==
  /\ x \in 1 .. Len(t) /\ y \in 1 .. Len(t) /\ x <= y
  /\ \A i \in x .. y : t[i] \in Letters
  /\ x > 1 => t[x - 1] \notin WordChars
  /\ y < Len(t) => t[y + 1] \notin WordChars

MatchesOf(t, w) == {m \in Matches(t) : WordAt(t, m) = w}

-----------------------------------------------------------------------------
(* Words of a text put together *)

\* A match of the regular expression is a whole run of letters, ...
LEMMA MatchIsRun ==
  ASSUME NEW t \in Seq(Characters), NEW m \in Matches(t)
  PROVE  \E x, y \in 1 .. Len(t) : m = <<x, y>> /\ IsRun(t, x, y)
<1>1. PICK x \in 1 .. Len(t), y \in 1 .. Len(t) : m = <<x, y>>
  BY DEF Matches
<1>2. /\ x <= y
      /\ \A i \in x .. y : t[i] \in Letters
      /\ \A i \in {x - 1, y + 1} \cap DOMAIN t : t[i] \notin WordChars
  BY <1>1 DEF Matches, WordChars
<1>3. IsRun(t, x, y)
  BY <1>1, <1>2 DEF IsRun
<1> QED BY <1>1, <1>3

\* ... and every such run is a match.
LEMMA RunIsMatch ==
  ASSUME NEW t \in Seq(Characters), NEW x, NEW y, IsRun(t, x, y)
  PROVE  <<x, y>> \in Matches(t)
<1>1. \A i \in {x - 1, y + 1} \cap DOMAIN t : t[i] \notin Letters \cup OtherWordChars
  BY DEF IsRun, WordChars
<1> QED BY <1>1 DEF Matches, IsRun

LEMMA FiniteMatches ==
  ASSUME NEW t \in Seq(Characters)
  PROVE  IsFiniteSet(Matches(t))
<1>1. Len(t) \in Nat /\ DOMAIN t = 1 .. Len(t)
  OBVIOUS
<1>2. IsFiniteSet(1 .. Len(t))
  BY <1>1, FS_Interval
<1>3. IsFiniteSet((1 .. Len(t)) \X (1 .. Len(t)))
  BY <1>2, FS_Product
<1>4. Matches(t) \subseteq (1 .. Len(t)) \X (1 .. Len(t))
  BY <1>1 DEF Matches
<1> QED BY <1>3, <1>4, FS_Subset

\* The matches of two texts put together that are apart.
LEMMA MatchesOfConcat ==
  ASSUME NEW a \in Seq(Characters), NEW b \in Seq(Characters), Apart(a, b)
  PROVE  Matches(a \o b) = Matches(a) \cup Shift(Matches(b), Len(a))
<1>0. a \o b \in Seq(Characters) /\ Len(a) \in Nat
  OBVIOUS
<1>. PICK s \in Seq(Characters), n \in Nat : s = a \o b /\ n = Len(a)
  BY <1>0
<1>1. /\ s \in Seq(Characters) /\ n \in Nat /\ Len(b) \in Nat /\ Len(s) = n + Len(b)
      /\ \A i \in 1 .. n : s[i] = a[i]
      /\ \A i \in 1 .. Len(b) : s[i + n] = b[i]
  OBVIOUS
<1>2. n >= 1 /\ Len(b) >= 1 => s[n] \notin WordChars \/ s[n + 1] \notin WordChars
  <2>1. SUFFICES ASSUME n >= 1, Len(b) >= 1 PROVE ~ {a[n], b[1]} \subseteq WordChars
    BY <1>1
  <2> QED BY <2>1 DEF Apart
<1>3. ASSUME NEW x \in Int, NEW y \in Int, IsRun(s, x, y)
      PROVE  IsRun(a, x, y) \/ IsRun(b, x - n, y - n)
  <2>1. CASE y <= n
    BY <1>1, <1>3, <2>1 DEF IsRun
  <2>2. CASE x > n
    <3>1. /\ x - n \in 1 .. Len(b) /\ y - n \in 1 .. Len(b) /\ x - n <= y - n
      BY <1>1, <1>3, <2>2 DEF IsRun
    <3>2. \A i \in x - n .. y - n : b[i] \in Letters
      <4>1. TAKE i \in x - n .. y - n
      <4>2. i + n \in x .. y /\ i \in 1 .. Len(b)
        BY <1>1, <3>1
      <4> QED BY <1>1, <1>3, <4>2 DEF IsRun
    <3>3. x - n > 1 => b[(x - n) - 1] \notin WordChars
      <4>1. SUFFICES ASSUME x - n > 1 PROVE b[(x - n) - 1] \notin WordChars
        OBVIOUS
      <4>2. (x - n) - 1 \in 1 .. Len(b) /\ ((x - n) - 1) + n = x - 1 /\ x > 1
        BY <1>1, <3>1, <4>1
      <4> QED BY <1>1, <1>3, <4>2 DEF IsRun
    <3>4. y - n < Len(b) => b[(y - n) + 1] \notin WordChars
      <4>1. SUFFICES ASSUME y - n < Len(b) PROVE b[(y - n) + 1] \notin WordChars
        OBVIOUS
      <4>2. (y - n) + 1 \in 1 .. Len(b) /\ ((y - n) + 1) + n = y + 1 /\ y < Len(s)
        BY <1>1, <3>1, <4>1
      <4> QED BY <1>1, <1>3, <4>2 DEF IsRun
    <3> QED BY <3>1, <3>2, <3>3, <3>4 DEF IsRun
  <2>3. CASE x <= n /\ y > n
    <3>1. n \in x .. y /\ n + 1 \in x .. y /\ n >= 1 /\ Len(b) >= 1
      BY <1>1, <1>3, <2>3 DEF IsRun
    <3>2. s[n] \in WordChars /\ s[n + 1] \in WordChars
      BY <1>3, <3>1 DEF IsRun, WordChars
    <3> QED BY <1>2, <3>1, <3>2
  <2> QED BY <1>1, <2>1, <2>2, <2>3
<1>4. ASSUME NEW x, NEW y, IsRun(a, x, y) PROVE IsRun(s, x, y)
  <2>1. /\ x \in 1 .. Len(s) /\ y \in 1 .. Len(s) /\ x <= y
        /\ \A i \in x .. y : s[i] \in Letters
        /\ x > 1 => s[x - 1] \notin WordChars
    BY <1>1, <1>4 DEF IsRun
  <2>2. y < Len(s) => s[y + 1] \notin WordChars
    <3>1. CASE y < n
      BY <1>1, <1>4, <3>1 DEF IsRun
    <3>2. CASE y = n
      BY <1>1, <1>2, <1>4, <3>2 DEF IsRun, WordChars
    <3> QED BY <1>1, <1>4, <3>1, <3>2 DEF IsRun
  <2> QED BY <2>1, <2>2 DEF IsRun
<1>5. ASSUME NEW x \in Int, NEW y \in Int, IsRun(b, x, y) PROVE IsRun(s, x + n, y + n)
  <2>1. /\ x + n \in 1 .. Len(s) /\ y + n \in 1 .. Len(s) /\ x + n <= y + n
    BY <1>1, <1>5 DEF IsRun
  <2>2. \A i \in x + n .. y + n : s[i] \in Letters
    <3>1. TAKE i \in x + n .. y + n
    <3>2. i - n \in x .. y /\ i - n \in 1 .. Len(b) /\ (i - n) + n = i
      BY <1>1, <1>5 DEF IsRun
    <3> QED BY <1>1, <1>5, <3>2 DEF IsRun
  <2>3. x + n > 1 => s[(x + n) - 1] \notin WordChars
    <3>1. CASE x > 1
      <4>1. x - 1 \in 1 .. Len(b) /\ (x - 1) + n = (x + n) - 1
        BY <1>1, <1>5, <3>1 DEF IsRun
      <4> QED BY <1>1, <1>5, <3>1, <4>1 DEF IsRun
    <3>2. CASE x = 1
      <4>1. s[n + 1] \in WordChars
        BY <1>1, <1>5, <3>2 DEF IsRun, WordChars
      <4> QED BY <1>1, <1>2, <1>5, <3>2, <4>1 DEF IsRun
    <3> QED BY <1>5, <3>1, <3>2 DEF IsRun
  <2>4. y + n < Len(s) => s[(y + n) + 1] \notin WordChars
    <3>1. SUFFICES ASSUME y + n < Len(s) PROVE s[(y + n) + 1] \notin WordChars
      OBVIOUS
    <3>2. y < Len(b) /\ y + 1 \in 1 .. Len(b) /\ (y + 1) + n = (y + n) + 1
      BY <1>1, <1>5, <3>1 DEF IsRun
    <3> QED BY <1>1, <1>5, <3>2 DEF IsRun
  <2> QED BY <2>1, <2>2, <2>3, <2>4 DEF IsRun
<1>6. ASSUME NEW m \in Matches(s) PROVE m \in Matches(a) \cup Shift(Matches(b), n)
  <2>1. PICK x \in 1 .. Len(s), y \in 1 .. Len(s) : m = <<x, y>> /\ IsRun(s, x, y)
    BY <1>1, <1>6, MatchIsRun
  <2>2. x \in Int /\ y \in Int
    BY <1>1, <2>1
  <2>3. CASE IsRun(a, x, y)
    BY <2>1, <2>3, RunIsMatch
  <2>4. CASE IsRun(b, x - n, y - n)
    <3>1. <<x - n, y - n>> \in Matches(b)
      BY <2>4, RunIsMatch
    <3>2. <<(x - n) + n, (y - n) + n>> \in Shift(Matches(b), n)
      <4>1. \A m1, m2 : <<m1, m2>>[1] = m1 /\ <<m1, m2>>[2] = m2
        OBVIOUS
      <4>2. \A k \in Matches(b) : <<k[1] + n, k[2] + n>> \in Shift(Matches(b), n)
        BY DEF Shift
      <4> QED BY <3>1, <4>1, <4>2
    <3> QED BY <1>1, <2>1, <2>2, <3>2
  <2> QED BY <1>3, <2>1, <2>2, <2>3, <2>4
<1>7. ASSUME NEW m \in Matches(a) PROVE m \in Matches(s)
  <2>1. PICK x \in 1 .. Len(a), y \in 1 .. Len(a) : m = <<x, y>> /\ IsRun(a, x, y)
    BY <1>7, MatchIsRun
  <2> QED BY <1>1, <1>4, <2>1, RunIsMatch
<1>8. ASSUME NEW k \in Matches(b) PROVE <<k[1] + n, k[2] + n>> \in Matches(s)
  <2>1. PICK x \in 1 .. Len(b), y \in 1 .. Len(b) : k = <<x, y>> /\ IsRun(b, x, y)
    BY <1>8, MatchIsRun
  <2>2. x \in Int /\ y \in Int
    BY <1>1, <2>1
  <2>3. IsRun(s, x + n, y + n)
    BY <1>5, <2>1, <2>2
  <2> QED BY <1>1, <2>1, <2>3, RunIsMatch
<1>9. Matches(s) = Matches(a) \cup Shift(Matches(b), n)
  BY <1>6, <1>7, <1>8 DEF Shift
<1> QED BY <1>9

-----------------------------------------------------------------------------
(* Counts of a text put together *)

\* What the table of a chunk says of a word it has.
LEMMA CountWordsAt ==
  ASSUME NEW t \in Seq(Characters)
  PROVE  /\ DOMAIN CountWords(t) = {WordAt(t, m) : m \in Matches(t)}
         /\ \A w : w \in DOMAIN CountWords(t) <=> MatchesOf(t, w) # {}
         /\ \A w \in DOMAIN CountWords(t) : CountWords(t)[w] = Cardinality(MatchesOf(t, w))
         /\ CountWords(t) = [w \in DOMAIN CountWords(t) |-> CountWords(t)[w]]
BY DEF CountWords, WordAt, MatchesOf

\* A word's count is the number of its matches, none where it is not counted.
LEMMA CountOfWord ==
  ASSUME NEW t \in Seq(Characters), NEW w
  PROVE  /\ IsFiniteSet(MatchesOf(t, w)) /\ Cardinality(MatchesOf(t, w)) \in Nat
         /\ (IF w \in DOMAIN CountWords(t) THEN CountWords(t)[w] ELSE 0)
              = Cardinality(MatchesOf(t, w))
<1>1. IsFiniteSet(MatchesOf(t, w))
  BY FiniteMatches, FS_Subset DEF MatchesOf
<1>2. Cardinality(MatchesOf(t, w)) \in Nat
  BY <1>1, FS_CardinalityType
<1>3. CASE w \in DOMAIN CountWords(t)
  BY <1>1, <1>2, <1>3, CountWordsAt
<1>4. CASE w \notin DOMAIN CountWords(t)
  <2>1. MatchesOf(t, w) = {}
    BY <1>4, CountWordsAt
  <2> QED BY <1>1, <1>2, <1>4, <2>1, FS_EmptySet
<1> QED BY <1>3, <1>4

\* The matches of one word in two texts that are apart, when put together.
LEMMA MatchesOfWordOfConcat ==
  ASSUME NEW a \in Seq(Characters), NEW b \in Seq(Characters), Apart(a, b), NEW w
  PROVE  /\ MatchesOf(a \o b, w) = MatchesOf(a, w) \cup Shift(MatchesOf(b, w), Len(a))
         /\ MatchesOf(a, w) \cap Shift(MatchesOf(b, w), Len(a)) = {}
<1>0. a \o b \in Seq(Characters) /\ Len(a) \in Nat
  OBVIOUS
<1>. PICK s \in Seq(Characters), n \in Nat : s = a \o b /\ n = Len(a)
  BY <1>0
<1>1. s \in Seq(Characters) /\ n \in Nat /\ Len(b) \in Nat
  OBVIOUS
<1>2. ASSUME NEW m \in Matches(a) PROVE m[2] <= n /\ WordAt(s, m) = WordAt(a, m)
  <2>1. PICK x \in 1 .. Len(a), y \in 1 .. Len(a) : m = <<x, y>> /\ IsRun(a, x, y)
    BY <1>2, MatchIsRun
  <2>2. SubSeq(a \o b, x, y) = SubSeq(a, x, y)
    BY <2>1, SubSeqOfConcat1
  <2> QED BY <1>1, <2>1, <2>2 DEF WordAt
<1>3. ASSUME NEW k \in Matches(b)
      PROVE  k[2] + n > n /\ WordAt(s, <<k[1] + n, k[2] + n>>) = WordAt(b, k)
  <2>1. PICK x \in 1 .. Len(b), y \in 1 .. Len(b) : k = <<x, y>> /\ IsRun(b, x, y)
    BY <1>3, MatchIsRun
  <2>2. x + n \in Len(a) + 1 .. Len(a) + Len(b) /\ y + n \in Len(a) + 1 .. Len(a) + Len(b)
    BY <1>1, <2>1
  <2>3. SubSeq(a \o b, x + n, y + n) = SubSeq(b, (x + n) - Len(a), (y + n) - Len(a))
    BY <2>2, SubSeqOfConcat2
  <2>4. (x + n) - Len(a) = x /\ (y + n) - Len(a) = y
    BY <1>1, <2>1
  <2> QED BY <1>1, <2>1, <2>2, <2>3, <2>4 DEF WordAt
<1>4. Matches(s) = Matches(a) \cup Shift(Matches(b), n)
  BY MatchesOfConcat
<1>5. MatchesOf(s, w) = MatchesOf(a, w) \cup Shift(MatchesOf(b, w), n)
  <2>1. \A m \in Shift(Matches(b), n) :
          WordAt(s, m) = w <=> m \in Shift(MatchesOf(b, w), n)
    <3>1. TAKE m \in Shift(Matches(b), n)
    <3>2. PICK k \in Matches(b) : m = <<k[1] + n, k[2] + n>>
      BY <3>1 DEF Shift
    <3>3. ASSUME WordAt(s, m) = w PROVE m \in Shift(MatchesOf(b, w), n)
      BY <1>3, <3>2, <3>3 DEF Shift, MatchesOf
    <3>4. ASSUME m \in Shift(MatchesOf(b, w), n) PROVE WordAt(s, m) = w
      <4>1. PICK l \in MatchesOf(b, w) : m = <<l[1] + n, l[2] + n>>
        BY <3>4 DEF Shift
      <4> QED BY <1>3, <4>1 DEF MatchesOf
    <3> QED BY <3>3, <3>4
  <2>2. \A m \in Matches(a) : WordAt(s, m) = w <=> m \in MatchesOf(a, w)
    BY <1>2 DEF MatchesOf
  <2>3. MatchesOf(a, w) \subseteq Matches(a)
    BY DEF MatchesOf
  <2>4. Shift(MatchesOf(b, w), n) \subseteq Shift(Matches(b), n)
    BY DEF MatchesOf, Shift
  <2>5. \A m : m \in MatchesOf(s, w) <=> m \in Matches(s) /\ WordAt(s, m) = w
    BY DEF MatchesOf
  <2> QED BY <1>4, <2>1, <2>2, <2>3, <2>4, <2>5
<1>6. ASSUME NEW m \in MatchesOf(a, w), m \in Shift(MatchesOf(b, w), n) PROVE FALSE
  <2>1. PICK k \in MatchesOf(b, w) : m = <<k[1] + n, k[2] + n>>
    BY <1>6 DEF Shift
  <2>2. k \in Matches(b) /\ m \in Matches(a)
    BY <1>6, <2>1 DEF MatchesOf
  <2>3. m[2] = k[2] + n
    BY <2>1
  <2>4. m[2] <= n /\ k[2] + n > n
    BY <1>2, <1>3, <2>2
  <2>5. k[2] \in Int
    BY <2>2, MatchIsRun
  <2> QED BY <1>1, <2>3, <2>4, <2>5
<1> QED BY <1>5, <1>6

\* Moving matches along the text loses none.
LEMMA ShiftKeepsCardinality ==
  ASSUME NEW b \in Seq(Characters), NEW n \in Nat, NEW w
  PROVE  /\ IsFiniteSet(Shift(MatchesOf(b, w), n))
         /\ Cardinality(Shift(MatchesOf(b, w), n)) = Cardinality(MatchesOf(b, w))
<1> DEFINE M == MatchesOf(b, w)
           f == [m \in M |-> <<m[1] + n, m[2] + n>>]
<1>1. IsFiniteSet(M)
  BY CountOfWord
<1>2. \A m \in M : \E x, y \in Int : m = <<x, y>>
  BY MatchIsRun DEF MatchesOf
<1>3. f \in [M -> Shift(M, n)] /\ \A t \in Shift(M, n) : \E m \in M : f[m] = t
  BY DEF Shift
<1>4. \A k, m \in M : f[k] = f[m] => k = m
  <2>1. TAKE k, m \in M
  <2>2. HAVE f[k] = f[m]
  <2>3. PICK x \in Int, y \in Int, u \in Int, v \in Int : k = <<x, y>> /\ m = <<u, v>>
    BY <1>2
  <2>4. <<x + n, y + n>> = <<u + n, v + n>>
    BY <2>2, <2>3
  <2>5. x + n = u + n /\ y + n = v + n
    BY <2>4
  <2> QED BY <2>3, <2>5
<1>5. f \in Surjection(M, Shift(M, n)) /\ f \in Injection(M, Shift(M, n))
  BY <1>3, <1>4, Fun_IsSurj, Fun_IsInj
<1> QED BY <1>1, <1>5, FS_Surjection

\* The words of two texts put together that are apart are added up.
THEOREM CountWordsOfConcat ==
  ASSUME NEW a \in Seq(Characters), NEW b \in Seq(Characters), Apart(a, b)
  PROVE  CountWords(a \o b) = Sum(CountWords(a), CountWords(b))
<1>0. a \o b \in Seq(Characters) /\ Len(a) \in Nat
  OBVIOUS
<1>1. PICK s \in Seq(Characters), n \in Nat : s = a \o b /\ n = Len(a)
  BY <1>0
<1>2. ASSUME NEW w
      PROVE  /\ MatchesOf(s, w) # {} <=> MatchesOf(a, w) # {} \/ MatchesOf(b, w) # {}
             /\ Cardinality(MatchesOf(s, w))
                  = Cardinality(MatchesOf(a, w)) + Cardinality(MatchesOf(b, w))
  <2>1. /\ MatchesOf(s, w) = MatchesOf(a, w) \cup Shift(MatchesOf(b, w), n)
        /\ MatchesOf(a, w) \cap Shift(MatchesOf(b, w), n) = {}
    BY <1>1, MatchesOfWordOfConcat
  <2>2. /\ IsFiniteSet(Shift(MatchesOf(b, w), n))
        /\ Cardinality(Shift(MatchesOf(b, w), n)) = Cardinality(MatchesOf(b, w))
    BY <1>1, ShiftKeepsCardinality
  <2>3. IsFiniteSet(MatchesOf(a, w)) /\ Cardinality(MatchesOf(a, w)) \in Nat
        /\ Cardinality(MatchesOf(b, w)) \in Nat
    BY CountOfWord
  <2>4. Cardinality(MatchesOf(s, w))
          = Cardinality(MatchesOf(a, w)) + Cardinality(MatchesOf(b, w))
    <3>1. Cardinality(MatchesOf(a, w) \cup Shift(MatchesOf(b, w), n))
            = Cardinality(MatchesOf(a, w)) + Cardinality(Shift(MatchesOf(b, w), n))
              - Cardinality(MatchesOf(a, w) \cap Shift(MatchesOf(b, w), n))
      BY <2>2, <2>3, FS_Union
    <3>2. Cardinality(MatchesOf(a, w) \cap Shift(MatchesOf(b, w), n)) = 0
      BY <2>1, FS_EmptySet
    <3> QED BY <2>1, <2>2, <2>3, <3>1, <3>2
  <2>5. Shift(MatchesOf(b, w), n) # {} <=> MatchesOf(b, w) # {}
    BY DEF Shift
  <2> QED BY <2>1, <2>4, <2>5
<1>3. DOMAIN CountWords(s) = DOMAIN CountWords(a) \cup DOMAIN CountWords(b)
  <2>1. \A w : w \in DOMAIN CountWords(s) <=>
                 w \in DOMAIN CountWords(a) \/ w \in DOMAIN CountWords(b)
    BY <1>1, <1>2, CountWordsAt
  <2> QED BY <2>1
<1>4. ASSUME NEW w \in DOMAIN CountWords(s)
      PROVE  CountWords(s)[w]
               = (IF w \in DOMAIN CountWords(a) THEN CountWords(a)[w] ELSE 0)
                 + (IF w \in DOMAIN CountWords(b) THEN CountWords(b)[w] ELSE 0)
  <2>1. CountWords(s)[w] = Cardinality(MatchesOf(s, w))
    BY <1>1, <1>4, CountWordsAt
  <2>2. /\ (IF w \in DOMAIN CountWords(a) THEN CountWords(a)[w] ELSE 0)
             = Cardinality(MatchesOf(a, w))
        /\ (IF w \in DOMAIN CountWords(b) THEN CountWords(b)[w] ELSE 0)
             = Cardinality(MatchesOf(b, w))
    BY CountOfWord
  <2> QED BY <1>2, <2>1, <2>2
<1>5. CountWords(s) = [w \in DOMAIN CountWords(s) |-> CountWords(s)[w]]
  BY <1>1, CountWordsAt
<1> QED BY <1>1, <1>3, <1>4, <1>5 DEF Sum

-----------------------------------------------------------------------------
(* Chunks of a text *)

Border(t, n, i) ==
  IF i * ChunkSize(t, n) < Len(t) THEN i * ChunkSize(t, n) ELSE Len(t)

\* The first i chunks of t.
Prefix(t, n, i) == SubSeq(t, 1, Border(t, n, i))

\* Chunks of this size, as many as asked for, hold the whole text.
LEMMA ChunkSizeProperties ==
  ASSUME NEW t \in Seq(Characters), NEW n \in Nat \ {0}
  PROVE  /\ ChunkSize(t, n) \in Nat
         /\ n * ChunkSize(t, n) >= Len(t)
<1>1. Len(t) \in Nat
  OBVIOUS
<1>2. \A x \in Nat : /\ x \div n \in Nat
                     /\ x < n * (x \div n) + n
  OBVIOUS
<1>3. Len(t) + n - 1 \in Nat
  BY <1>1
<1>4. n * ChunkSize(t, n) \in Int
  BY <1>2, <1>3 DEF ChunkSize
<1> QED BY <1>1, <1>2, <1>3, <1>4 DEF ChunkSize

\* Borders lie within the text, one after the other.
LEMMA BorderProperties ==
  ASSUME NEW t \in Seq(Characters), NEW n \in Nat \ {0}, NEW i \in Nat
  PROVE  /\ i * ChunkSize(t, n) \in Nat /\ (i + 1) * ChunkSize(t, n) \in Nat
         /\ (i + 1) * ChunkSize(t, n) = i * ChunkSize(t, n) + ChunkSize(t, n)
         /\ Border(t, n, i) \in 0 .. Len(t)
         /\ Border(t, n, i + 1) \in Border(t, n, i) .. Len(t)
<1>. PICK size \in Nat : size = ChunkSize(t, n)
  BY ChunkSizeProperties
<1>1. Len(t) \in Nat
  OBVIOUS
<1>2. i * size \in Nat /\ (i + 1) * size \in Nat /\ (i + 1) * size = i * size + size
  BY <1>1
<1> QED BY <1>1, <1>2 DEF Border

\* No chunk is the empty text, all chunks are the text.
LEMMA PrefixProperties ==
  ASSUME NEW t \in Seq(Characters), NEW n \in Nat \ {0}
  PROVE  /\ Prefix(t, n, 0) = <<>>
         /\ Prefix(t, n, n) = t
         /\ \A i \in Nat : Prefix(t, n, i) \in Seq(Characters)
<1>1. ChunkSize(t, n) \in Nat /\ Len(t) \in Nat /\ n * ChunkSize(t, n) >= Len(t)
  BY ChunkSizeProperties
<1>2. Border(t, n, 0) = 0
  BY <1>1 DEF Border
<1>3. Border(t, n, n) = Len(t)
  BY <1>1 DEF Border
<1>4. ASSUME NEW i \in Nat PROVE Prefix(t, n, i) \in Seq(Characters)
  <2>1. Border(t, n, i) \in 0 .. Len(t)
    BY BorderProperties
  <2>2. \A k \in 1 .. Border(t, n, i) : t[k] \in Characters
    BY <1>1, <2>1
  <2> QED BY <1>1, <2>1, <2>2, SubSeqProperties DEF Prefix
<1>5. SubSeq(t, 1, 0) = <<>>
  BY SubSeqEmpty
<1> QED BY <1>2, <1>3, <1>4, <1>5, SubSeqFull DEF Prefix

\* Chunk i follows the chunks before it, even where these hold the whole text.
LEMMA PrefixGrows ==
  ASSUME NEW t \in Seq(Characters), NEW n \in Nat \ {0}, NEW i \in Nat
  PROVE  /\ ChunkOf(t, n, i) \in Seq(Characters)
         /\ Prefix(t, n, i + 1) = Prefix(t, n, i) \o ChunkOf(t, n, i)
<1>i. i \in Nat /\ Len(t) \in Nat
  OBVIOUS
<1>0. /\ i * ChunkSize(t, n) \in Nat /\ (i + 1) * ChunkSize(t, n) \in Nat
      /\ Border(t, n, i) \in 0 .. Len(t)
      /\ Border(t, n, i + 1) \in Border(t, n, i) .. Len(t)
  BY <1>i, BorderProperties
<1>1. PICK p \in Nat, q \in Nat : p = i * ChunkSize(t, n) /\ q = (i + 1) * ChunkSize(t, n)
  BY <1>0
<1>2. /\ Len(t) \in Nat
      /\ Border(t, n, i) \in 0 .. Len(t)
      /\ Border(t, n, i + 1) \in Border(t, n, i) .. Len(t)
  BY <1>i, <1>0
<1>3. ChunkOf(t, n, i) = SubSeq(t, p + 1, Border(t, n, i + 1))
  BY <1>1 DEF ChunkOf, Border
<1>4. ChunkOf(t, n, i) \in Seq(Characters)
  <2>1. \A k \in p + 1 .. Border(t, n, i + 1) : t[k] \in Characters
    BY <1>2
  <2> QED BY <1>2, <1>3, <2>1, SubSeqProperties
<1>5. CASE p <= Len(t)
  <2>1. Border(t, n, i) = p
    BY <1>1, <1>2, <1>5 DEF Border
  <2>2. SubSeq(t, 1, p) \o SubSeq(t, p + 1, Border(t, n, i + 1))
          = SubSeq(t, 1, Border(t, n, i + 1))
    <3>1. PICK k \in 0 .. Len(t), e \in 0 .. Len(t) :
            k = p /\ e = Border(t, n, i + 1) /\ k <= e
      BY <1>2, <2>1
    <3>2. e \in k .. Len(t) /\ 1 \in 1 .. Len(t) + 1 /\ k \in 1 - 1 .. Len(t)
      BY <1>2, <3>1
    <3>3. SubSeq(t, 1, k) \o SubSeq(t, k + 1, e) = SubSeq(t, 1, e)
      BY <3>2, ConcatAdjacentSubSeq
    <3> QED BY <3>1, <3>3
  <2> QED BY <1>3, <1>4, <2>1, <2>2 DEF Prefix
<1>6. CASE p > Len(t)
  <2>1. Border(t, n, i) = Len(t) /\ Border(t, n, i + 1) = Len(t)
    BY <1>1, <1>2, <1>6 DEF Border
  <2>2. ChunkOf(t, n, i) = <<>>
    BY <1>2, <1>3, <1>6, <2>1, SubSeqEmpty
  <2>3. Prefix(t, n, i) \in Seq(Characters)
    BY PrefixProperties
  <2> QED BY <1>4, <2>1, <2>2, <2>3, ConcatEmptySeq DEF Prefix
<1> QED BY <1>2, <1>5, <1>6

\* Where no border cuts a word, the chunks before it and the next are apart.
LEMMA BorderCutsNoWord ==
  ASSUME NEW t \in Seq(Characters), NEW n \in Nat \ {0}, CutsNoWord(t, n), NEW i \in 0 .. n - 1
  PROVE  Apart(Prefix(t, n, i), ChunkOf(t, n, i))
<1>i. i \in Nat /\ Len(t) \in Nat
  OBVIOUS
<1>0. /\ i * ChunkSize(t, n) \in Nat /\ (i + 1) * ChunkSize(t, n) \in Nat
      /\ Border(t, n, i) \in 0 .. Len(t)
      /\ Border(t, n, i + 1) \in Border(t, n, i) .. Len(t)
  BY <1>i, BorderProperties
<1>1. PICK p \in Nat, q \in Nat : p = i * ChunkSize(t, n) /\ q = (i + 1) * ChunkSize(t, n)
  BY <1>0
<1>2. /\ Len(t) \in Nat
      /\ Border(t, n, i) \in 0 .. Len(t)
      /\ Border(t, n, i + 1) \in Border(t, n, i) .. Len(t)
  BY <1>i, <1>0
<1>3. ChunkOf(t, n, i) = SubSeq(t, p + 1, Border(t, n, i + 1))
  BY <1>1 DEF ChunkOf, Border
<1>4. SUFFICES ASSUME Prefix(t, n, i) # <<>>, ChunkOf(t, n, i) # <<>>
               PROVE  ~ {Prefix(t, n, i)[Len(Prefix(t, n, i))], ChunkOf(t, n, i)[1]} \subseteq WordChars
  BY DEF Apart
<1>5. p + 1 <= Border(t, n, i + 1)
  BY <1>2, <1>3, <1>4, SubSeqEmpty
<1>6. Border(t, n, i) = p
  BY <1>1, <1>2, <1>5 DEF Border
<1>7. p >= 1
  BY <1>2, <1>4, <1>6, SubSeqEmpty DEF Prefix
<1>8. i \in 1 .. n - 1
  <2>1. ChunkSize(t, n) \in Nat
    BY ChunkSizeProperties
  <2> QED BY <1>1, <1>7, <2>1
<1>9. p \in 1 .. Len(t) - 1
  BY <1>2, <1>5, <1>7
<1>10. ~ {t[p], t[p + 1]} \subseteq WordChars
  BY <1>1, <1>8, <1>9 DEF CutsNoWord, WordChars
<1>11. \A k \in 1 .. Len(t) : t[k] \in Characters
  OBVIOUS
<1>12. Len(Prefix(t, n, i)) = p /\ Prefix(t, n, i)[p] = t[p]
  BY <1>6, <1>9, <1>11, SubSeqProperties DEF Prefix
<1>13. ChunkOf(t, n, i)[1] = t[p + 1]
  BY <1>2, <1>3, <1>5, <1>11, SubSeqProperties
<1> QED BY <1>10, <1>12, <1>13

-----------------------------------------------------------------------------
(* Counts *)

Counts == UNION {[W -> Nat] : W \in SUBSET Seq(Characters)}

LEMMA CountWordsType ==
  ASSUME NEW t \in Seq(Characters)
  PROVE  CountWords(t) \in Counts
<1>1. ASSUME NEW w \in DOMAIN CountWords(t) PROVE CountWords(t)[w] \in Nat /\ w \in Seq(Characters)
  <2>1. CountWords(t)[w] \in Nat
    BY <1>1, CountOfWord
  <2>2. PICK m \in Matches(t) : w = WordAt(t, m)
    BY <1>1, CountWordsAt
  <2>3. PICK x \in 1 .. Len(t), y \in 1 .. Len(t) : m = <<x, y>>
    BY <2>2, MatchIsRun
  <2>4. \A k \in x .. y : t[k] \in Characters
    BY <2>3
  <2>5. SubSeq(t, x, y) \in Seq(Characters)
    BY <2>3, <2>4, SubSeqProperties
  <2> QED BY <2>1, <2>2, <2>3, <2>5 DEF WordAt
<1>2. CountWords(t) = [w \in DOMAIN CountWords(t) |-> CountWords(t)[w]]
  BY CountWordsAt
<1>3. CountWords(t) \in [DOMAIN CountWords(t) -> Nat]
  BY <1>1, <1>2
<1>4. DOMAIN CountWords(t) \in SUBSET Seq(Characters)
  BY <1>1
<1> QED BY <1>3, <1>4 DEF Counts

LEMMA SumType ==
  ASSUME NEW f \in Counts, NEW g \in Counts
  PROVE  Sum(f, g) \in Counts
<1>1. PICK V \in SUBSET Seq(Characters), W \in SUBSET Seq(Characters) :
        f \in [V -> Nat] /\ g \in [W -> Nat]
  BY DEF Counts
<1>2. Sum(f, g) \in [V \cup W -> Nat]
  BY <1>1 DEF Sum
<1>3. V \cup W \in SUBSET Seq(Characters)
  OBVIOUS
<1> QED BY <1>2, <1>3 DEF Counts

-----------------------------------------------------------------------------
(* Jobs *)

Call == [job : Jobs, step : Nat, next : Nat, text : SUBSET Seq(Characters), words : Counts]

WordTypes ==
  /\ text \in [Jobs -> Seq(Characters)]
  /\ input \in SUBSET Seq(Characters)
  /\ chunk \in [Numbers -> SUBSET Seq(Characters)]
  /\ mapped \in [Numbers -> SUBSET Counts]
  /\ final \in SUBSET Counts
  /\ job \in [Jobs -> [step : Nat, well : BOOLEAN, words : SUBSET Counts]]
  /\ calls \in SUBSET Call
  /\ \A h \in calls : 1 <= h.step /\ h.step < DownloadStep(h.job)

\* One script runs at a time, and about the text that is there.
ScriptsInv ==
  /\ \A j, k \in Jobs : UnderWay(j) /\ UnderWay(k) => j = k
  /\ \A j \in Jobs : UnderWay(j) => input = {text[j]}

GoesWell(j) == UnderWay(j) /\ job[j].well

\* While a job goes well only the call its script waits for is at work.
Alone ==
  \A j \in Jobs : GoesWell(j) =>
    \A h \in calls : calls = {h} /\ h.job = j /\ WaitsFor(h)

ChunkIsRight(j, i) == chunk[i] = {ChunkOf(text[j], Chunks[j], i)}

MappedIsRight(j, i) == mapped[i] = {CountWords(ChunkOf(text[j], Chunks[j], i))}

FinalIsRight(j) == CutsNoWord(text[j], Chunks[j]) => final = {CountWords(text[j])}

\* What a job that goes well has in the bucket when its script is at step k.
Progress(j) ==
  LET k == job[j].step IN
    /\ 1 < k /\ k <= Chunks[j] + 1 => \A i \in 0 .. Chunks[j] - 1 : ChunkIsRight(j, i)
    /\ \A i \in 0 .. Chunks[j] - 1 : i + 2 < k => MappedIsRight(j, i)
    /\ k = DownloadStep(j) => FinalIsRight(j)

\* What the call it waits for has read, added up and put.
CallIsRight(h) ==
  LET j == h.job
      t == text[h.job]
      n == Chunks[h.job]
  IN
  /\ Splits(h) => /\ h.text \subseteq {t}
                  /\ h.next <= n
                  /\ \A i \in 0 .. h.next - 1 : ChunkIsRight(j, i)
  /\ Maps(h) => /\ h.text \subseteq {ChunkOf(t, n, Number(h))}
                /\ h.next = 1 => MappedIsRight(j, Number(h))
  /\ Reduces(h) => /\ h.next <= n /\ CutsNoWord(t, n) => h.words = CountWords(Prefix(t, n, h.next))
                   /\ h.next = n + 1 => FinalIsRight(j)

Downloaded(j) ==
  HasEnded(j) /\ job[j].well /\ CutsNoWord(text[j], Chunks[j]) =>
    job[j].words = {CountWords(text[j])}

WordInv ==
  /\ WordTypes
  /\ ScriptsInv
  /\ Alone
  /\ \A j \in Jobs : GoesWell(j) => Progress(j) /\ \A h \in calls : CallIsRight(h)
  /\ \A j \in Jobs : Downloaded(j)

LEMMA ChunksType == \A j \in Jobs : Chunks[j] \in Nat \ {0} /\ 0 .. Chunks[j] - 1 \subseteq Numbers
BY ChunksAssumption DEF Numbers

LEMMA EmptyText == <<>> \in Seq(Characters)
OBVIOUS

LEMMA CallOfType ==
  ASSUME NEW j \in Jobs, NEW k \in Nat, k >= 1
  PROVE  /\ CallOf(j, k) \in SUBSET Call
         /\ \A h \in CallOf(j, k) : h.job = j /\ h.step = k /\ k < DownloadStep(j)
<1>1. NoWords \in Counts
  BY EmptyText, CountWordsType DEF NoWords
<1> QED BY <1>1 DEF CallOf, Call

\* The initial states.
LEMMA WordInitInv == WordInit => WordInv
<1> SUFFICES ASSUME WordInit PROVE WordInv
  OBVIOUS
<1>1. WordTypes
  BY EmptyText DEF WordInit, WordTypes
<1>2. \A j \in Jobs : ~UnderWay(j) /\ ~HasEnded(j)
  BY ChunksType DEF WordInit, UnderWay, HasEnded, DownloadStep
<1> QED BY <1>1, <1>2 DEF WordInv, ScriptsInv, Alone, GoesWell, Downloaded

\* A step after which no job goes well.
LEMMA NoneGoesWell ==
  ASSUME WordTypes', ScriptsInv', \A j \in Jobs : ~GoesWell(j)', \A j \in Jobs : Downloaded(j)'
  PROVE  WordInv'
BY DEF WordInv, Alone

-----------------------------------------------------------------------------
(* The script *)

\* A job begins only when no other is under way.
LEMMA BeginInv ==
  ASSUME WordInv, NEW j \in Jobs, Begin(j)
  PROVE  WordInv'
<1>1. PICK t \in Texts[j] : text' = [text EXCEPT ![j] = t] /\ input' = {t}
  BY DEF Begin
<1>2. t \in Seq(Characters) /\ Chunks[j] \in Nat \ {0}
  BY TextsAssumption, ChunksType
<1>3. /\ job' = [job EXCEPT ![j].step = 1, ![j].well = (calls = {})]
      /\ calls' = calls \cup CallOf(j, 1)
      /\ UNCHANGED <<chunk, mapped, final>>
      /\ job[j].step = 0
      /\ \A k \in Jobs : ~UnderWay(k)
  BY DEF Begin
<1>4. /\ job'[j].step = 1 /\ job'[j].well = (calls = {})
      /\ \A k \in Jobs : k # j => job'[k] = job[k]
      /\ text'[j] = t /\ \A k \in Jobs : k # j => text'[k] = text[k]
  BY <1>1, <1>3 DEF WordInv, WordTypes
<1>5. WordTypes'
  <2>1. /\ CallOf(j, 1) \in SUBSET Call
        /\ \A h \in CallOf(j, 1) : 1 <= h.step /\ h.step < DownloadStep(h.job)
    BY CallOfType
  <2>2. calls' \in SUBSET Call /\ \A h \in calls' : 1 <= h.step /\ h.step < DownloadStep(h.job)
    BY <1>3, <2>1 DEF WordInv, WordTypes
  <2> QED BY <1>1, <1>2, <1>3, <2>2 DEF WordInv, WordTypes, DownloadStep
<1>6. \A k \in Jobs : UnderWay(k)' => k = j
  BY <1>3, <1>4 DEF UnderWay, DownloadStep
<1>7. ScriptsInv'
  BY <1>1, <1>4, <1>6 DEF ScriptsInv
<1>8. \A k \in Jobs : Downloaded(k)'
  BY <1>2, <1>4 DEF WordInv, Downloaded, HasEnded, DownloadStep
<1>9. CASE calls # {}
  BY <1>4, <1>5, <1>6, <1>7, <1>8, <1>9, NoneGoesWell DEF GoesWell
<1>10. CASE calls = {}
  <2> DEFINE h == [job |-> j, step |-> 1, next |-> 0, text |-> {}, words |-> NoWords]
  <2>1. calls' = {h}
    BY <1>2, <1>3, <1>10 DEF CallOf, DownloadStep
  <2>2. Alone'
    BY <1>4, <1>6, <2>1 DEF Alone, GoesWell, WaitsFor
  <2>3. Progress(j)'
    BY <1>2, <1>4 DEF Progress, DownloadStep
  <2>4. CallIsRight(h)'
    BY <1>2 DEF CallIsRight, Splits, Maps, Reduces
  <2>5. \A k \in Jobs : GoesWell(k)' => Progress(k)' /\ \A g \in calls' : CallIsRight(g)'
    BY <1>6, <2>1, <2>3, <2>4 DEF GoesWell
  <2> QED BY <1>5, <1>7, <1>8, <2>2, <2>5 DEF WordInv
<1> QED BY <1>9, <1>10

LEMMA DownloadInv ==
  ASSUME WordInv, NEW j \in Jobs, Download(j)
  PROVE  WordInv'
<1>1. /\ Chunks[j] \in Nat \ {0} /\ job[j].step = DownloadStep(j) /\ UnderWay(j)
      /\ UNCHANGED <<text, input, chunk, mapped, final, calls>>
  BY ChunksType DEF Download, UnderWay, DownloadStep, objects
<1>2. \E words \in {final, job[j].words}, well \in BOOLEAN :
        /\ job' = [job EXCEPT ![j] = [step |-> DownloadStep(j) + 1, well |-> well, words |-> words]]
        /\ well => job[j].well /\ words = final
  <2>1. job[j] \in [step : Nat, well : BOOLEAN, words : SUBSET Counts]
    BY DEF WordInv, WordTypes
  <2> QED BY <1>1, <2>1 DEF Download
<1>3. PICK words \in {final, job[j].words}, well \in BOOLEAN :
        /\ job' = [job EXCEPT ![j] = [step |-> DownloadStep(j) + 1, well |-> well, words |-> words]]
        /\ well => job[j].well /\ words = final
  BY <1>2
<1>4. /\ job'[j] = [step |-> DownloadStep(j) + 1, well |-> well, words |-> words]
      /\ \A k \in Jobs : k # j => job'[k] = job[k]
  BY <1>3 DEF WordInv, WordTypes
<1>5. WordTypes'
  BY <1>1, <1>3 DEF WordInv, WordTypes, DownloadStep
<1>6. \A k \in Jobs : k # j => ~UnderWay(k)
  BY <1>1 DEF WordInv, ScriptsInv
<1>7. \A k \in Jobs : ~UnderWay(k)'
  BY <1>1, <1>4, <1>6 DEF UnderWay, DownloadStep
<1>8. well /\ CutsNoWord(text[j], Chunks[j]) => words = {CountWords(text[j])}
  BY <1>1, <1>3 DEF WordInv, GoesWell, Progress, FinalIsRight
<1>9. \A k \in Jobs : Downloaded(k)'
  BY <1>1, <1>4, <1>8 DEF WordInv, Downloaded, HasEnded, DownloadStep
<1> QED BY <1>5, <1>7, <1>9, NoneGoesWell DEF ScriptsInv, GoesWell

-----------------------------------------------------------------------------
(* The handlers *)

\* A handler at work while a job goes well is the one its script waits for.
LEMMA CallOfWell ==
  ASSUME WordInv, NEW h \in calls, NEW j \in Jobs, GoesWell(j)
  PROVE  /\ calls = {h} /\ h.job = j /\ WaitsFor(h)
         /\ Progress(j) /\ CallIsRight(h)
BY DEF WordInv, Alone

\* A step of a handler that ends no call matters only to the job it works for.
LEMMA HandlerStep ==
  ASSUME WordInv, NEW h \in calls, NEW next \in Nat, NEW txt \in SUBSET Seq(Characters),
         NEW words \in Counts, Becomes(h, next, txt, words),
         /\ chunk' \in [Numbers -> SUBSET Seq(Characters)]
         /\ mapped' \in [Numbers -> SUBSET Counts]
         /\ final' \in SUBSET Counts,
         GoesWell(h.job) /\ WaitsFor(h) /\ Progress(h.job) /\ CallIsRight(h) =>
           /\ Progress(h.job)'
           /\ CallIsRight([job |-> h.job, step |-> h.step, next |-> next, text |-> txt,
                           words |-> words])'
  PROVE  WordInv'
<1> DEFINE g == [job |-> h.job, step |-> h.step, next |-> next, text |-> txt, words |-> words]
<1>1. UNCHANGED <<text, input, job>> /\ calls' = (calls \ {h}) \cup {g}
  BY DEF Becomes
<1>2. h \in Call /\ g \in Call /\ g.job = h.job /\ g.step = h.step
  BY DEF WordInv, WordTypes, Call
<1>3. WordTypes'
  BY <1>1, <1>2 DEF WordInv, WordTypes, DownloadStep
<1>4. \A j \in Jobs : (UnderWay(j)' <=> UnderWay(j)) /\ (GoesWell(j)' <=> GoesWell(j))
  BY <1>1 DEF UnderWay, GoesWell, DownloadStep
<1>5. ScriptsInv' /\ \A j \in Jobs : Downloaded(j)'
  BY <1>1, <1>4 DEF WordInv, ScriptsInv, Downloaded, HasEnded, DownloadStep
<1>6. ASSUME NEW j \in Jobs, GoesWell(j)
      PROVE  /\ calls' = {g} /\ g.job = j /\ WaitsFor(g)'
             /\ Progress(j)' /\ CallIsRight(g)'
  <2>1. /\ calls = {h} /\ h.job = j /\ WaitsFor(h) /\ Progress(j) /\ CallIsRight(h)
    BY <1>6, CallOfWell
  <2>2. calls' = {g} /\ WaitsFor(g)'
    BY <1>1, <1>2, <2>1 DEF WaitsFor
  <2> QED BY <1>2, <1>6, <2>1, <2>2
<1>7. Alone'
  BY <1>4, <1>6 DEF Alone
<1>8. \A j \in Jobs : GoesWell(j)' => Progress(j)' /\ \A x \in calls' : CallIsRight(x)'
  BY <1>4, <1>6
<1> QED BY <1>3, <1>5, <1>7, <1>8 DEF WordInv

LEMMA CallType ==
  ASSUME WordInv, NEW h \in calls
  PROVE  /\ h.job \in Jobs /\ h.step \in Nat /\ h.next \in Nat
         /\ h.text \in SUBSET Seq(Characters) /\ h.words \in Counts
         /\ Chunks[h.job] \in Nat \ {0} /\ text[h.job] \in Seq(Characters)
         /\ h.step >= 1 /\ h.step < DownloadStep(h.job)
         /\ Splits(h) \/ Maps(h) \/ Reduces(h)
         /\ Splits(h) => ~Maps(h) /\ ~Reduces(h)
         /\ Maps(h) => ~Reduces(h) /\ Number(h) \in 0 .. Chunks[h.job] - 1
         /\ 0 .. Chunks[h.job] - 1 \subseteq Numbers
<1>1. h \in Call /\ h.step >= 1 /\ h.step < DownloadStep(h.job)
  BY DEF WordInv, WordTypes
<1>2. /\ h.job \in Jobs /\ h.step \in Nat /\ h.next \in Nat
      /\ h.text \in SUBSET Seq(Characters) /\ h.words \in Counts
  BY <1>1 DEF Call
<1>3. Chunks[h.job] \in Nat \ {0} /\ 0 .. Chunks[h.job] - 1 \subseteq Numbers
  BY <1>2, ChunksType
<1>4. /\ Splits(h) \/ Maps(h) \/ Reduces(h)
      /\ Splits(h) => ~Maps(h) /\ ~Reduces(h)
      /\ Maps(h) => ~Reduces(h) /\ Number(h) \in 0 .. Chunks[h.job] - 1
  BY <1>1, <1>2, <1>3 DEF Splits, Maps, Reduces, Number, DownloadStep
<1>5. text[h.job] \in Seq(Characters)
  BY <1>2 DEF WordInv, WordTypes
<1> QED BY <1>1, <1>2, <1>3, <1>4, <1>5

\* What a call gets is the text of its job, or the chunk it is about.
LEMMA ReadTextInv ==
  ASSUME WordInv, NEW h \in calls, ReadText(h)
  PROVE  WordInv'
<1>1. PICK t \in IF Splits(h) THEN input ELSE chunk[Number(h)] : Becomes(h, 0, {t}, h.words)
  BY DEF ReadText
<1>2. /\ UNCHANGED <<text, input, job, chunk, mapped, final>>
      /\ Splits(h) \/ Maps(h)
  BY DEF ReadText, Becomes
<1>3. {t} \in SUBSET Seq(Characters)
  BY <1>1, <1>2, CallType DEF WordInv, WordTypes
<1> DEFINE g == [job |-> h.job, step |-> h.step, next |-> 0, text |-> {t}, words |-> h.words]
<1>4. ASSUME GoesWell(h.job), WaitsFor(h), Progress(h.job), CallIsRight(h)
      PROVE  Progress(h.job)' /\ CallIsRight(g)'
  <2>1. Progress(h.job)'
    BY <1>2, <1>4 DEF Progress, ChunkIsRight, MappedIsRight, FinalIsRight, DownloadStep
  <2>2. CASE Splits(h)
    <3>1. t = text[h.job]
      BY <1>1, <1>4, <2>2, CallType DEF WordInv, ScriptsInv, GoesWell
    <3>2. g.job = h.job /\ g.next = 0 /\ g.text = {t} /\ g.step = 1
      BY <2>2 DEF Splits
    <3>3. Chunks[h.job] \in Nat \ {0}
      BY CallType
    <3>4. ~Maps(g) /\ ~Reduces(g)
      BY <3>2, <3>3 DEF Maps, Reduces
    <3>5. g.next <= Chunks[g.job] /\ \A x \in 0 .. g.next - 1 : ChunkIsRight(g.job, x)'
      BY <3>2, <3>3
    <3>6. g.text \subseteq {text[g.job]}'
      BY <1>2, <3>1, <3>2
    <3> HIDE DEF g
    <3>7. CallIsRight(g)'
      BY <3>4, <3>5, <3>6 DEF CallIsRight, Maps, Reduces
    <3> QED BY <2>1, <3>7
  <2>3. CASE Maps(h)
    <3>1. ChunkIsRight(h.job, Number(h)) /\ ~Splits(h)
      BY <1>4, <2>3, CallType DEF Progress, WaitsFor, Maps
    <3>2. t = ChunkOf(text[h.job], Chunks[h.job], Number(h))
      BY <1>1, <3>1 DEF ChunkIsRight
    <3>3. Maps(g) /\ ~Splits(g) /\ ~Reduces(g) /\ Number(g) = Number(h)
      BY <2>3, <3>1, CallType DEF Maps, Splits, Reduces, Number
    <3> QED BY <1>2, <2>1, <3>2, <3>3 DEF CallIsRight
  <2> QED BY <1>2, <2>1, <2>2, <2>3
<1> QED BY <1>1, <1>2, <1>3, <1>4, CallType, HandlerStep DEF WordInv, WordTypes

LEMMA PutChunkInv ==
  ASSUME WordInv, NEW h \in calls, PutChunk(h)
  PROVE  WordInv'
<1> DEFINE n == Chunks[h.job]
           i == h.next
           g == [job |-> h.job, step |-> h.step, next |-> i + 1, text |-> h.text,
                 words |-> h.words]
<1>1. PICK t \in h.text : chunk' = [chunk EXCEPT ![i] = {ChunkOf(t, n, i)}]
  BY DEF PutChunk
<1>2. /\ Splits(h) /\ i < n /\ Becomes(h, i + 1, h.text, h.words)
      /\ UNCHANGED <<text, job, mapped, final>>
  BY DEF PutChunk, Becomes
<1>3. /\ i \in Nat /\ n \in Nat \ {0} /\ i + 1 \in Nat /\ i \in 0 .. n - 1
      /\ i \in Numbers /\ t \in Seq(Characters)
  BY <1>2, CallType
<1>4. chunk' \in [Numbers -> SUBSET Seq(Characters)]
  <2>1. ChunkOf(t, n, i) \in Seq(Characters)
    BY <1>3, PrefixGrows
  <2> QED BY <1>1, <1>3, <2>1 DEF WordInv, WordTypes
<1>5. ASSUME GoesWell(h.job), WaitsFor(h), Progress(h.job), CallIsRight(h)
      PROVE  Progress(h.job)' /\ CallIsRight(g)'
  <2>1. Progress(h.job)'
    BY <1>2, <1>3, <1>5 DEF Progress, WaitsFor, Splits, DownloadStep
  <2>2. /\ t = text[h.job] /\ h.text \subseteq {text[h.job]}
        /\ \A x \in 0 .. i - 1 : ChunkIsRight(h.job, x)
    BY <1>1, <1>2, <1>5 DEF CallIsRight
  <2>3. ASSUME NEW x \in 0 .. i PROVE ChunkIsRight(h.job, x)'
    <3>1. x \in Numbers
      BY <1>3, CallType
    <3>2. CASE x = i
      BY <1>1, <1>2, <1>3, <2>2, <3>2 DEF ChunkIsRight, WordInv, WordTypes
    <3>3. CASE x # i
      <4>1. ChunkIsRight(h.job, x)
        BY <1>3, <2>2, <3>3
      <4> QED BY <1>1, <1>2, <3>1, <3>3, <4>1 DEF ChunkIsRight, WordInv, WordTypes
    <3> QED BY <3>2, <3>3
  <2>4. g.job = h.job /\ g.next = i + 1 /\ g.text = h.text /\ g.step = 1
    BY <1>2 DEF Splits
  <2>5. ~Maps(g) /\ ~Reduces(g)
    BY <1>3, <2>4 DEF Maps, Reduces
  <2>6. \A x \in 0 .. g.next - 1 : ChunkIsRight(g.job, x)'
    BY <1>3, <2>3, <2>4
  <2>7. g.text \subseteq {text[g.job]}' /\ g.next <= Chunks[g.job]
    BY <1>2, <1>3, <2>2, <2>4
  <2> QED BY <2>1, <2>5, <2>6, <2>7 DEF CallIsRight, Maps, Reduces
<1> QED BY <1>2, <1>3, <1>4, <1>5, CallType, HandlerStep DEF WordInv, WordTypes

LEMMA PutCountsInv ==
  ASSUME WordInv, NEW h \in calls, PutCounts(h)
  PROVE  WordInv'
<1> DEFINE n == Chunks[h.job]
           i == Number(h)
           g == [job |-> h.job, step |-> h.step, next |-> 1, text |-> h.text, words |-> h.words]
<1>1. PICK t \in h.text : mapped' = [mapped EXCEPT ![i] = {CountWords(t)}]
  BY DEF PutCounts
<1>2. /\ Maps(h) /\ Becomes(h, 1, h.text, h.words)
      /\ UNCHANGED <<text, job, chunk, final>>
  BY DEF PutCounts, Becomes
<1>3. i \in 0 .. n - 1 /\ n \in Nat \ {0} /\ i \in Numbers /\ t \in Seq(Characters)
  BY <1>2, CallType
<1>4. mapped' \in [Numbers -> SUBSET Counts]
  <2>1. CountWords(t) \in Counts
    BY <1>3, CountWordsType
  <2> QED BY <1>1, <2>1 DEF WordInv, WordTypes
<1>5. ASSUME GoesWell(h.job), WaitsFor(h), Progress(h.job), CallIsRight(h)
      PROVE  Progress(h.job)' /\ CallIsRight(g)'
  <2>1. t = ChunkOf(text[h.job], n, i) /\ h.text \subseteq {ChunkOf(text[h.job], n, i)}
    BY <1>1, <1>2, <1>5 DEF CallIsRight
  <2>2. MappedIsRight(h.job, i)'
    BY <1>1, <1>2, <1>3, <2>1 DEF MappedIsRight, WordInv, WordTypes
  <2>3. job[h.job].step = i + 2 /\ h.step = i + 2
    BY <1>2, <1>5, CallType DEF WaitsFor, Number
  <2>4. \A x \in 0 .. n - 1 : x + 2 < i + 2 => MappedIsRight(h.job, x)'
    <3> SUFFICES ASSUME NEW x \in 0 .. n - 1, x + 2 < i + 2 PROVE MappedIsRight(h.job, x)'
      OBVIOUS
    <3>1. MappedIsRight(h.job, x)
      BY <1>5, <2>3 DEF Progress
    <3>2. x # i
      BY <1>3
    <3> QED BY <1>1, <1>2, <3>1, <3>2 DEF MappedIsRight, WordInv, WordTypes
  <2>5. Progress(h.job)'
    BY <1>2, <1>3, <1>5, <2>3, <2>4 DEF Progress, ChunkIsRight, DownloadStep
  <2>6. Maps(g) /\ ~Splits(g) /\ ~Reduces(g) /\ Number(g) = i
    BY <1>2, <1>3, <2>3, CallType DEF Maps, Splits, Reduces, Number
  <2> QED BY <1>2, <2>1, <2>2, <2>5, <2>6 DEF CallIsRight
<1> QED BY <1>2, <1>4, <1>5, CallType, HandlerStep DEF WordInv, WordTypes

\* A reducer that adds up one more chunk has the counts of one more.
LEMMA AddCountsInv ==
  ASSUME WordInv, NEW h \in calls, AddCounts(h)
  PROVE  WordInv'
<1> DEFINE n == Chunks[h.job]
           t == text[h.job]
           i == h.next
<1>1. PICK counts \in mapped[i] : Becomes(h, i + 1, h.text, Sum(h.words, counts))
  BY DEF AddCounts
<1>2. /\ Reduces(h) /\ i < n
      /\ UNCHANGED <<text, job, chunk, mapped, final>>
  BY DEF AddCounts, Becomes
<1>3. /\ i \in Nat /\ n \in Nat \ {0} /\ i + 1 \in Nat /\ i \in 0 .. n - 1
      /\ i \in Numbers /\ t \in Seq(Characters)
  BY <1>2, CallType
<1>4. counts \in Counts
  BY <1>1, <1>3 DEF WordInv, WordTypes
<1>5. PICK sums \in Counts : sums = Sum(h.words, counts)
  BY <1>4, SumType, CallType
<1> DEFINE g == [job |-> h.job, step |-> h.step, next |-> i + 1, text |-> h.text, words |-> sums]
<1>6. ASSUME GoesWell(h.job), WaitsFor(h), Progress(h.job), CallIsRight(h)
      PROVE  Progress(h.job)' /\ CallIsRight(g)'
  <2>1. Progress(h.job)'
    BY <1>2, <1>6 DEF Progress, ChunkIsRight, MappedIsRight, FinalIsRight, DownloadStep
  <2>2. MappedIsRight(h.job, i)
    BY <1>2, <1>3, <1>6 DEF Progress, WaitsFor, Reduces
  <2>3. counts = CountWords(ChunkOf(t, n, i))
    BY <1>1, <2>2 DEF MappedIsRight
  <2>4. ASSUME CutsNoWord(t, n) PROVE sums = CountWords(Prefix(t, n, i + 1))
    <3>1. h.words = CountWords(Prefix(t, n, i))
      BY <1>2, <1>3, <1>6, <2>4 DEF CallIsRight
    <3>2. Apart(Prefix(t, n, i), ChunkOf(t, n, i))
      BY <1>3, <2>4, BorderCutsNoWord
    <3>3. /\ Prefix(t, n, i) \in Seq(Characters) /\ ChunkOf(t, n, i) \in Seq(Characters)
          /\ Prefix(t, n, i + 1) = Prefix(t, n, i) \o ChunkOf(t, n, i)
      BY <1>3, PrefixProperties, PrefixGrows
    <3>4. CountWords(Prefix(t, n, i) \o ChunkOf(t, n, i))
            = Sum(CountWords(Prefix(t, n, i)), CountWords(ChunkOf(t, n, i)))
      BY <3>2, <3>3, CountWordsOfConcat
    <3> QED BY <1>5, <2>3, <3>1, <3>3, <3>4
  <2>5. g.job = h.job /\ g.next = i + 1 /\ g.words = sums /\ g.step = n + 2
    BY <1>2 DEF Reduces
  <2>6. ~Splits(g) /\ ~Maps(g)
    BY <1>3, <2>5 DEF Splits, Maps
  <2>7. i + 1 # n + 1
    BY <1>2, <1>3
  <2> QED BY <1>2, <2>1, <2>4, <2>5, <2>6, <2>7 DEF CallIsRight
<1> QED BY <1>1, <1>2, <1>3, <1>5, <1>6, CallType, HandlerStep DEF WordInv, WordTypes

LEMMA PutSumsInv ==
  ASSUME WordInv, NEW h \in calls, PutSums(h)
  PROVE  WordInv'
<1> DEFINE n == Chunks[h.job]
           t == text[h.job]
           g == [job |-> h.job, step |-> h.step, next |-> n + 1, text |-> h.text,
                 words |-> h.words]
<1>1. /\ Reduces(h) /\ h.next = n /\ Becomes(h, n + 1, h.text, h.words)
      /\ final' = {h.words}
      /\ UNCHANGED <<text, job, chunk, mapped>>
  BY DEF PutSums, Becomes
<1>2. n \in Nat \ {0} /\ n + 1 \in Nat /\ t \in Seq(Characters) /\ final' \in SUBSET Counts
  BY <1>1, CallType
<1>3. ASSUME GoesWell(h.job), WaitsFor(h), Progress(h.job), CallIsRight(h)
      PROVE  Progress(h.job)' /\ CallIsRight(g)'
  <2>1. job[h.job].step = n + 2
    BY <1>1, <1>3 DEF WaitsFor, Reduces
  <2>2. Progress(h.job)'
    BY <1>1, <1>2, <1>3, <2>1 DEF Progress, ChunkIsRight, MappedIsRight, DownloadStep
  <2>3. CutsNoWord(t, n) => h.words = CountWords(Prefix(t, n, n))
    BY <1>1, <1>2, <1>3 DEF CallIsRight
  <2>4. FinalIsRight(h.job)'
    BY <1>1, <1>2, <2>3, PrefixProperties DEF FinalIsRight
  <2>5. g.job = h.job /\ g.next = n + 1 /\ g.step = n + 2
    BY <1>1 DEF Reduces
  <2>6. ~Splits(g) /\ ~Maps(g) /\ ~(g.next <= n)
    BY <1>2, <2>5 DEF Splits, Maps
  <2> QED BY <1>1, <2>2, <2>4, <2>5, <2>6 DEF CallIsRight
<1> QED BY <1>1, <1>2, <1>3, CallType, HandlerStep DEF WordInv, WordTypes

-----------------------------------------------------------------------------
(* The ends of calls *)

\* Types and scripts, when the script goes on or a call of nobody ends.
LEMMA GoesOnTypes ==
  ASSUME WordInv, NEW h \in calls, NEW well \in BOOLEAN, NEW others \in SUBSET calls,
         GoesOn(h, well, others), UNCHANGED <<text, objects>>
  PROVE  /\ WordTypes' /\ ScriptsInv' /\ \A j \in Jobs : Downloaded(j)'
         /\ WaitsFor(h) =>
              /\ \A k \in Jobs : UnderWay(k)' => k = h.job
              /\ job'[h.job].step = h.step + 1
              /\ job'[h.job].well = (job[h.job].well /\ well)
<1>1. UNCHANGED <<text, input, chunk, mapped, final>>
  BY DEF objects
<1>2. CASE ~WaitsFor(h)
  <2>1. job' = job /\ calls' \in SUBSET calls
    BY <1>2 DEF GoesOn
  <2>2. WordTypes'
    BY <1>1, <2>1 DEF WordInv, WordTypes, DownloadStep
  <2> QED BY <1>1, <1>2, <2>1, <2>2
          DEF WordInv, ScriptsInv, UnderWay, Downloaded, HasEnded, DownloadStep
<1>3. CASE WaitsFor(h)
  <2> DEFINE j == h.job
  <2>1. /\ j \in Jobs /\ h.step \in Nat /\ h.step >= 1 /\ h.step < DownloadStep(j)
        /\ Chunks[j] \in Nat \ {0} /\ h.step + 1 \in Nat /\ h.step + 1 >= 1
    BY CallType
  <2>2. /\ job[j].step = h.step
        /\ job' = [job EXCEPT ![j].step = @ + 1, ![j].well = @ /\ well]
        /\ calls' = others \cup CallOf(j, h.step + 1)
    BY <1>3 DEF GoesOn, WaitsFor
  <2>3. /\ job'[j].step = h.step + 1 /\ job'[j].well = (job[j].well /\ well)
        /\ job'[j].words = job[j].words
        /\ \A k \in Jobs : k # j => job'[k] = job[k]
        /\ job' \in [Jobs -> [step : Nat, well : BOOLEAN, words : SUBSET Counts]]
    BY <2>1, <2>2 DEF WordInv, WordTypes
  <2>4. /\ CallOf(j, h.step + 1) \in SUBSET Call
        /\ \A g \in CallOf(j, h.step + 1) : 1 <= g.step /\ g.step < DownloadStep(g.job)
    BY <2>1, CallOfType
  <2>5. WordTypes'
    BY <1>1, <2>2, <2>3, <2>4 DEF WordInv, WordTypes, DownloadStep
  <2>6. UnderWay(j) /\ \A k \in Jobs : k # j => ~UnderWay(k)
    <3>1. UnderWay(j)
      BY <2>1, <2>2 DEF UnderWay, DownloadStep
    <3> QED BY <2>1, <3>1 DEF WordInv, ScriptsInv
  <2>7. \A k \in Jobs : UnderWay(k)' => k = j
    BY <2>3, <2>6 DEF UnderWay, DownloadStep
  <2>8. ScriptsInv'
    BY <1>1, <2>6, <2>7 DEF WordInv, ScriptsInv
  <2>9. \A k \in Jobs : Downloaded(k)'
    <3>1. ~HasEnded(j)'
      BY <2>1, <2>3 DEF HasEnded, DownloadStep
    <3> QED BY <1>1, <2>3, <3>1 DEF WordInv, Downloaded, HasEnded, DownloadStep
  <2> QED BY <1>3, <2>3, <2>5, <2>7, <2>8, <2>9
<1> QED BY <1>2, <1>3

\* After a mishap of a call that its script waits for, no job goes well.
LEMMA MishapInv ==
  ASSUME WordInv, NEW h \in calls, FailsOut(h) \/ ConnectionLost(h)
  PROVE  WordInv'
<1>1. PICK others \in SUBSET calls : GoesOn(h, FALSE, others) /\ UNCHANGED <<text, objects>>
  BY DEF FailsOut, ConnectionLost
<1>2. /\ WordTypes' /\ ScriptsInv' /\ \A j \in Jobs : Downloaded(j)'
      /\ WaitsFor(h) => /\ \A k \in Jobs : UnderWay(k)' => k = h.job
                        /\ job'[h.job].well = FALSE
  BY <1>1, GoesOnTypes
<1>3. \A j \in Jobs : ~GoesWell(j)'
  <2>1. CASE WaitsFor(h)
    BY <1>2, <2>1 DEF GoesWell
  <2>2. CASE ~WaitsFor(h)
    <3>1. job' = job
      BY <1>1, <2>2 DEF GoesOn
    <3>2. \A j \in Jobs : ~GoesWell(j)
      BY <2>2, CallOfWell
    <3> QED BY <3>1, <3>2 DEF GoesWell, UnderWay, DownloadStep
  <2> QED BY <2>1, <2>2
<1> QED BY <1>2, <1>3, NoneGoesWell

\* What a call has achieved when it succeeds is what the next step asks for.
LEMMA NextStep ==
  ASSUME WordInv, NEW h \in calls, h.next = Work(h), GoesWell(h.job), WaitsFor(h),
         Progress(h.job), CallIsRight(h), UNCHANGED <<text, objects>>,
         job'[h.job].step = h.step + 1
  PROVE  /\ Progress(h.job)'
         /\ \A g \in CallOf(h.job, h.step + 1) : CallIsRight(g)'
<1> DEFINE j == h.job
           n == Chunks[j]
           k == h.step
<1>1. UNCHANGED <<text, chunk, mapped, final>>
  BY DEF objects
<1>2. n \in Nat \ {0} /\ k \in Nat /\ k >= 1 /\ k < n + 3 /\ text[j] \in Seq(Characters)
  BY CallType DEF DownloadStep
<1>3. job[j].step = k
  BY DEF WaitsFor
<1>4. Progress(j)'
  <2>1. CASE Splits(h)
    <3>1. \A i \in 0 .. n - 1 : ChunkIsRight(j, i)
      BY <1>2, <2>1 DEF CallIsRight, Work
    <3> QED BY <1>1, <1>2, <2>1, <3>1 DEF Progress, Splits, ChunkIsRight, DownloadStep
  <2>2. CASE Maps(h)
    <3>1. MappedIsRight(j, k - 2) /\ k \in 2 .. n + 1
      BY <2>2, CallType DEF CallIsRight, Work, Number, Maps
    <3>2. \A i \in 0 .. n - 1 : i + 2 < k + 1 => MappedIsRight(j, i)
      <4> SUFFICES ASSUME NEW i \in 0 .. n - 1, i + 2 < k + 1 PROVE MappedIsRight(j, i)
        OBVIOUS
      <4>1. CASE i = k - 2
        BY <3>1, <4>1
      <4>2. CASE i # k - 2
        <5>1. i + 2 < k
          BY <1>2, <3>1, <4>2
        <5> QED BY <1>3, <5>1 DEF Progress
      <4> QED BY <4>1, <4>2
    <3>3. \A i \in 0 .. n - 1 : ChunkIsRight(j, i)
      BY <1>3, <3>1 DEF Progress
    <3> QED BY <1>1, <1>2, <3>1, <3>2, <3>3
            DEF Progress, ChunkIsRight, MappedIsRight, DownloadStep
  <2>3. CASE Reduces(h)
    <3>1. k = n + 2 /\ FinalIsRight(j)
      BY <1>2, <2>3, CallType DEF CallIsRight, Work, Reduces, Splits, Maps
    <3>2. \A i \in 0 .. n - 1 : MappedIsRight(j, i)
      <4> SUFFICES ASSUME NEW i \in 0 .. n - 1 PROVE MappedIsRight(j, i)
        OBVIOUS
      <4>1. i + 2 < k
        BY <1>2, <3>1
      <4> QED BY <1>3, <4>1 DEF Progress
    <3> QED BY <1>1, <1>2, <3>1, <3>2
            DEF Progress, ChunkIsRight, MappedIsRight, FinalIsRight, DownloadStep
  <2> QED BY <2>1, <2>2, <2>3, CallType
<1>5. ASSUME NEW g \in CallOf(j, k + 1) PROVE CallIsRight(g)'
  <2>1. g = [job |-> j, step |-> k + 1, next |-> 0, text |-> {}, words |-> NoWords]
    BY DEF CallOf
  <2>2. NoWords = CountWords(Prefix(text[j], n, 0))
    BY <1>2, PrefixProperties DEF NoWords
  <2>3. ~Splits(g) /\ 0 # 1 /\ 0 # n + 1
    BY <1>2, <2>1 DEF Splits
  <2> QED BY <1>1, <2>1, <2>2, <2>3 DEF CallIsRight
<1> QED BY <1>4, <1>5

LEMMA SucceedsInv ==
  ASSUME WordInv, NEW h \in calls, Succeeds(h)
  PROVE  WordInv'
<1> DEFINE j == h.job
<1>0. h.next = Work(h) /\ GoesOn(h, TRUE, calls \ {h}) /\ UNCHANGED <<text, objects>>
  BY DEF Succeeds
<1>1. /\ h.next = Work(h) /\ GoesOn(h, TRUE, calls \ {h}) /\ UNCHANGED <<text, objects>>
      /\ calls \ {h} \in SUBSET calls /\ TRUE \in BOOLEAN /\ j \in Jobs
  BY <1>0, CallType
<1>2. /\ WordTypes' /\ ScriptsInv' /\ \A k \in Jobs : Downloaded(k)'
      /\ WaitsFor(h) =>
           /\ \A k \in Jobs : UnderWay(k)' => k = j
           /\ job'[j].step = h.step + 1
           /\ job'[j].well = (job[j].well /\ TRUE)
  BY <1>1, GoesOnTypes
<1>3. CASE WaitsFor(h) /\ GoesWell(j)
  <2>1. calls = {h} /\ Progress(j) /\ CallIsRight(h)
    BY <1>1, <1>3, CallOfWell
  <2>2. calls' = CallOf(j, h.step + 1)
    BY <1>1, <1>3, <2>1 DEF GoesOn
  <2>3. Progress(j)' /\ \A g \in CallOf(j, h.step + 1) : CallIsRight(g)'
    BY <1>1, <1>2, <1>3, <2>1, NextStep
  <2>4. \A g \in calls' : calls' = {g} /\ g.job = j /\ g.step = h.step + 1
    BY <2>2 DEF CallOf
  <2>5. Alone'
    BY <1>2, <1>3, <2>4 DEF Alone, GoesWell, WaitsFor
  <2>6. \A k \in Jobs : GoesWell(k)' => Progress(k)' /\ \A g \in calls' : CallIsRight(g)'
    BY <1>2, <1>3, <2>2, <2>3 DEF GoesWell
  <2> QED BY <1>2, <2>5, <2>6 DEF WordInv
<1>4. CASE WaitsFor(h) /\ ~GoesWell(j)
  <2>1. UnderWay(j)
    BY <1>4, CallType DEF UnderWay, WaitsFor, DownloadStep
  <2>2. job[j].well # TRUE
    BY <1>4, <2>1 DEF GoesWell
  <2>3. \A k \in Jobs : ~GoesWell(k)'
    BY <1>2, <1>4, <2>2 DEF GoesWell
  <2> QED BY <1>2, <2>3, NoneGoesWell
<1>5. CASE ~WaitsFor(h)
  <2>1. job' = job
    BY <1>1, <1>5 DEF GoesOn
  <2>2. \A k \in Jobs : ~GoesWell(k)
    BY <1>5, CallOfWell
  <2>3. \A k \in Jobs : ~GoesWell(k)'
    BY <2>1, <2>2 DEF GoesWell, UnderWay, DownloadStep
  <2> QED BY <1>2, <2>3, NoneGoesWell
<1> QED BY <1>3, <1>4, <1>5

LEMMA WordNextInv == WordInv /\ [WordNext]_wordVars => WordInv'
<1> SUFFICES ASSUME WordInv, [WordNext]_wordVars PROVE WordInv'
  OBVIOUS
<1>1. ASSUME NEW j \in Jobs, Begin(j) \/ Download(j) PROVE WordInv'
  BY <1>1, BeginInv, DownloadInv
<1>2. ASSUME NEW h \in calls,
             ReadText(h) \/ PutChunk(h) \/ PutCounts(h) \/ AddCounts(h) \/ PutSums(h)
      PROVE  WordInv'
  BY <1>2, ReadTextInv, PutChunkInv, PutCountsInv, AddCountsInv, PutSumsInv
<1>3. ASSUME NEW h \in calls, Succeeds(h) \/ FailsOut(h) \/ ConnectionLost(h) PROVE WordInv'
  BY <1>3, SucceedsInv, MishapInv
<1>4. CASE UNCHANGED wordVars
  <2>1. UNCHANGED <<text, input, chunk, mapped, final, job, calls>>
    BY <1>4 DEF wordVars, objects
  <2>2. WordTypes' /\ ScriptsInv'
    BY <2>1 DEF WordInv, WordTypes, ScriptsInv, UnderWay, DownloadStep
  <2>3. \A j \in Jobs : (GoesWell(j)' <=> GoesWell(j)) /\ (Progress(j)' <=> Progress(j))
    BY <2>1 DEF GoesWell, UnderWay, Progress, ChunkIsRight, MappedIsRight, FinalIsRight,
                DownloadStep
  <2>4. \A h \in calls : (CallIsRight(h)' <=> CallIsRight(h)) /\ (WaitsFor(h)' <=> WaitsFor(h))
    BY <2>1 DEF CallIsRight, WaitsFor, ChunkIsRight, MappedIsRight, FinalIsRight
  <2>5. Alone' /\ \A j \in Jobs : Downloaded(j)'
    BY <2>1, <2>3, <2>4 DEF WordInv, Alone, Downloaded, HasEnded, DownloadStep
  <2> QED BY <2>1, <2>2, <2>3, <2>4, <2>5 DEF WordInv
<1> QED BY <1>1, <1>2, <1>3, <1>4 DEF WordNext

\* A job whose calls all succeeded, begun when no handler of an earlier one was at
\* work, downloads exactly the words of its text, if no chunk border cuts a word: for
\* texts of any length, any number of chunks, and any failures of the jobs before it.
THEOREM CountsAreRightAlways == WordSpec => []CountsAreRight
<1>1. WordInv => CountsAreRight
  BY DEF WordInv, Downloaded, CountsAreRight
<1> QED BY <1>1, WordInitInv, WordNextInv, PTL DEF WordSpec
=============================================================================
