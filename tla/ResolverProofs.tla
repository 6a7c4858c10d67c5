---------------------------- MODULE ResolverProofs ----------------------------
(***************************************************************************)
(* Theorems on Resolver, for all configurations, texts and values that     *)
(* ResolverAssumption allows: the loop of ResolveString reads its text     *)
(* from the start after every replacement and yet replaces each template   *)
(* where it stands, as long as no value begins one.                        *)
(***************************************************************************)
EXTENDS Resolver, Recursion, SequenceTheorems, FiniteSetTheorems, TLAPS

\* The provers do not know that a string that is written out is in STRING.
Character == STRING \cup {"null", "\"", ":", ",", "{", "}", "=", "!"}
Text == Seq(Character)

-----------------------------------------------------------------------------
(* Pairs of characters in a text *)

Pair(s, i, a, b) == s[i] = a /\ s[i + 1] = b

\* Place i is the first at or after from where a is followed by b.
IsFirst(s, from, a, b, i) ==
    /\ i \in from .. (Len(s) - 1) /\ Pair(s, i, a, b)
    /\ \A j \in from .. (i - 1) : ~Pair(s, j, a, b)

(* FirstPair is 0 where there is no pair, and the first place otherwise.   *)
LEMMA FirstPairFinds ==
    ASSUME NEW s \in Text, NEW from \in Nat \ {0}, NEW a, NEW b
    PROVE  \/ /\ FirstPair(s, from, a, b) = 0
              /\ \A j \in from .. (Len(s) - 1) : ~Pair(s, j, a, b)
           \/ /\ FirstPair(s, from, a, b) # 0
              /\ IsFirst(s, from, a, b, FirstPair(s, from, a, b))
PROOF
<1> DEFINE at == {i \in from .. (Len(s) - 1) : s[i] = a /\ s[i + 1] = b}
           found == CHOOSE i \in at : \A j \in at : i <= j
<1>0. Len(s) \in Nat
    BY DEF Text
<1>1. CASE at = {}
    BY <1>1 DEF FirstPair, Pair
<1>2. CASE at # {}
  <2>1. at \subseteq Nat
    BY <1>0
  <2> HIDE DEF at
  <2>2. \E i \in at : \A j \in at : i <= j
    BY <1>2, <2>1, Least
  <2>3. found \in at /\ \A j \in at : found <= j
    BY <2>2
  <2>4. FirstPair(s, from, a, b) = found
    BY <1>2 DEF FirstPair, at
  <2> HIDE DEF found
  <2>5. found \in from .. (Len(s) - 1) /\ Pair(s, found, a, b)
    BY <2>3 DEF at, Pair
  <2>6. \A j \in from .. (found - 1) : ~Pair(s, j, a, b)
    BY <1>0, <2>3, <2>5 DEF at, Pair
  <2> QED
    BY <2>4, <2>5, <2>6 DEF IsFirst
<1> QED
    BY <1>1, <1>2

(* There is no other first place.                                          *)
LEMMA FirstPairIs ==
    ASSUME NEW s \in Text, NEW from \in Nat \ {0}, NEW a, NEW b,
           NEW i, IsFirst(s, from, a, b, i)
    PROVE  FirstPair(s, from, a, b) = i
PROOF
<1>0. Len(s) \in Nat
    BY DEF Text
<1>1. i \in from .. (Len(s) - 1) /\ Pair(s, i, a, b)
    BY DEF IsFirst
<1> DEFINE found == FirstPair(s, from, a, b)
<1>2. IsFirst(s, from, a, b, found)
    BY <1>1, FirstPairFinds
<1> HIDE DEF found
<1>3. found \in from .. (Len(s) - 1) /\ Pair(s, found, a, b)
    BY <1>2 DEF IsFirst
<1>4. ~(found < i) /\ ~(i < found)
    BY <1>0, <1>1, <1>2, <1>3 DEF IsFirst
<1> QED
    BY <1>0, <1>1, <1>3, <1>4 DEF found

LEMMA NoPair ==
    ASSUME NEW s \in Text, NEW from \in Nat \ {0}, NEW a, NEW b,
           \A j \in from .. (Len(s) - 1) : ~Pair(s, j, a, b)
    PROVE  FirstPair(s, from, a, b) = 0
PROOF BY FirstPairFinds DEF IsFirst

(* The parts of a text that are put together.                              *)
LEMMA Joined ==
    ASSUME NEW s \in Text, NEW t \in Text
    PROVE  /\ s \o t \in Text /\ Len(s \o t) = Len(s) + Len(t)
           /\ Len(s) \in Nat /\ Len(t) \in Nat
           /\ \A i \in 1 .. Len(s) : (s \o t)[i] = s[i]
           /\ \A i \in 1 .. Len(t) : (s \o t)[Len(s) + i] = t[i]
PROOF
<1>1. s \in Seq(Character) /\ t \in Seq(Character)
    BY DEF Text
<1>2. Len(s) \in Nat /\ Len(t) \in Nat
    BY <1>1
<1>3. /\ s \o t \in Seq(Character)
      /\ Len(s \o t) = Len(s) + Len(t)
      /\ \A i \in 1 .. Len(s) + Len(t) : (s \o t)[i] =
             IF i <= Len(s) THEN s[i] ELSE t[i - Len(s)]
    BY <1>1, ConcatProperties
<1>4. \A i \in 1 .. Len(s) : (s \o t)[i] = s[i]
    BY <1>2, <1>3
<1>5. ASSUME NEW i \in 1 .. Len(t) PROVE (s \o t)[Len(s) + i] = t[i]
  <2>1. Len(s) + i \in 1 .. Len(s) + Len(t) /\ ~(Len(s) + i <= Len(s)) /\ Len(s) + i - Len(s) = i
    BY <1>2
  <2> QED
    BY <1>3, <2>1
<1> QED
    BY <1>2, <1>3, <1>4, <1>5 DEF Text

LEMMA Associates == \A s, t, u \in Text : (s \o t) \o u = s \o (t \o u)
PROOF BY ConcatAssociative DEF Text

(* A part of a text.                                                       *)
LEMMA PartOf ==
    ASSUME NEW s \in Text, NEW m \in Nat \ {0}, NEW n \in 0 .. Len(s)
    PROVE  /\ SubSeq(s, m, n) \in Text
           /\ Len(SubSeq(s, m, n)) = IF m <= n THEN n - m + 1 ELSE 0
           /\ \A i \in 1 .. n - m + 1 : SubSeq(s, m, n)[i] = s[m + i - 1]
PROOF
<1>1. Len(s) \in Nat /\ \A i \in 1 .. Len(s) : s[i] \in Character
    BY DEF Text
<1>2. \A i \in m .. n : s[i] \in Character
    BY <1>1
<1>3. m \in Int /\ n \in Int
    BY <1>1
<1> QED
    BY <1>2, <1>3, SubSeqProperties DEF Text

(* The rest of a text from a place on.                                     *)
Rest(s, i) == SubSeq(s, i, Len(s))

LEMMA RestOf ==
    ASSUME NEW s \in Text, NEW i \in 1 .. Len(s) + 1
    PROVE  /\ Rest(s, i) \in Text /\ Len(Rest(s, i)) = Len(s) + 1 - i
           /\ \A j \in 1 .. Len(s) + 1 - i : Rest(s, i)[j] = s[i + j - 1]
PROOF
<1>1. Len(s) \in Nat
    BY DEF Text
<1>2. i \in Nat \ {0} /\ Len(s) \in 0 .. Len(s)
    BY <1>1
<1>3. /\ Rest(s, i) \in Text
      /\ Len(Rest(s, i)) = IF i <= Len(s) THEN Len(s) - i + 1 ELSE 0
      /\ \A j \in 1 .. Len(s) - i + 1 : Rest(s, i)[j] = s[i + j - 1]
    BY <1>2, PartOf DEF Rest
<1> QED
    BY <1>1, <1>3

(* Texts with the same characters are the same.                            *)
LEMMA SameText ==
    ASSUME NEW s \in Text, NEW t \in Text, Len(s) = Len(t),
           \A i \in 1 .. Len(s) : s[i] = t[i]
    PROVE  s = t
PROOF BY SeqEqual DEF Text

-----------------------------------------------------------------------------
(* Templates in a text *)

Opening == "{"
Closing == "}"

\* The text of a template, with its braces left out and its blanks cut off.
Template(s, start, end) ==
    [start |-> start, end |-> end, path |-> TrimSpace(SubSeq(s, start + 2, end - 1))]

(* A text has one first template or none.                                  *)
LEMMA TemplateIs ==
    ASSUME NEW s \in Text, NEW start, NEW end,
           start = FindTemplateStart(s), end = FindTemplateEnd(s, start)
    PROVE  /\ start # 0 /\ end # 0 => FirstTemplate(s) = {Template(s, start, end)}
           /\ start = 0 \/ end = 0 => FirstTemplate(s) = {}
           /\ HasTemplate(s) <=> start # 0 /\ end # 0
PROOF
<1>1. FirstTemplate(s) = {Template(s, i, j) : i \in {start} \ {0}, j \in {end} \ {0}}
    BY DEF FirstTemplate, Template
<1> QED
    BY <1>1 DEF HasTemplate

\* From start to end there is the first template of s.
Stands(s, start, end) ==
    /\ start = FindTemplateStart(s) /\ end = FindTemplateEnd(s, start)
    /\ start \in Nat /\ end \in Nat
    /\ 1 <= start /\ start + 2 <= end /\ end + 1 <= Len(s)
    /\ IsFirst(s, 1, Opening, Opening, start)

(* It begins where no other does, and ends behind that.                    *)
LEMMA TemplatePlaces ==
    ASSUME NEW s \in Text, NEW t \in FirstTemplate(s)
    PROVE  t = Template(s, t.start, t.end) /\ Stands(s, t.start, t.end)
PROOF
<1> DEFINE start == FindTemplateStart(s)
           end == FindTemplateEnd(s, start)
<1>0. Len(s) \in Nat /\ 1 \in Nat \ {0}
    BY DEF Text
<1>1. start # 0 /\ end # 0 /\ t = Template(s, start, end)
  <2> HIDE DEF start, end
  <2>1. /\ start # 0 /\ end # 0 => FirstTemplate(s) = {Template(s, start, end)}
        /\ start = 0 \/ end = 0 => FirstTemplate(s) = {}
    BY TemplateIs DEF start, end
  <2> QED
    BY <2>1
<1>2. IsFirst(s, 1, Opening, Opening, start)
    BY <1>0, <1>1, FirstPairFinds DEF FindTemplateStart, Opening
<1>3. IsFirst(s, start + 2, Closing, Closing, end)
  <2>1. start + 2 \in Nat \ {0}
    BY <1>0, <1>2 DEF IsFirst
  <2> QED
    BY <1>1, <2>1, FirstPairFinds DEF FindTemplateEnd, Closing
<1> HIDE DEF start, end
<1>4. start \in Nat /\ 1 <= start
    BY <1>0, <1>2 DEF IsFirst
<1>5. end \in Nat /\ start + 2 <= end /\ end + 1 <= Len(s)
    BY <1>0, <1>3, <1>4 DEF IsFirst
<1>6. t.start = start /\ t.end = end
    BY <1>1 DEF Template
<1> QED
    BY <1>1, <1>2, <1>4, <1>5, <1>6 DEF Stands, start, end

(* Plain texts begin no template, and none together.                       *)
LEMMA PlainMeans ==
    ASSUME NEW s \in Text
    PROVE  Plain(s) <=> /\ \A j \in 1 .. (Len(s) - 1) : ~Pair(s, j, Opening, Opening)
                        /\ Len(s) # 0 => s[Len(s)] # Opening
PROOF
<1>1. Len(s) \in Nat /\ (s = <<>> <=> Len(s) = 0)
    BY DEF Text
<1>2. FindTemplateStart(s) = 0 <=> \A j \in 1 .. (Len(s) - 1) : ~Pair(s, j, Opening, Opening)
  <2>0. 1 \in Nat \ {0}
    OBVIOUS
  <2>1. FindTemplateStart(s) = 0 => \A j \in 1 .. (Len(s) - 1) : ~Pair(s, j, Opening, Opening)
    BY <2>0, FirstPairFinds DEF FindTemplateStart, Opening
  <2>2. ASSUME \A j \in 1 .. (Len(s) - 1) : ~Pair(s, j, Opening, Opening)
        PROVE  FindTemplateStart(s) = 0
    BY <2>0, <2>2, NoPair DEF FindTemplateStart, Opening
  <2> QED
    BY <2>1, <2>2
<1> QED
    BY <1>1, <1>2 DEF Plain, Last, Opening

LEMMA PlainJoined ==
    ASSUME NEW s \in Text, NEW t \in Text, Plain(s), Plain(t)
    PROVE  Plain(s \o t)
PROOF
<1> DEFINE u == s \o t
<1>1. /\ u \in Text /\ Len(u) = Len(s) + Len(t) /\ Len(s) \in Nat /\ Len(t) \in Nat
      /\ \A i \in 1 .. Len(s) : u[i] = s[i]
      /\ \A i \in 1 .. Len(t) : u[Len(s) + i] = t[i]
    BY Joined
<1>2. /\ \A j \in 1 .. (Len(s) - 1) : ~Pair(s, j, Opening, Opening)
      /\ \A j \in 1 .. (Len(t) - 1) : ~Pair(t, j, Opening, Opening)
      /\ Len(s) # 0 => s[Len(s)] # Opening
      /\ Len(t) # 0 => t[Len(t)] # Opening
    BY PlainMeans
<1> HIDE DEF u
<1>3. ASSUME NEW j \in 1 .. (Len(u) - 1) PROVE ~Pair(u, j, Opening, Opening)
  <2>1. CASE j < Len(s)
    <3>1. j \in 1 .. (Len(s) - 1) /\ j \in 1 .. Len(s) /\ j + 1 \in 1 .. Len(s)
      BY <1>1, <2>1
    <3> QED
      BY <1>1, <1>2, <3>1 DEF Pair
  <2>2. CASE j = Len(s)
    BY <1>1, <1>2, <2>2 DEF Pair
  <2>3. CASE j > Len(s)
    <3>1. PICK k \in 1 .. (Len(t) - 1) : j = Len(s) + k
      <4>1. j - Len(s) \in 1 .. (Len(t) - 1) /\ j = Len(s) + (j - Len(s))
        BY <1>1, <2>3
      <4> QED
        BY <4>1
    <3>2. k \in 1 .. Len(t) /\ k + 1 \in 1 .. Len(t) /\ j + 1 = Len(s) + (k + 1)
      BY <1>1, <3>1
    <3>3. u[j] = t[k]
      BY <1>1, <3>1, <3>2
    <3>4. u[j + 1] = t[k + 1]
      BY <1>1, <3>2
    <3> QED
      BY <1>2, <3>1, <3>3, <3>4 DEF Pair
  <2> QED
    BY <1>1, <2>1, <2>2, <2>3
<1>4. Len(u) # 0 => u[Len(u)] # Opening
  <2>1. CASE Len(t) = 0
    <3>1. Len(u) = Len(s) /\ (Len(s) # 0 => Len(s) \in 1 .. Len(s))
      BY <1>1, <2>1
    <3> QED
      BY <1>1, <1>2, <3>1
  <2>2. CASE Len(t) # 0
    <3>1. Len(t) \in 1 .. Len(t)
      BY <1>1, <2>2
    <3>2. u[Len(u)] = t[Len(t)]
      BY <1>1, <3>1
    <3> QED
      BY <1>2, <2>2, <3>2
  <2> QED
    BY <2>1, <2>2
<1> QED
    BY <1>1, <1>3, <1>4, PlainMeans DEF u

(* What stands before the first template is plain.                         *)
LEMMA PlainBefore ==
    ASSUME NEW s \in Text, NEW start, NEW end, Stands(s, start, end)
    PROVE  SubSeq(s, 1, start - 1) \in Text /\ Plain(SubSeq(s, 1, start - 1))
PROOF
<1> DEFINE b == SubSeq(s, 1, start - 1)
<1>0. Len(s) \in Nat
    BY DEF Text
<1>1. start \in Nat /\ 1 <= start /\ start < Len(s) /\ IsFirst(s, 1, Opening, Opening, start)
    BY <1>0 DEF Stands
<1>2. start - 1 \in 0 .. Len(s) /\ 1 \in Nat \ {0}
    BY <1>0, <1>1
<1>3. /\ b \in Text /\ Len(b) = start - 1
      /\ \A i \in 1 .. start - 1 : b[i] = s[i]
  <2>1. /\ b \in Text
        /\ Len(b) = IF 1 <= start - 1 THEN start - 1 - 1 + 1 ELSE 0
        /\ \A i \in 1 .. start - 1 - 1 + 1 : b[i] = s[1 + i - 1]
    BY <1>2, PartOf
  <2> QED
    BY <1>1, <2>1
<1> HIDE DEF b
<1>4. \A j \in 1 .. (Len(b) - 1) : ~Pair(b, j, Opening, Opening)
    BY <1>1, <1>3 DEF IsFirst, Pair
<1>5. Len(b) # 0 => b[Len(b)] # Opening
  <2>1. Len(b) # 0 => start - 1 \in 1 .. (start - 1)
    BY <1>1, <1>3
  <2>2. s[start] = Opening /\ start - 1 + 1 = start
    BY <1>1 DEF IsFirst, Pair
  <2> QED
    BY <1>1, <1>3, <2>1, <2>2 DEF IsFirst, Pair
<1> QED
    BY <1>3, <1>4, <1>5, PlainMeans DEF b

-----------------------------------------------------------------------------
(* A text put before another *)

(* The characters of s, their pairs and its parts, with pre put before it. *)
LEMMA PairsShift ==
    ASSUME NEW pre \in Text, NEW s \in Text, NEW a, NEW b, NEW j \in 1 .. (Len(s) - 1)
    PROVE  Pair(pre \o s, Len(pre) + j, a, b) <=> Pair(s, j, a, b)
PROOF
<1>1. /\ Len(pre) \in Nat /\ Len(s) \in Nat
      /\ \A i \in 1 .. Len(s) : (pre \o s)[Len(pre) + i] = s[i]
    BY Joined
<1>2. j \in 1 .. Len(s) /\ j + 1 \in 1 .. Len(s) /\ Len(pre) + j + 1 = Len(pre) + (j + 1)
    BY <1>1
<1>3. (pre \o s)[Len(pre) + j] = s[j] /\ (pre \o s)[Len(pre) + j + 1] = s[j + 1]
    BY <1>1, <1>2
<1> QED
    BY <1>3 DEF Pair

LEMMA PartShifts ==
    ASSUME NEW pre \in Text, NEW s \in Text, NEW n \in 0 .. Len(s), NEW m \in 1 .. n + 1
    PROVE  SubSeq(pre \o s, Len(pre) + m, Len(pre) + n) = SubSeq(s, m, n)
PROOF
<1> DEFINE u == pre \o s
           left == SubSeq(u, Len(pre) + m, Len(pre) + n)
           right == SubSeq(s, m, n)
<1>1. /\ u \in Text /\ Len(u) = Len(pre) + Len(s) /\ Len(pre) \in Nat /\ Len(s) \in Nat
      /\ \A i \in 1 .. Len(s) : u[Len(pre) + i] = s[i]
    BY Joined
<1>2. /\ Len(pre) + m \in Nat \ {0} /\ Len(pre) + n \in 0 .. Len(u)
      /\ m \in Nat \ {0} /\ n \in Nat
    BY <1>1
<1>3. /\ left \in Text
      /\ Len(left) = IF Len(pre) + m <= Len(pre) + n THEN Len(pre) + n - (Len(pre) + m) + 1 ELSE 0
      /\ \A i \in 1 .. Len(pre) + n - (Len(pre) + m) + 1 : left[i] = u[Len(pre) + m + i - 1]
  <2> HIDE DEF u
  <2> QED
    BY <1>1, <1>2, PartOf
<1>4. /\ right \in Text /\ Len(right) = IF m <= n THEN n - m + 1 ELSE 0
      /\ \A i \in 1 .. n - m + 1 : right[i] = s[m + i - 1]
    BY <1>2, PartOf
<1> HIDE DEF u, left, right
<1>5. Len(left) = Len(right) /\ Len(right) = n - m + 1
    BY <1>1, <1>2, <1>3, <1>4
<1>6. ASSUME NEW i \in 1 .. Len(left) PROVE left[i] = right[i]
  <2>1. /\ i \in 1 .. n - m + 1
        /\ i \in 1 .. Len(pre) + n - (Len(pre) + m) + 1
        /\ m + i - 1 \in 1 .. Len(s)
        /\ Len(pre) + m + i - 1 = Len(pre) + (m + i - 1)
    BY <1>1, <1>2, <1>5
  <2>2. left[i] = u[Len(pre) + (m + i - 1)] /\ right[i] = s[m + i - 1]
    BY <1>3, <1>4, <2>1
  <2> QED
    BY <1>1, <2>1, <2>2
<1>7. left = right
    BY <1>3, <1>4, <1>5, <1>6, SameText
<1> QED
    BY <1>7 DEF left, right, u

LEMMA FrontKept ==
    ASSUME NEW pre \in Text, NEW s \in Text, NEW n \in 0 .. Len(s)
    PROVE  SubSeq(pre \o s, 1, Len(pre) + n) = pre \o SubSeq(s, 1, n)
PROOF
<1> DEFINE u == pre \o s
           left == SubSeq(u, 1, Len(pre) + n)
           head == SubSeq(s, 1, n)
           right == pre \o head
<1>1. /\ u \in Text /\ Len(u) = Len(pre) + Len(s) /\ Len(pre) \in Nat /\ Len(s) \in Nat
      /\ \A i \in 1 .. Len(pre) : u[i] = pre[i]
      /\ \A i \in 1 .. Len(s) : u[Len(pre) + i] = s[i]
    BY Joined
<1>2. Len(pre) + n \in 0 .. Len(u) /\ 1 \in Nat \ {0} /\ n \in Nat
    BY <1>1
<1>3. /\ left \in Text
      /\ Len(left) = IF 1 <= Len(pre) + n THEN Len(pre) + n - 1 + 1 ELSE 0
      /\ \A i \in 1 .. Len(pre) + n - 1 + 1 : left[i] = u[1 + i - 1]
  <2> HIDE DEF u
  <2> QED
    BY <1>1, <1>2, PartOf
<1>4. /\ head \in Text /\ Len(head) = IF 1 <= n THEN n - 1 + 1 ELSE 0
      /\ \A i \in 1 .. n - 1 + 1 : head[i] = s[1 + i - 1]
    BY <1>2, PartOf
<1>5. /\ right \in Text /\ Len(right) = Len(pre) + Len(head)
      /\ \A i \in 1 .. Len(pre) : right[i] = pre[i]
      /\ \A i \in 1 .. Len(head) : right[Len(pre) + i] = head[i]
    BY <1>4, Joined
<1> HIDE DEF u, left, right, head
<1>6. Len(head) = n /\ Len(left) = Len(pre) + n
    BY <1>1, <1>2, <1>3, <1>4
<1>7. \A i \in 1 .. Len(pre) + n : left[i] = u[i]
    BY <1>1, <1>2, <1>3
<1>8. \A i \in 1 .. n : head[i] = s[i]
    BY <1>1, <1>2, <1>4
<1>9. ASSUME NEW i \in 1 .. Len(left) PROVE left[i] = right[i]
  <2>1. CASE i <= Len(pre)
    <3>1. i \in 1 .. Len(pre) /\ i \in 1 .. Len(pre) + n
      BY <1>1, <1>6, <2>1
    <3> QED
      BY <1>1, <1>5, <1>7, <3>1
  <2>2. CASE i > Len(pre)
    <3>1. /\ i - Len(pre) \in 1 .. n /\ i - Len(pre) \in 1 .. Len(s)
          /\ i = Len(pre) + (i - Len(pre)) /\ i \in 1 .. Len(pre) + n
      BY <1>1, <1>2, <1>6, <2>2
    <3>2. PICK k \in Int : k = i - Len(pre)
      BY <3>1
    <3>3. k \in 1 .. n /\ k \in 1 .. Len(s) /\ i = Len(pre) + k
      BY <3>1, <3>2
    <3>4. left[i] = s[k]
      BY <1>1, <1>7, <3>1, <3>3
    <3>5. right[i] = s[k]
      BY <1>5, <1>6, <1>8, <3>3
    <3> QED
      BY <3>4, <3>5
  <2> QED
    BY <1>1, <1>6, <2>1, <2>2
<1>10. left = right
    BY <1>3, <1>5, <1>6, <1>9, SameText
<1> QED
    BY <1>10 DEF left, right, head, u

(* Where there is no pair, looking may begin later.                        *)
LEMMA FirstFromLater ==
    ASSUME NEW s \in Text, NEW from \in Nat \ {0}, NEW later \in Nat \ {0}, from <= later,
           NEW a, NEW b, \A j \in from .. (later - 1) : ~Pair(s, j, a, b)
    PROVE  FirstPair(s, from, a, b) = FirstPair(s, later, a, b)
PROOF
<1> DEFINE i == FirstPair(s, later, a, b)
<1>0. Len(s) \in Nat
    BY DEF Text
<1>1. \/ i = 0 /\ \A j \in later .. (Len(s) - 1) : ~Pair(s, j, a, b)
      \/ IsFirst(s, later, a, b, i)
    BY FirstPairFinds
<1> HIDE DEF i
<1>2. CASE i = 0 /\ \A j \in later .. (Len(s) - 1) : ~Pair(s, j, a, b)
  <2>1. \A j \in from .. (Len(s) - 1) : ~Pair(s, j, a, b)
    BY <1>0, <1>2
  <2>2. FirstPair(s, from, a, b) = 0
    BY <2>1, NoPair
  <2> QED
    BY <1>2, <2>2 DEF i
<1>3. CASE IsFirst(s, later, a, b, i)
  <2>1. IsFirst(s, from, a, b, i)
    BY <1>0, <1>3 DEF IsFirst
  <2>2. FirstPair(s, from, a, b) = i
    BY <2>1, FirstPairIs
  <2> QED
    BY <2>2 DEF i
<1> QED
    BY <1>1, <1>2, <1>3

(* What is found in s is found behind pre at the same place of s.          *)
LEMMA FirstShifts ==
    ASSUME NEW pre \in Text, NEW s \in Text, NEW from \in Nat \ {0}, NEW a, NEW b,
           NEW i, i = FirstPair(s, from, a, b)
    PROVE  /\ i = 0 => FirstPair(pre \o s, Len(pre) + from, a, b) = 0
           /\ i # 0 => FirstPair(pre \o s, Len(pre) + from, a, b) = Len(pre) + i
           /\ i \in Nat
PROOF
<1> DEFINE u == pre \o s
<1>1. u \in Text /\ Len(u) = Len(pre) + Len(s) /\ Len(pre) \in Nat /\ Len(s) \in Nat
    BY Joined
<1>2. \A j \in 1 .. (Len(s) - 1) : Pair(u, Len(pre) + j, a, b) <=> Pair(s, j, a, b)
    BY PairsShift
<1>3. Len(pre) + from \in Nat \ {0}
    BY <1>1
<1>4. \/ i = 0 /\ \A j \in from .. (Len(s) - 1) : ~Pair(s, j, a, b)
      \/ i # 0 /\ IsFirst(s, from, a, b, i)
    BY FirstPairFinds
<1> HIDE DEF u
<1>5. ASSUME NEW k, NEW j \in (Len(pre) + from) .. k, k \in Int, k <= Len(u) - 1
      PROVE  /\ j - Len(pre) \in from .. (k - Len(pre))
             /\ j - Len(pre) \in 1 .. (Len(s) - 1)
             /\ Pair(u, j, a, b) <=> Pair(s, j - Len(pre), a, b)
  <2>1. /\ j - Len(pre) \in from .. (k - Len(pre))
        /\ j - Len(pre) \in 1 .. (Len(s) - 1) /\ Len(pre) + (j - Len(pre)) = j
    BY <1>1, <1>5
  <2> QED
    BY <1>2, <2>1
<1>6. CASE i = 0 /\ \A j \in from .. (Len(s) - 1) : ~Pair(s, j, a, b)
  <2>1. ASSUME NEW j \in (Len(pre) + from) .. (Len(u) - 1) PROVE ~Pair(u, j, a, b)
    <3>1. Len(u) - 1 \in Int /\ Len(u) - 1 <= Len(u) - 1
      BY <1>1
    <3>2. /\ j - Len(pre) \in from .. (Len(u) - 1 - Len(pre))
          /\ Pair(u, j, a, b) <=> Pair(s, j - Len(pre), a, b)
      BY <1>5, <3>1
    <3>3. j - Len(pre) \in from .. (Len(s) - 1)
      BY <1>1, <3>2
    <3> QED
      BY <1>6, <3>2, <3>3
  <2>2. FirstPair(u, Len(pre) + from, a, b) = 0
    BY <1>1, <1>3, <2>1, NoPair
  <2> QED
    BY <1>6, <2>2 DEF u
<1>7. CASE i # 0 /\ IsFirst(s, from, a, b, i)
  <2>1. /\ i \in from .. (Len(s) - 1) /\ Pair(s, i, a, b)
        /\ \A j \in from .. (i - 1) : ~Pair(s, j, a, b)
    BY <1>7 DEF IsFirst
  <2>2. /\ Len(pre) + i \in (Len(pre) + from) .. (Len(u) - 1)
        /\ i \in 1 .. (Len(s) - 1) /\ i \in Nat /\ i - 1 = Len(pre) + i - 1 - Len(pre)
        /\ Len(pre) + i - 1 \in Int /\ Len(pre) + i - 1 <= Len(u) - 1
    BY <1>1, <2>1
  <2>3. Pair(u, Len(pre) + i, a, b)
    BY <1>2, <2>1, <2>2
  <2>4. ASSUME NEW j \in (Len(pre) + from) .. (Len(pre) + i - 1) PROVE ~Pair(u, j, a, b)
    <3>1. /\ j - Len(pre) \in from .. (Len(pre) + i - 1 - Len(pre))
          /\ Pair(u, j, a, b) <=> Pair(s, j - Len(pre), a, b)
      BY <1>5, <2>2
    <3> QED
      BY <2>1, <2>2, <3>1
  <2>5. IsFirst(u, Len(pre) + from, a, b, Len(pre) + i)
    BY <2>2, <2>3, <2>4 DEF IsFirst
  <2>6. FirstPair(u, Len(pre) + from, a, b) = Len(pre) + i
    BY <1>1, <1>3, <2>5, FirstPairIs
  <2> QED
    BY <1>7, <2>2, <2>6 DEF u
<1> QED
    BY <1>4, <1>6, <1>7

(* Behind a plain text a template begins where it began without it.        *)
LEMMA StartShifts ==
    ASSUME NEW pre \in Text, NEW s \in Text, Plain(pre),
           NEW start, start = FindTemplateStart(s)
    PROVE  /\ start = 0 => FindTemplateStart(pre \o s) = 0
           /\ start # 0 => FindTemplateStart(pre \o s) = Len(pre) + start
           /\ start \in Nat
PROOF
<1> DEFINE u == pre \o s
<1>1. /\ u \in Text /\ Len(u) = Len(pre) + Len(s) /\ Len(pre) \in Nat /\ Len(s) \in Nat
      /\ \A i \in 1 .. Len(pre) : u[i] = pre[i]
    BY Joined
<1>2. /\ \A j \in 1 .. (Len(pre) - 1) : ~Pair(pre, j, Opening, Opening)
      /\ Len(pre) # 0 => pre[Len(pre)] # Opening
    BY PlainMeans
<1>3. start = FirstPair(s, 1, Opening, Opening)
    BY DEF FindTemplateStart, Opening
<1>4. FindTemplateStart(u) = FirstPair(u, 1, Opening, Opening)
    BY DEF FindTemplateStart, Opening
<1>5. 1 \in Nat \ {0}
    OBVIOUS
<1>6. /\ start = 0 => FirstPair(u, Len(pre) + 1, Opening, Opening) = 0
      /\ start # 0 => FirstPair(u, Len(pre) + 1, Opening, Opening) = Len(pre) + start
      /\ start \in Nat
    BY <1>3, <1>5, FirstShifts
<1> HIDE DEF u
<1>7. ASSUME NEW j \in 1 .. (Len(pre) + 1 - 1) PROVE ~Pair(u, j, Opening, Opening)
  <2>1. CASE j < Len(pre)
    <3>1. j \in 1 .. (Len(pre) - 1) /\ j \in 1 .. Len(pre) /\ j + 1 \in 1 .. Len(pre)
      BY <1>1, <2>1
    <3> QED
      BY <1>1, <1>2, <3>1 DEF Pair
  <2>2. CASE j = Len(pre)
    <3>1. j \in 1 .. Len(pre) /\ Len(pre) # 0
      BY <1>1, <2>2
    <3> QED
      BY <1>1, <1>2, <2>2, <3>1 DEF Pair
  <2> QED
    BY <1>1, <2>1, <2>2
<1>8. Len(pre) + 1 \in Nat \ {0} /\ 1 <= Len(pre) + 1
    BY <1>1
<1>9. FirstPair(u, 1, Opening, Opening) = FirstPair(u, Len(pre) + 1, Opening, Opening)
    BY <1>1, <1>5, <1>7, <1>8, FirstFromLater
<1> QED
    BY <1>4, <1>6, <1>9 DEF u

\* The template t, found i characters later.
Shifted(t, i) == [start |-> i + t.start, end |-> i + t.end, path |-> t.path]

(* Behind a plain text there is the same first template.                   *)
LEMMA TemplateShifts ==
    ASSUME NEW pre \in Text, NEW s \in Text, Plain(pre)
    PROVE  /\ HasTemplate(pre \o s) <=> HasTemplate(s)
           /\ \A t \in FirstTemplate(s) : FirstTemplate(pre \o s) = {Shifted(t, Len(pre))}
PROOF
<1> DEFINE u == pre \o s
           start == FindTemplateStart(s)
           end == FindTemplateEnd(s, start)
           first == FindTemplateStart(u)
           last == FindTemplateEnd(u, first)
<1>1. u \in Text /\ Len(u) = Len(pre) + Len(s) /\ Len(pre) \in Nat /\ Len(s) \in Nat
    BY Joined
<1>2. (start = 0 => first = 0) /\ (start # 0 => first = Len(pre) + start) /\ start \in Nat
    BY StartShifts
<1>3. ASSUME start # 0
      PROVE  (end = 0 => last = 0) /\ (end # 0 => last = Len(pre) + end) /\ end \in Nat
  <2> HIDE DEF start, first, u
  <2>1. start + 2 \in Nat \ {0} /\ first + 2 = Len(pre) + (start + 2)
    BY <1>1, <1>2, <1>3
  <2>2. end = FirstPair(s, start + 2, Closing, Closing)
    BY DEF FindTemplateEnd, Closing
  <2>3. last = FirstPair(u, Len(pre) + (start + 2), Closing, Closing)
    BY <2>1 DEF FindTemplateEnd, Closing
  <2> HIDE DEF end, last
  <2> QED
    BY <2>1, <2>2, <2>3, FirstShifts DEF u
<1>4. /\ HasTemplate(s) <=> start # 0 /\ end # 0
      /\ start = 0 \/ end = 0 => FirstTemplate(s) = {}
  <2> HIDE DEF start, end
  <2> QED
    BY TemplateIs DEF start, end
<1>5. /\ first # 0 /\ last # 0 => FirstTemplate(u) = {Template(u, first, last)}
      /\ HasTemplate(u) <=> first # 0 /\ last # 0
  <2> HIDE DEF first, last, u
  <2> QED
    BY <1>1, TemplateIs DEF first, last
<1> HIDE DEF u, start, end, first, last
<1>6. HasTemplate(u) <=> HasTemplate(s)
    BY <1>1, <1>2, <1>3, <1>4, <1>5
<1>7. ASSUME NEW t \in FirstTemplate(s) PROVE FirstTemplate(u) = {Shifted(t, Len(pre))}
  <2>1. t = Template(s, t.start, t.end) /\ Stands(s, t.start, t.end)
    BY TemplatePlaces
  <2>2. t.start = start /\ t.end = end
    BY <2>1 DEF Stands, start, end
  <2>3. /\ start \in Nat /\ end \in Nat /\ 1 <= start /\ start + 2 <= end /\ end + 1 <= Len(s)
    BY <2>1, <2>2 DEF Stands
  <2>4. first = Len(pre) + start /\ last = Len(pre) + end /\ first # 0 /\ last # 0
    BY <1>1, <1>2, <1>3, <2>3
  <2>5. SubSeq(u, first + 2, last - 1) = SubSeq(s, start + 2, end - 1)
    <3>1. /\ end - 1 \in 0 .. Len(s) /\ start + 2 \in 1 .. (end - 1) + 1
          /\ first + 2 = Len(pre) + (start + 2) /\ last - 1 = Len(pre) + (end - 1)
      BY <1>1, <2>3, <2>4
    <3> QED
      BY <3>1, PartShifts DEF u
  <2>6. t.path = TrimSpace(SubSeq(s, start + 2, end - 1))
    BY <2>1, <2>2 DEF Template
  <2> QED
    BY <1>5, <2>2, <2>4, <2>5, <2>6 DEF Template, Shifted
<1> QED
    BY <1>6, <1>7 DEF u

-----------------------------------------------------------------------------
(* What the operators return *)

(* A text without the blanks at its ends is a text.                        *)
LEMMA TrimmedText ==
    ASSUME NEW s \in Text
    PROVE  TrimSpace(s) \in Text
PROOF
<1> DEFINE kept == {i \in DOMAIN s : s[i] # " "}
           low == CHOOSE i \in kept : \A j \in kept : i <= j
           high == CHOOSE i \in kept : \A j \in kept : j <= i
<1>1. Len(s) \in Nat /\ DOMAIN s = 1 .. Len(s) /\ <<>> \in Text
    BY DEF Text
<1>2. CASE kept = {}
    BY <1>1, <1>2 DEF TrimSpace
<1>3. CASE kept # {}
  <2>0. kept \subseteq DOMAIN s
    OBVIOUS
  <2> HIDE DEF kept
  <2>1. kept \subseteq 1 .. Len(s) /\ kept \subseteq Nat /\ kept \subseteq 0 .. Len(s)
    BY <1>1, <2>0
  <2>2. low \in kept
    <3>1. \E i \in kept : \A j \in kept : i <= j
      BY <1>3, <2>1, Least
    <3> QED
      BY <3>1
  <2>3. high \in kept
    <3>1. \E i \in kept : \A j \in kept : j <= i
      BY <1>1, <1>3, <2>1, Greatest
    <3> QED
      BY <3>1
  <2>4. TrimSpace(s) = SubSeq(s, low, high)
    BY <1>3 DEF TrimSpace, kept
  <2> HIDE DEF low, high
  <2>5. low \in Nat \ {0} /\ high \in 0 .. Len(s)
    BY <1>1, <2>1, <2>2, <2>3
  <2> QED
    BY <2>4, <2>5, PartOf
<1> QED
    BY <1>2, <1>3

(* The parts of a path are texts.                                          *)
LEMMA PartsOfPath ==
    ASSUME NEW path \in Text
    PROVE  SplitPath(path) \in Seq(Text)
PROOF
<1> DEFINE N == Len(path)
           U == [parts : Seq(Text), current : Text]
           base == [parts |-> <<>>, current |-> <<>>]
           closed(s) == IF s.current = <<>> THEN s.parts ELSE Append(s.parts, s.current)
           next(s, n) == IF path[n] = "." THEN [parts |-> closed(s), current |-> <<>>]
                         ELSE [s EXCEPT !.current = Append(@, path[n])]
           step == [x \in (1 .. N) \X U |-> next(x[2], x[1])]
           after[n \in 0 .. Len(path)] ==
               IF n = 0 THEN [parts |-> <<>>, current |-> <<>>]
               ELSE IF path[n] = "." THEN [parts |-> closed(after[n - 1]), current |-> <<>>]
               ELSE [after[n - 1] EXCEPT !.current = Append(@, path[n])]
<1>1. N \in Nat /\ \A n \in 1 .. N : path[n] \in Character
    BY DEF Text
<1>2. base \in U
    BY DEF Text
<1>3. ASSUME NEW s \in U PROVE closed(s) \in Seq(Text)
    OBVIOUS
<1>4. ASSUME NEW s \in U, NEW n \in 1 .. N PROVE next(s, n) \in U
  <2>1. [parts |-> closed(s), current |-> <<>>] \in U
    BY <1>3 DEF Text
  <2>2. Append(s.current, path[n]) \in Text
    BY <1>1 DEF Text
  <2>3. [s EXCEPT !.current = Append(@, path[n])] \in U
    BY <2>2
  <2> QED
    BY <2>1, <2>3
<1>5. step \in [(1 .. N) \X U -> U] /\ \A n \in 1 .. N, s \in U : step[<<n, s>>] = next(s, n)
  <2> HIDE DEF next, U
  <2> QED
    BY <1>4
<1>6. PICK f : f \in [0 .. N -> U] /\ f[0] = base /\ \A n \in 1 .. N : f[n] = next(f[n - 1], n)
  <2> HIDE DEF next, step, base, U
  <2>1. PICK f : Follows(f, N, U, base, step)
    BY <1>1, <1>2, <1>5, FromBefore
  <2>2. \A n \in 1 .. N : f[n - 1] \in U
    BY <1>1, <2>1 DEF Follows
  <2> QED
    BY <1>5, <2>1, <2>2 DEF Follows
<1>7. \E g : g = [n \in 0 .. Len(path) |->
                    IF n = 0 THEN [parts |-> <<>>, current |-> <<>>]
                    ELSE IF path[n] = "." THEN [parts |-> closed(g[n - 1]), current |-> <<>>]
                    ELSE [g[n - 1] EXCEPT !.current = Append(@, path[n])]]
  <2> DEFINE g == [n \in 0 .. Len(path) |->
                     IF n = 0 THEN [parts |-> <<>>, current |-> <<>>]
                     ELSE IF path[n] = "." THEN [parts |-> closed(f[n - 1]), current |-> <<>>]
                     ELSE [f[n - 1] EXCEPT !.current = Append(@, path[n])]]
  <2>1. \A n \in 0 .. N : g[n] = IF n = 0 THEN base ELSE next(f[n - 1], n)
    OBVIOUS
  <2>2. g = [n \in 0 .. N |-> g[n]] /\ f = [n \in 0 .. N |-> f[n]]
    BY <1>6
  <2>3. f = g
    <3> HIDE DEF g, next, base, U
    <3>1. \A n \in 0 .. N : n = 0 \/ n \in 1 .. N
      BY <1>1
    <3>2. \A n \in 0 .. N : g[n] = f[n]
      BY <1>6, <2>1, <3>1
    <3> QED
      BY <2>2, <3>2
  <2> QED
    BY <2>3
<1>8. after = [n \in 0 .. Len(path) |->
                 IF n = 0 THEN [parts |-> <<>>, current |-> <<>>]
                 ELSE IF path[n] = "." THEN [parts |-> closed(after[n - 1]), current |-> <<>>]
                 ELSE [after[n - 1] EXCEPT !.current = Append(@, path[n])]]
    BY <1>7
<1>9. SplitPath(path) = closed(after[Len(path)])
    BY DEF SplitPath
<1> HIDE DEF after
<1>10. after[0] = base /\ \A n \in 1 .. N : after[n] = next(after[n - 1], n)
  <2> DEFINE body == [n \in 0 .. N |-> IF n = 0 THEN base ELSE next(after[n - 1], n)]
  <2>1. after = body
    BY <1>8
  <2>2. \A n \in 0 .. N : body[n] = IF n = 0 THEN base ELSE next(after[n - 1], n)
    OBVIOUS
  <2> HIDE DEF body, base, next
  <2> QED
    BY <1>1, <2>1, <2>2
<1> DEFINE S == {n \in 0 .. N : after[n] \in U}
<1>11. N \in S
  <2>1. 0 \in S
    <3> HIDE DEF base, U
    <3> QED
      BY <1>1, <1>2, <1>10
  <2>2. ASSUME NEW n \in 1 .. N, n - 1 \in S PROVE n \in S
    <3> HIDE DEF next, U
    <3> QED
      BY <1>4, <1>10, <2>2
  <2> HIDE DEF S
  <2>3. \A n \in 0 .. N : n \in S
    BY <1>1, <2>1, <2>2, UpTo
  <2> QED
    BY <1>1, <2>3
<1> QED
    BY <1>3, <1>9, <1>11

(* A part of a text that is written out is one.                            *)
LEMMA Literals ==
    /\ <<>> \in Text /\ <<"null">> \in Text /\ <<"\"">> \in Text /\ <<"\"", ":">> \in Text
    /\ <<",">> \in Text /\ <<"{">> \in Text /\ <<"}">> \in Text
    /\ <<"=", "=">> \in Text /\ <<"!", "=">> \in Text
    /\ \A text \in Seq(STRING) : text \in Text
PROOF
<1>1. ASSUME NEW S, NEW c \in S, NEW d \in S
      PROVE  <<>> \in Seq(S) /\ <<c>> \in Seq(S) /\ <<c, d>> \in Seq(S)
    OBVIOUS
<1>2. /\ "null" \in Character /\ "\"" \in Character /\ ":" \in Character
      /\ "," \in Character /\ "{" \in Character /\ "}" \in Character
      /\ "=" \in Character /\ "!" \in Character
    BY DEF Character
<1>3. STRING \subseteq Character
    BY DEF Character
<1>4. \A text \in Seq(STRING) : text \in Text
    BY <1>3, SeqMonotonic DEF Text
<1> QED
    BY <1>1, <1>2, <1>4, Zenon DEF Text

\* A value, with Text for what is written of it.
Typed(v) ==
    /\ v.kind \in {"nil", "nilmap", "string", "scalar", "map"}
    /\ v.kind \in {"string", "scalar"} => v.text \in Text
    /\ v.kind = "map" => v.json \in Text /\ \A key \in DOMAIN v.of : v.of[key] \in Values

LEMMA TypedValues ==
    /\ \A v : IsValue(v) => Typed(v)
    /\ \A v \in Values : Typed(v)
    /\ Typed(Nil)
PROOF
<1>1. ASSUME NEW v, IsValue(v) PROVE Typed(v)
    BY <1>1, Literals DEF IsValue, Typed
<1>2. \A v \in Values : Typed(v)
    BY <1>1, ResolverAssumption
<1>3. Typed(Nil)
    BY DEF Typed, Nil
<1> QED
    BY <1>1, <1>2, <1>3

(* What is found down a path is a value.                                   *)
LEMMA NestedValue ==
    ASSUME NEW data, Typed(data), NEW path \in Seq(Text)
    PROVE  Typed(GetNestedValue(data, path))
PROOF
<1> DEFINE N == Len(path)
           U == Values \cup {data, Nil}
           member(v, key) == IF v.kind = "map" /\ key \in DOMAIN v.of THEN v.of[key] ELSE Nil
           step == [x \in (1 .. N) \X U |-> member(x[2], path[x[1]])]
           down[n \in 0 .. Len(path)] ==
               IF n = 0 THEN data ELSE member(down[n - 1], path[n])
<1>1. N \in Nat
    OBVIOUS
<1>2. \A v \in U : Typed(v)
    BY TypedValues
<1>3. ASSUME NEW v \in U, NEW key PROVE member(v, key) \in U
    BY <1>2 DEF Typed
<1>4. step \in [(1 .. N) \X U -> U] /\ \A n \in 1 .. N, v \in U : step[<<n, v>>] = member(v, path[n])
  <2> HIDE DEF member, U
  <2> QED
    BY <1>3
<1>5. PICK f : f \in [0 .. N -> U] /\ f[0] = data /\ \A n \in 1 .. N : f[n] = member(f[n - 1], path[n])
  <2>0. data \in U
    OBVIOUS
  <2> HIDE DEF member, step, U
  <2>1. PICK f : Follows(f, N, U, data, step)
    BY <1>1, <1>4, <2>0, FromBefore
  <2>2. \A n \in 1 .. N : f[n - 1] \in U
    BY <1>1, <2>1 DEF Follows
  <2> QED
    BY <1>4, <2>1, <2>2 DEF Follows
<1>6. \E g : g = [n \in 0 .. Len(path) |-> IF n = 0 THEN data ELSE member(g[n - 1], path[n])]
  <2> DEFINE g == [n \in 0 .. Len(path) |-> IF n = 0 THEN data ELSE member(f[n - 1], path[n])]
  <2>1. \A n \in 0 .. N : g[n] = IF n = 0 THEN data ELSE member(f[n - 1], path[n])
    OBVIOUS
  <2>2. g = [n \in 0 .. N |-> g[n]] /\ f = [n \in 0 .. N |-> f[n]]
    BY <1>5
  <2>3. f = g
    <3> HIDE DEF g, member, U
    <3>1. \A n \in 0 .. N : n = 0 \/ n \in 1 .. N
      BY <1>1
    <3>2. \A n \in 0 .. N : g[n] = f[n]
      BY <1>5, <2>1, <3>1
    <3> QED
      BY <2>2, <3>2
  <2> QED
    BY <2>3
<1>7. down = [n \in 0 .. Len(path) |-> IF n = 0 THEN data ELSE member(down[n - 1], path[n])]
    BY <1>6
<1>8. GetNestedValue(data, path) = down[Len(path)]
    BY DEF GetNestedValue
<1> HIDE DEF down
<1>9. \A n \in 0 .. N : down[n] = IF n = 0 THEN data ELSE member(down[n - 1], path[n])
  <2> HIDE DEF member
  <2> QED
    BY <1>7
<1> DEFINE S == {n \in 0 .. N : down[n] \in U}
<1>10. N \in S
  <2>1. 0 \in S
    BY <1>1, <1>9
  <2>2. ASSUME NEW n \in 1 .. N, n - 1 \in S PROVE n \in S
    <3> HIDE DEF member, U
    <3> QED
      BY <1>3, <1>9, <2>2
  <2> HIDE DEF S
  <2>3. \A n \in 0 .. N : n \in S
    BY <1>1, <2>1, <2>2, UpTo
  <2> QED
    BY <1>1, <2>3
<1> QED
    BY <1>2, <1>8, <1>10

(* What encoding/json writes for a value is a text.                        *)
LEMMA JsonText ==
    ASSUME NEW v, Typed(v)
    PROVE  Json(v) \in Text
PROOF
<1>1. CASE v.kind \in {"nil", "nilmap"}
  <2>1. Json(v) = <<"null">>
    BY <1>1 DEF Json
  <2> QED
    BY <2>1, Literals
<1>2. CASE v.kind = "string"
  <2>1. v.text \in Text
    BY <1>2 DEF Typed
  <2>2. <<"\"">> \o v.text \o <<"\"">> \in Text
    BY <2>1, Literals, Joined
  <2> QED
    BY <1>2, <2>2 DEF Json
<1>3. CASE v.kind = "scalar"
    BY <1>3 DEF Json, Typed
<1>4. CASE v.kind = "map"
    BY <1>4 DEF Json, Typed
<1> QED
    BY <1>1, <1>2, <1>3, <1>4 DEF Typed

(* What stands for a value in a resolved text is a text.                   *)
LEMMA ReplacementText ==
    ASSUME NEW v, Typed(v)
    PROVE  Replacement(v) \in Text
PROOF
<1>1. CASE v.kind = "nil"
    BY <1>1, Literals DEF Replacement
<1>2. CASE v.kind \in {"string", "scalar"}
    BY <1>2 DEF Replacement, Typed
<1>3. CASE v.kind \in {"nilmap", "map"}
    BY <1>3, JsonText DEF Replacement
<1> QED
    BY <1>1, <1>2, <1>3 DEF Typed

\* The sources of values hold values.
Held(c) == Sources(c) /\ \A root \in Roots : Typed(c[root])

(* A path stands for a text, whatever it names.                            *)
LEMMA ValueOfPath ==
    ASSUME Held(config), NEW path \in Text
    PROVE  Replacement(ResolvePath(path)) \in Text
PROOF
<1> DEFINE parts == SplitPath(path)
<1>1. parts \in Seq(Text)
    BY PartsOfPath
<1> HIDE DEF parts
<1>2. Typed(Nil)
    BY TypedValues
<1>3. CASE parts = <<>> \/ Head(parts) \notin Roots
    BY <1>2, <1>3, ReplacementText DEF ResolvePath, parts
<1>4. CASE parts # <<>> /\ Head(parts) \in Roots
  <2>1. Tail(parts) \in Seq(Text) /\ Typed(config[Head(parts)])
    BY <1>1, <1>4 DEF Held
  <2>2. Typed(GetNestedValue(config[Head(parts)], Tail(parts)))
    BY <2>1, NestedValue
  <2>3. Typed(ResolvePath(path))
    BY <1>4, <2>1, <2>2 DEF ResolvePath, parts
  <2> QED
    BY <2>3, ReplacementText
<1> QED
    BY <1>3, <1>4

(* A map that is made of values is a value.                                *)
LEMMA ObjectTyped ==
    ASSUME NEW of, \A key \in DOMAIN of : of[key] \in Values
    PROVE  Typed(Object(of)) /\ Object(of).kind = "map"
PROOF
<1> DEFINE N == Len(KeyOrder)
           member(key) == <<"\"">> \o key \o <<"\"", ":">> \o Json(of[key])
           comma(text) == IF text = <<>> THEN <<>> ELSE <<",">>
           next(text, n) == IF KeyOrder[n] \notin DOMAIN of THEN text
                            ELSE text \o comma(text) \o member(KeyOrder[n])
           step == [x \in (1 .. N) \X Text |-> next(x[2], x[1])]
           written[n \in 0 .. Len(KeyOrder)] ==
               IF n = 0 THEN <<>>
               ELSE IF KeyOrder[n] \notin DOMAIN of THEN written[n - 1]
               ELSE written[n - 1] \o (IF written[n - 1] = <<>> THEN <<>> ELSE <<",">>)
                       \o member(KeyOrder[n])
           json == <<"{">> \o written[Len(KeyOrder)] \o <<"}">>
<1>1. N \in Nat /\ \A n \in 1 .. N : KeyOrder[n] \in Text
  <2>1. KeyOrder \in Seq(Seq(STRING))
    BY ResolverAssumption
  <2>2. N \in Nat /\ \A n \in 1 .. N : KeyOrder[n] \in Seq(STRING)
    BY <2>1
  <2> QED
    BY <2>2, Literals
<1>2. ASSUME NEW n \in 1 .. N, KeyOrder[n] \in DOMAIN of
      PROVE  member(KeyOrder[n]) \in Text
  <2>1. KeyOrder[n] \in Text /\ Json(of[KeyOrder[n]]) \in Text
    BY <1>1, <1>2, TypedValues, JsonText
  <2> QED
    BY <2>1, Literals, Joined
<1>3. ASSUME NEW n \in 1 .. N, NEW text \in Text PROVE next(text, n) \in Text
  <2>1. comma(text) \in Text
    BY Literals
  <2>2. CASE KeyOrder[n] \in DOMAIN of
    <3> HIDE DEF member, comma
    <3> QED
      BY <1>2, <2>1, <2>2, Joined
  <2>3. CASE KeyOrder[n] \notin DOMAIN of
    BY <2>3
  <2> QED
    BY <2>2, <2>3
<1>4. step \in [(1 .. N) \X Text -> Text] /\ \A n \in 1 .. N, text \in Text : step[<<n, text>>] = next(text, n)
  <2> HIDE DEF next
  <2> QED
    BY <1>3
<1>5. PICK f : f \in [0 .. N -> Text] /\ f[0] = <<>> /\ \A n \in 1 .. N : f[n] = next(f[n - 1], n)
  <2> HIDE DEF next, step
  <2>1. PICK f : Follows(f, N, Text, <<>>, step)
    BY <1>1, <1>4, Literals, FromBefore
  <2>2. \A n \in 1 .. N : f[n - 1] \in Text
    BY <1>1, <2>1 DEF Follows
  <2> QED
    BY <1>4, <2>1, <2>2 DEF Follows
<1>6. \E g : g = [n \in 0 .. Len(KeyOrder) |->
                    IF n = 0 THEN <<>>
                    ELSE IF KeyOrder[n] \notin DOMAIN of THEN g[n - 1]
                    ELSE g[n - 1] \o (IF g[n - 1] = <<>> THEN <<>> ELSE <<",">>)
                            \o member(KeyOrder[n])]
  <2> DEFINE g == [n \in 0 .. Len(KeyOrder) |->
                     IF n = 0 THEN <<>>
                     ELSE IF KeyOrder[n] \notin DOMAIN of THEN f[n - 1]
                     ELSE f[n - 1] \o (IF f[n - 1] = <<>> THEN <<>> ELSE <<",">>)
                             \o member(KeyOrder[n])]
  <2>1. \A n \in 0 .. N : g[n] = IF n = 0 THEN <<>> ELSE next(f[n - 1], n)
    OBVIOUS
  <2>2. g = [n \in 0 .. N |-> g[n]] /\ f = [n \in 0 .. N |-> f[n]]
    BY <1>5
  <2>3. f = g
    <3> HIDE DEF g, next
    <3>1. \A n \in 0 .. N : n = 0 \/ n \in 1 .. N
      BY <1>1
    <3>2. \A n \in 0 .. N : g[n] = f[n]
      BY <1>5, <2>1, <3>1
    <3> QED
      BY <2>2, <3>2
  <2> QED
    BY <2>3
<1>7. written = [n \in 0 .. Len(KeyOrder) |->
                   IF n = 0 THEN <<>>
                   ELSE IF KeyOrder[n] \notin DOMAIN of THEN written[n - 1]
                   ELSE written[n - 1] \o (IF written[n - 1] = <<>> THEN <<>> ELSE <<",">>)
                           \o member(KeyOrder[n])]
    BY <1>6
<1>8. Object(of) = [kind |-> "map", of |-> of, json |-> json]
    BY DEF Object
<1> HIDE DEF written
<1>9. written[0] = <<>> /\ \A n \in 1 .. N : written[n] = next(written[n - 1], n)
  <2> DEFINE body == [n \in 0 .. N |-> IF n = 0 THEN <<>> ELSE next(written[n - 1], n)]
  <2>1. written = body
    BY <1>7
  <2>2. \A n \in 0 .. N : body[n] = IF n = 0 THEN <<>> ELSE next(written[n - 1], n)
    OBVIOUS
  <2> HIDE DEF body, next
  <2> QED
    BY <1>1, <2>1, <2>2
<1> DEFINE S == {n \in 0 .. N : written[n] \in Text}
<1>10. N \in S
  <2>1. 0 \in S
    <3>1. written[0] \in Text
      BY <1>9, Literals
    <3> QED
      BY <1>1, <3>1
  <2>2. ASSUME NEW n \in 1 .. N, n - 1 \in S PROVE n \in S
    <3> HIDE DEF next
    <3> QED
      BY <1>3, <1>9, <2>2
  <2> HIDE DEF S
  <2>3. \A n \in 0 .. N : n \in S
    BY <1>1, <2>1, <2>2, UpTo
  <2> QED
    BY <1>1, <2>3
<1>11. json \in Text
    BY <1>10, Literals, Joined
<1> HIDE DEF json
<1> QED
    BY <1>8, <1>11 DEF Typed

(* So is a map with one more.                                              *)
LEMMA PutTyped ==
    ASSUME NEW m, Typed(m), NEW name, NEW value \in Values
    PROVE  Typed(Put(m, name, value)) /\ Put(m, name, value).kind = "map"
PROOF
<1> DEFINE old == IF m.kind = "map" THEN m.of ELSE <<>>
           new == [k \in DOMAIN old \cup {name} |-> IF k = name THEN value ELSE old[k]]
<1>1. \A key \in DOMAIN old : old[key] \in Values
    BY DEF Typed
<1>2. \A key \in DOMAIN new : new[key] \in Values
  <2> HIDE DEF old
  <2> QED
    BY <1>1
<1>3. Put(m, name, value) = Object(new)
    BY DEF Put
<1> HIDE DEF new
<1> QED
    BY <1>2, <1>3, ObjectTyped

-----------------------------------------------------------------------------
(* Types *)

\* The types of the variables: the sources of values hold values, and what a
\* call reads and writes is text.
Typing ==
    /\ Held(config)
    /\ call.op \in {"ResolveString", "EvaluateCondition"} /\ call.text \in Text
    /\ phase \in {"idle", "resolving", "returned"}
    /\ result \in Text
    /\ verdict \in BOOLEAN
    /\ used \in SUBSET Text

(* A replacement puts a text between two parts of the result.              *)
LEMMA ReplaceMeans ==
    ASSUME Held(config), result \in Text, Replace
    PROVE  \E t \in FirstTemplate(result), value \in Text :
             /\ value = Replacement(ResolvePath(t.path))
             /\ t = Template(result, t.start, t.end) /\ Stands(result, t.start, t.end)
             /\ SubSeq(result, 1, t.start - 1) \in Text
             /\ SubSeq(result, t.end + 2, Len(result)) \in Text
             /\ result' = SubSeq(result, 1, t.start - 1) \o value
                            \o SubSeq(result, t.end + 2, Len(result))
             /\ used' = used \cup {value}
PROOF
<1>1. PICK t \in FirstTemplate(result) : \E value \in {Replacement(ResolvePath(t.path))} :
             /\ result' = SubSeq(result, 1, t.start - 1) \o value
                            \o SubSeq(result, t.end + 2, Len(result))
             /\ used' = used \cup {value}
    BY DEF Replace
<1> DEFINE value == Replacement(ResolvePath(t.path))
<1>2. /\ result' = SubSeq(result, 1, t.start - 1) \o value
                     \o SubSeq(result, t.end + 2, Len(result))
      /\ used' = used \cup {value}
    BY <1>1
<1>3. t = Template(result, t.start, t.end) /\ Stands(result, t.start, t.end)
    BY TemplatePlaces
<1>4. /\ t.start \in Nat /\ t.end \in Nat /\ Len(result) \in Nat
      /\ 1 <= t.start /\ t.start + 2 <= t.end /\ t.end + 1 <= Len(result)
    BY <1>3 DEF Stands, Text
<1>5. SubSeq(result, t.start + 2, t.end - 1) \in Text
  <2>1. t.start + 2 \in Nat \ {0} /\ t.end - 1 \in 0 .. Len(result)
    BY <1>4
  <2> QED
    BY <2>1, PartOf
<1>6. t.path \in Text
    BY <1>3, <1>5, TrimmedText DEF Template
<1>7. value \in Text
    BY <1>6, ValueOfPath
<1>8. SubSeq(result, 1, t.start - 1) \in Text
    BY <1>3, PlainBefore
<1>9. SubSeq(result, t.end + 2, Len(result)) \in Text
  <2>1. t.end + 2 \in Nat \ {0} /\ Len(result) \in 0 .. Len(result)
    BY <1>4
  <2> QED
    BY <2>1, PartOf
<1> HIDE DEF value
<1> QED
    BY <1>2, <1>3, <1>7, <1>8, <1>9 DEF value

(* It holds at first and after every step.                                 *)
LEMMA TypingBegins == Init => Typing
PROOF
<1> SUFFICES ASSUME Init PROVE Typing
    OBVIOUS
<1>1. Sources(config) /\ \A root \in Roots : config[root] \in Values
    BY ResolverAssumption DEF Init
<1>2. Held(config)
    BY <1>1, TypedValues DEF Held
<1>3. /\ phase = "idle" /\ call = [op |-> "ResolveString", text |-> <<>>]
      /\ result = <<>> /\ verdict = FALSE /\ used = {}
    BY DEF Init, Idle
<1> QED
    BY <1>2, <1>3, Literals DEF Typing

LEMMA TypingKept == Typing /\ [Next]_vars => Typing'
PROOF
<1> SUFFICES ASSUME Typing, [Next]_vars PROVE Typing'
    OBVIOUS
<1>1. Held(config) /\ result \in Text
    BY DEF Typing
<1>2. ASSUME NEW op \in {"ResolveString", "EvaluateCondition"}, NEW text \in Templates, Call(op, text)
      PROVE  Typing'
  <2>1. text \in Text
    BY Literals, ResolverAssumption
  <2>2. /\ call' = [op |-> op, text |-> text] /\ phase' = "resolving" /\ result' = text
        /\ verdict' = FALSE /\ used' = {} /\ config' = config
    BY <1>2 DEF Call
  <2> QED
    BY <2>1, <2>2 DEF Typing, Held
<1>3. CASE Replace
  <2>1. PICK t \in FirstTemplate(result), value \in Text :
             /\ SubSeq(result, 1, t.start - 1) \in Text
             /\ SubSeq(result, t.end + 2, Len(result)) \in Text
             /\ result' = SubSeq(result, 1, t.start - 1) \o value
                            \o SubSeq(result, t.end + 2, Len(result))
             /\ used' = used \cup {value}
    BY <1>1, <1>3, ReplaceMeans
  <2>2. result' \in Text
    BY <2>1, Joined
  <2>3. config' = config /\ call' = call /\ phase' = phase /\ verdict' = verdict
    BY <1>3 DEF Replace
  <2> QED
    BY <2>1, <2>2, <2>3 DEF Typing, Held
<1>4. CASE Return
  <2>1. verdict' \in BOOLEAN
    BY <1>4, Zenon DEF Return
  <2>2. /\ phase' = "returned" /\ config' = config /\ call' = call
        /\ result' = result /\ used' = used
    BY <1>4 DEF Return
  <2> QED
    BY <2>1, <2>2 DEF Typing, Held
<1>5. ASSUME NEW root \in {<<"var">>, <<"nodes">>}, NEW name, NEW value \in Values,
             config' = [config EXCEPT ![root] = Put(@, name, value)],
             Idle(phase', call', result', verdict', used')
      PROVE  Typing'
  <2>1. root \in Roots /\ DOMAIN config = Roots
    BY <1>1 DEF Held, Sources, Roots
  <2> DEFINE new == Put(config[root], name, value)
  <2>2. Typed(new) /\ new.kind = "map"
    BY <1>1, <2>1, PutTyped DEF Held
  <2> HIDE DEF new
  <2>3. DOMAIN config' = Roots /\ \A r \in Roots : config'[r] = IF r = root THEN new ELSE config[r]
    BY <1>5, <2>1 DEF new
  <2>4. Sources(config)'
    BY <1>1, <2>2, <2>3 DEF Held, Sources
  <2>5. \A r \in Roots : Typed(config'[r])
    BY <1>1, <2>2, <2>3 DEF Held
  <2>6. Held(config)'
    BY <2>4, <2>5 DEF Held, Sources
  <2>7. /\ phase' = "idle" /\ call' = [op |-> "ResolveString", text |-> <<>>]
        /\ result' = <<>> /\ verdict' = FALSE /\ used' = {}
    BY <1>5 DEF Idle
  <2> QED
    BY <2>6, <2>7, Literals DEF Typing
<1>6. ASSUME NEW name \in Names, NEW value \in Settable, SetVariable(name, value)
      PROVE  Typing'
    BY <1>5, <1>6, ResolverAssumption DEF SetVariable
<1>7. ASSUME NEW name \in Names, NEW output \in Outputs, SetStepOutput(name, output)
      PROVE  Typing'
    BY <1>5, <1>7, ResolverAssumption DEF SetStepOutput
<1>8. CASE UNCHANGED vars
    BY <1>8 DEF Typing, Held, vars
<1> QED
    BY <1>2, <1>3, <1>4, <1>6, <1>7, <1>8 DEF Next, Turn

(* Sources, texts and what was put in keep their types.                    *)
THEOREM TypingInvariant == Spec => []Typing
PROOF BY TypingBegins, TypingKept, PTL DEF Spec

-----------------------------------------------------------------------------
(* What Substituted computes *)

First(s) == CHOOSE t \in FirstTemplate(s) : TRUE

\* The value that stands for each path.
Given == [path \in Text |-> Replacement(ResolvePath(path))]

\* From place i on: what replaces the text up to the end of the first
\* template, and the place behind that.
Piece(text, i, given) ==
    SubSeq(Rest(text, i), 1, First(Rest(text, i)).start - 1) \o given[First(Rest(text, i)).path]
Behind(text, i) == i + First(Rest(text, i)).end + 1

\* The recursion of Substituted: from[i] is the rest of the text from i on
\* with its templates replaced.
Recurs(from, text, given) ==
    \A i \in 1 .. Len(text) + 1 :
       from[i] = IF ~HasTemplate(Rest(text, i)) THEN Rest(text, i)
                 ELSE Piece(text, i, given) \o from[Behind(text, i)]

IsFrom(from, text, given) ==
    from \in [1 .. Len(text) + 1 -> Text] /\ Recurs(from, text, given)

(* A text with a template has one first template.                          *)
LEMMA FirstIs ==
    ASSUME NEW s \in Text, HasTemplate(s)
    PROVE  /\ FirstTemplate(s) = {First(s)}
           /\ First(s) = Template(s, First(s).start, First(s).end)
           /\ Stands(s, First(s).start, First(s).end)
           /\ First(s).path \in Text
PROOF
<1>1. First(s) \in FirstTemplate(s)
    BY DEF HasTemplate, First
<1>2. /\ First(s) = Template(s, First(s).start, First(s).end)
      /\ Stands(s, First(s).start, First(s).end)
    BY <1>1, TemplatePlaces
<1>3. FirstTemplate(s) = {First(s)}
  <2> DEFINE start == FindTemplateStart(s)
             end == FindTemplateEnd(s, start)
  <2>1. /\ start # 0 /\ end # 0 => FirstTemplate(s) = {Template(s, start, end)}
        /\ HasTemplate(s) <=> start # 0 /\ end # 0
    <3> HIDE DEF start, end
    <3> QED
      BY TemplateIs DEF start, end
  <2> HIDE DEF start, end
  <2> QED
    BY <1>1, <2>1
<1>4. SubSeq(s, First(s).start + 2, First(s).end - 1) \in Text
  <2>1. First(s).start + 2 \in Nat \ {0} /\ First(s).end - 1 \in 0 .. Len(s)
    BY <1>2 DEF Stands, Text
  <2> QED
    BY <2>1, PartOf
<1>5. First(s).path \in Text
    BY <1>2, <1>4, TrimmedText DEF Template
<1> QED
    BY <1>2, <1>3, <1>5

(* The rest of a rest is the rest from a later place on.                   *)
LEMMA RestOfRest ==
    ASSUME NEW text \in Text, NEW i \in 1 .. Len(text) + 1,
           NEW k \in 1 .. Len(Rest(text, i)) + 1
    PROVE  /\ Rest(Rest(text, i), k) = Rest(text, i + k - 1)
           /\ i + k - 1 \in 1 .. Len(text) + 1
PROOF
<1> DEFINE r == Rest(text, i)
           left == Rest(r, k)
           right == Rest(text, i + k - 1)
<1>0. Len(text) \in Nat
    BY DEF Text
<1>1. /\ r \in Text /\ Len(r) = Len(text) + 1 - i /\ Len(text) \in Nat
      /\ \A j \in 1 .. Len(text) + 1 - i : r[j] = text[i + j - 1]
    BY <1>0, RestOf
<1> HIDE DEF r
<1>2. k \in 1 .. Len(r) + 1
    BY DEF r
<1>3. i + k - 1 \in 1 .. Len(text) + 1
    BY <1>1, <1>2
<1>4. /\ left \in Text /\ Len(left) = Len(r) + 1 - k
      /\ \A j \in 1 .. Len(r) + 1 - k : left[j] = r[k + j - 1]
    BY <1>1, <1>2, RestOf
<1>5. /\ right \in Text /\ Len(right) = Len(text) + 1 - (i + k - 1)
      /\ \A j \in 1 .. Len(text) + 1 - (i + k - 1) : right[j] = text[i + k - 1 + j - 1]
    BY <1>3, RestOf
<1> HIDE DEF left, right
<1>6. Len(left) = Len(right)
    BY <1>1, <1>2, <1>4, <1>5
<1>7. ASSUME NEW j \in 1 .. Len(left) PROVE left[j] = right[j]
  <2>1. /\ j \in 1 .. Len(r) + 1 - k /\ j \in 1 .. Len(text) + 1 - (i + k - 1)
        /\ k + j - 1 \in 1 .. Len(text) + 1 - i
        /\ i + (k + j - 1) - 1 = i + k - 1 + j - 1
    BY <1>1, <1>2, <1>4
  <2> QED
    BY <1>1, <1>4, <1>5, <2>1
<1>8. left = right
    BY <1>4, <1>5, <1>6, <1>7, SameText
<1> QED
    BY <1>3, <1>8 DEF left, right, r

(* Where there is a template, its piece is a text and it ends further on.  *)
LEMMA PieceText ==
    ASSUME NEW text \in Text, NEW i \in 1 .. Len(text) + 1, HasTemplate(Rest(text, i)),
           NEW given \in [Text -> Text]
    PROVE  /\ Piece(text, i, given) \in Text
           /\ Behind(text, i) \in (i + 1) .. (Len(text) + 1)
           /\ Rest(Rest(text, i), First(Rest(text, i)).end + 2) = Rest(text, Behind(text, i))
PROOF
<1> DEFINE r == Rest(text, i)
           t == First(r)
<1>1. r \in Text /\ Len(r) = Len(text) + 1 - i /\ Len(text) \in Nat
    BY RestOf DEF Text
<1>2. Stands(r, t.start, t.end) /\ t.path \in Text
    BY <1>1, FirstIs
<1>3. Behind(text, i) = i + t.end + 1
    BY DEF Behind
<1>4. /\ t.start \in Nat /\ t.end \in Nat
      /\ 1 <= t.start /\ t.start + 2 <= t.end /\ t.end + 1 <= Len(r)
    BY <1>2 DEF Stands
<1>5. SubSeq(r, 1, t.start - 1) \in Text
    BY <1>1, <1>2, PlainBefore
<1>6. Rest(r, t.end + 2) = Rest(text, i + (t.end + 2) - 1)
  <2> HIDE DEF t
  <2>1. t.end + 2 \in 1 .. Len(r) + 1
    BY <1>1, <1>4
  <2> QED
    BY <2>1, RestOfRest
<1> HIDE DEF r, t
<1>7. Piece(text, i, given) \in Text
  <2>1. given[t.path] \in Text
    BY <1>2
  <2>2. SubSeq(r, 1, t.start - 1) \o given[t.path] \in Text
    BY <1>5, <2>1, Joined
  <2> QED
    BY <2>2 DEF Piece, r, t
<1>8. /\ Behind(text, i) \in (i + 1) .. (Len(text) + 1)
      /\ Behind(text, i) = i + (t.end + 2) - 1
    BY <1>1, <1>3, <1>4
<1> QED
    BY <1>6, <1>7, <1>8 DEF r, t

(* The recursion has a solution, and one only.                             *)
LEMMA FromExists ==
    ASSUME NEW text \in Text, NEW given \in [Text -> Text]
    PROVE  \E from : IsFrom(from, text, given)
PROOF
<1> DEFINE N == Len(text) + 1
           Stop == {i \in 1 .. N : ~HasTemplate(Rest(text, i))}
           last == [i \in 1 .. N |-> Rest(text, i)]
           later == [i \in 1 .. N |-> Behind(text, i)]
           put(i, s) == IF i \in Stop THEN s ELSE Piece(text, i, given) \o s
           step == [x \in (1 .. N) \X Text |-> put(x[1], x[2])]
<1>1. N \in Nat
    BY DEF Text
<1>2. last \in [1 .. N -> Text]
    BY RestOf
<1>3. \A i \in (1 .. N) \ Stop : later[i] = Behind(text, i) /\ later[i] \in (i + 1) .. N
    BY PieceText
<1>4. ASSUME NEW i \in 1 .. N, NEW s \in Text PROVE put(i, s) \in Text
    BY PieceText, Joined
<1>5. /\ step \in [(1 .. N) \X Text -> Text]
      /\ \A i \in 1 .. N, s \in Text : step[<<i, s>>] = put(i, s)
  <2> HIDE DEF put
  <2> QED
    BY <1>4
<1>6. \A i \in 1 .. N : last[i] = Rest(text, i) /\ (i \in Stop <=> ~HasTemplate(Rest(text, i)))
    OBVIOUS
<1>7. \A i \in 1 .. N : \A s : i \notin Stop => put(i, s) = Piece(text, i, given) \o s
    OBVIOUS
<1> HIDE DEF N, Stop, last, later, put, step
<1>8. PICK f : FollowsLater(f, N, Text, Stop, last, later, step)
    BY <1>1, <1>2, <1>3, <1>5, FromLater
<1>9. ASSUME NEW i \in 1 .. N
      PROVE  f[i] = IF ~HasTemplate(Rest(text, i)) THEN Rest(text, i)
                    ELSE Piece(text, i, given) \o f[Behind(text, i)]
  <2>1. f \in [1 .. N -> Text] /\ f[i] = IF i \in Stop THEN last[i] ELSE step[<<i, f[later[i]]>>]
    BY <1>8 DEF FollowsLater
  <2>2. CASE i \in Stop
    BY <1>6, <2>1, <2>2
  <2>3. CASE i \notin Stop
    <3>1. later[i] = Behind(text, i) /\ later[i] \in 1 .. N
      BY <1>1, <1>3, <2>3
    <3>2. f[later[i]] \in Text
      BY <2>1, <3>1
    <3>3. f[i] = Piece(text, i, given) \o f[later[i]]
      BY <1>5, <1>7, <2>1, <2>3, <3>2
    <3> QED
      BY <1>6, <2>3, <3>1, <3>3
  <2> QED
    BY <2>2, <2>3
<1>10. IsFrom(f, text, given)
    BY <1>8, <1>9 DEF IsFrom, Recurs, FollowsLater, N
<1> QED
    BY <1>10

LEMMA FromOnce ==
    ASSUME NEW text \in Text, NEW given \in [Text -> Text],
           NEW f, IsFrom(f, text, given), NEW g, Recurs(g, text, given)
    PROVE  \A i \in 1 .. Len(text) + 1 : g[i] = f[i]
PROOF
<1> DEFINE N == Len(text) + 1
           S == {i \in 1 .. N : g[i] = f[i]}
<1>1. N \in Nat
    BY DEF Text
<1>2. ASSUME NEW j \in 1 .. N, (j + 1) .. N \subseteq S PROVE j \in S
  <2>1. /\ f[j] = IF ~HasTemplate(Rest(text, j)) THEN Rest(text, j)
                  ELSE Piece(text, j, given) \o f[Behind(text, j)]
        /\ g[j] = IF ~HasTemplate(Rest(text, j)) THEN Rest(text, j)
                  ELSE Piece(text, j, given) \o g[Behind(text, j)]
    BY DEF IsFrom, Recurs
  <2>2. HasTemplate(Rest(text, j)) => Behind(text, j) \in (j + 1) .. N
    BY PieceText
  <2>3. HasTemplate(Rest(text, j)) => g[Behind(text, j)] = f[Behind(text, j)]
    BY <1>2, <2>2
  <2> QED
    BY <2>1, <2>3
<1> HIDE DEF S
<1>3. \A j \in 1 .. N : j \in S
    BY <1>1, <1>2, DownTo
<1> QED
    BY <1>3 DEF S

(* Its first value is what Substituted returns.                            *)
LEMMA SubstitutedIs ==
    ASSUME Held(config), NEW text \in Text
    PROVE  /\ Given \in [Text -> Text]
           /\ \A from : IsFrom(from, text, Given) => Substituted(text) = from[1]
PROOF
<1>1. Given \in [Text -> Text] /\ \A path \in Text : Given[path] = Replacement(ResolvePath(path))
    BY ValueOfPath DEF Given
<1> DEFINE rest(i) == SubSeq(text, i, Len(text))
           body(g, i) ==
               IF ~HasTemplate(rest(i)) THEN rest(i)
               ELSE LET t == CHOOSE t \in FirstTemplate(rest(i)) : TRUE
                    IN  SubSeq(rest(i), 1, t.start - 1) \o Replacement(ResolvePath(t.path))
                           \o g[i + t.end + 1]
           from[i \in 1 .. (Len(text) + 1)] ==
               IF ~HasTemplate(rest(i)) THEN rest(i)
               ELSE LET t == CHOOSE t \in FirstTemplate(rest(i)) : TRUE
                    IN  SubSeq(rest(i), 1, t.start - 1) \o Replacement(ResolvePath(t.path))
                           \o from[i + t.end + 1]
<1>2. ASSUME NEW g, NEW i \in 1 .. Len(text) + 1
      PROVE  body(g, i) = IF ~HasTemplate(Rest(text, i)) THEN Rest(text, i)
                          ELSE Piece(text, i, Given) \o g[Behind(text, i)]
  <2>1. rest(i) = Rest(text, i) /\ Rest(text, i) \in Text
    BY RestOf DEF Rest
  <2>2. CASE ~HasTemplate(Rest(text, i))
    BY <2>1, <2>2
  <2>3. CASE HasTemplate(Rest(text, i))
    <3>1. First(Rest(text, i)).path \in Text
      BY <2>1, <2>3, FirstIs
    <3>2. Given[First(Rest(text, i)).path] = Replacement(ResolvePath(First(Rest(text, i)).path))
      BY <1>1, <3>1
    <3>3. body(g, i) = SubSeq(Rest(text, i), 1, First(Rest(text, i)).start - 1)
                         \o Replacement(ResolvePath(First(Rest(text, i)).path))
                         \o g[i + First(Rest(text, i)).end + 1]
      BY <2>3 DEF First, Rest
    <3> QED
      BY <2>3, <3>2, <3>3 DEF Piece, Behind
  <2> QED
    BY <2>2, <2>3
<1>3. \E g : g = [i \in 1 .. (Len(text) + 1) |-> body(g, i)]
  <2>1. PICK f : IsFrom(f, text, Given)
    BY <1>1, FromExists
  <2>2. f = [i \in 1 .. (Len(text) + 1) |-> f[i]]
    BY <2>1 DEF IsFrom
  <2>3. \A i \in 1 .. (Len(text) + 1) : f[i] = body(f, i)
    <3> HIDE DEF body
    <3> QED
      BY <1>2, <2>1 DEF IsFrom, Recurs
  <2>4. f = [i \in 1 .. (Len(text) + 1) |-> body(f, i)]
    <3> HIDE DEF body
    <3> QED
      BY <2>2, <2>3
  <2> QED
    BY <2>4
<1>4. from = [i \in 1 .. (Len(text) + 1) |-> body(from, i)]
    BY <1>3
<1>5. Substituted(text) = from[1]
    BY DEF Substituted
<1> HIDE DEF from, body
<1>6. Recurs(from, text, Given)
    BY <1>2, <1>4 DEF Recurs
<1>7. 1 \in 1 .. Len(text) + 1
    BY DEF Text
<1>8. ASSUME NEW f, IsFrom(f, text, Given) PROVE Substituted(text) = f[1]
    BY <1>1, <1>5, <1>6, <1>7, <1>8, FromOnce
<1> QED
    BY <1>1, <1>8

-----------------------------------------------------------------------------
(* The loop of ResolveString *)

\* The loop has come to place i of the text it was given: before that stands
\* what is no longer read, and the rest is as it was.  The places it came by
\* are W, and the values it put in there are in clean.
Reached(given, text, res, clean, from, pre, i, W) ==
    /\ IsFrom(from, text, given)
    /\ pre \in Text /\ Plain(pre)
    /\ i \in 1 .. Len(text) + 1
    /\ res = pre \o Rest(text, i)
    /\ from[1] = pre \o from[i]
    /\ 1 \in W /\ i \in W
    /\ \A j \in W \ {i} : given[First(Rest(text, j)).path] \in clean /\ Behind(text, j) \in W

Reaches(given, text, res, clean) ==
    \E from, pre, i, W : Reached(given, text, res, clean, from, pre, i, W)

Loop ==
    (phase # "idle" /\ \A text \in used : Plain(text))
    => /\ Reaches(Given, call.text, result, used)
       /\ phase = "returned" => ~HasTemplate(result)

(* It begins at the first character.                                       *)
LEMMA LoopBegins ==
    ASSUME NEW text \in Text, NEW given \in [Text -> Text]
    PROVE  Reaches(given, text, text, {})
PROOF
<1>1. PICK from : IsFrom(from, text, given)
    BY FromExists
<1>2. Len(text) \in Nat /\ 1 \in 1 .. Len(text) + 1
    BY DEF Text
<1>3. Plain(<<>>)
  <2>1. Len(<<>>) = 0 /\ 1 .. (Len(<<>>) - 1) = {}
    OBVIOUS
  <2> QED
    BY <2>1, Literals, PlainMeans
<1>4. Rest(text, 1) = text
    BY SubSeqFull DEF Rest, Text
<1>5. \A s \in Text : <<>> \o s = s
    BY ConcatEmptySeq DEF Text
<1>6. from[1] \in Text
    BY <1>1, <1>2 DEF IsFrom
<1>7. Reached(given, text, text, {}, from, <<>>, 1, {1})
    BY <1>1, <1>2, <1>3, <1>4, <1>5, <1>6, Literals DEF Reached
<1> QED
    BY <1>7 DEF Reaches

(* A replacement takes it behind the first template of the rest.           *)
LEMMA LoopGoesOn ==
    ASSUME NEW text \in Text, NEW given \in [Text -> Text],
           NEW res \in Text, NEW clean, Reaches(given, text, res, clean),
           NEW t \in FirstTemplate(res), NEW value \in Text,
           value = given[t.path], Plain(value)
    PROVE  Reaches(given, text, SubSeq(res, 1, t.start - 1) \o value
                                  \o SubSeq(res, t.end + 2, Len(res)), clean \cup {value})
PROOF
<1>1. PICK from, pre, i, W : Reached(given, text, res, clean, from, pre, i, W)
    BY DEF Reaches
<1> DEFINE r == Rest(text, i)
           s == First(r)
           head == SubSeq(r, 1, s.start - 1)
           tail == SubSeq(r, s.end + 2, Len(r))
           piece == Piece(text, i, given)
           k == Behind(text, i)
<1>2. /\ IsFrom(from, text, given) /\ pre \in Text /\ Plain(pre)
      /\ i \in 1 .. Len(text) + 1 /\ res = pre \o r /\ from[1] = pre \o from[i]
    BY <1>1 DEF Reached
<1>3. r \in Text /\ Len(res) = Len(pre) + Len(r) /\ Len(pre) \in Nat /\ Len(r) \in Nat
  <2>1. r \in Text
    BY <1>2, RestOf
  <2> HIDE DEF r
  <2> QED
    BY <1>2, <2>1, Joined
<1>4. HasTemplate(r)
  <2>1. HasTemplate(res)
    BY DEF HasTemplate
  <2> HIDE DEF r
  <2> QED
    BY <1>2, <1>3, <2>1, TemplateShifts
<1>5. FirstTemplate(r) = {s} /\ Stands(r, s.start, s.end) /\ s.path \in Text
    BY <1>3, <1>4, FirstIs
<1>6. t = Shifted(s, Len(pre))
  <2> HIDE DEF r, s
  <2>1. s \in FirstTemplate(r)
    BY <1>5
  <2>2. FirstTemplate(pre \o r) = {Shifted(s, Len(pre))}
    BY <1>2, <1>3, <2>1, TemplateShifts
  <2> QED
    BY <1>2, <2>2
<1>7. /\ piece \in Text /\ k \in (i + 1) .. (Len(text) + 1)
      /\ Rest(r, s.end + 2) = Rest(text, k)
    BY <1>2, <1>4, PieceText
<1>8. tail = Rest(text, k)
    BY <1>7 DEF Rest
<1>9. piece = head \o given[s.path]
    BY DEF Piece
<1>10. from[i] = piece \o from[k]
    BY <1>2, <1>4 DEF IsFrom, Recurs
<1>11. head \in Text /\ Plain(head)
    BY <1>3, <1>5, PlainBefore
<1> HIDE DEF r, s, head, tail, piece, k
<1>12. t.start = Len(pre) + s.start /\ t.end = Len(pre) + s.end /\ t.path = s.path
    BY <1>6 DEF Shifted
<1>13. /\ s.start \in Nat /\ s.end \in Nat
       /\ 1 <= s.start /\ s.start + 2 <= s.end /\ s.end + 1 <= Len(r)
    BY <1>5 DEF Stands
<1>14. SubSeq(res, 1, t.start - 1) = pre \o head
  <2>1. s.start - 1 \in 0 .. Len(r) /\ t.start - 1 = Len(pre) + (s.start - 1)
    BY <1>3, <1>12, <1>13
  <2> QED
    <3>1. \A n \in 0 .. Len(r) : SubSeq(pre \o r, 1, Len(pre) + n) = pre \o SubSeq(r, 1, n)
      BY <1>2, <1>3, FrontKept
    <3>2. SubSeq(pre \o r, 1, Len(pre) + (s.start - 1)) = pre \o SubSeq(r, 1, s.start - 1)
      BY <2>1, <3>1
    <3> QED
      BY <1>2, <2>1, <3>2 DEF head
<1>15. SubSeq(res, t.end + 2, Len(res)) = tail
  <2>1. /\ Len(r) \in 0 .. Len(r) /\ s.end + 2 \in 1 .. Len(r) + 1
        /\ t.end + 2 = Len(pre) + (s.end + 2)
    <3>1. Len(r) \in 0 .. Len(r)
      BY <1>3
    <3>2. s.end + 2 \in 1 .. Len(r) + 1
      BY <1>3, <1>13
    <3>3. t.end + 2 = Len(pre) + (s.end + 2)
      BY <1>3, <1>12, <1>13
    <3> QED
      BY <3>1, <3>2, <3>3
  <2> QED
    <3>1. \A m \in 1 .. Len(r) + 1 : SubSeq(pre \o r, Len(pre) + m, Len(pre) + Len(r)) = SubSeq(r, m, Len(r))
      BY <1>2, <1>3, PartShifts
    <3>2. SubSeq(pre \o r, Len(pre) + (s.end + 2), Len(pre) + Len(r)) = SubSeq(r, s.end + 2, Len(r))
      BY <2>1, <3>1
    <3> QED
      BY <1>2, <1>3, <2>1, <3>2 DEF tail
<1>16. value = given[s.path]
    BY <1>12
<1> DEFINE put == (pre \o head) \o value
<1>17. put \in Text /\ Plain(put) /\ put = pre \o piece
  <2>1. pre \o head \in Text /\ put \in Text
    BY <1>2, <1>11, Joined
  <2>2. Plain(pre \o head)
    BY <1>2, <1>11, PlainJoined
  <2>3. Plain(put)
    BY <2>1, <2>2, PlainJoined
  <2>4. put = pre \o (head \o value)
    <3>1. pre \in Text /\ head \in Text /\ value \in Text
      BY <1>2, <1>11
    <3> QED
      BY <3>1, Associates, Zenon
  <2> QED
    BY <1>9, <1>16, <2>1, <2>3, <2>4
<1>18. k \in 1 .. Len(text) + 1 /\ from[k] \in Text
  <2>1. k \in 1 .. Len(text) + 1
    BY <1>2, <1>7
  <2> QED
    BY <1>2, <2>1 DEF IsFrom
<1> HIDE DEF put
<1>19. from[1] = put \o from[k]
  <2>1. (pre \o piece) \o from[k] = pre \o (piece \o from[k])
    <3> DEFINE behind == from[k]
    <3>1. pre \in Text /\ piece \in Text /\ behind \in Text
      BY <1>2, <1>7, <1>18
    <3> HIDE DEF behind
    <3>2. (pre \o piece) \o behind = pre \o (piece \o behind)
      BY <3>1, Associates
    <3> QED
      BY <3>2 DEF behind
  <2> QED
    BY <1>2, <1>10, <1>17, <2>1
<1>20. Reached(given, text, put \o tail, clean \cup {value}, from, put, k, W \cup {k})
  <2>1. ASSUME NEW j \in (W \cup {k}) \ {k}
        PROVE  given[First(Rest(text, j)).path] \in clean \cup {value} /\ Behind(text, j) \in W \cup {k}
    <3>1. CASE j = i
      <4>1. given[First(Rest(text, j)).path] = value /\ Behind(text, j) = k
        BY <1>16, <3>1 DEF s, r, k
      <4> QED
        BY <4>1
    <3>2. CASE j # i
      BY <1>1, <3>2 DEF Reached
    <3> QED
      BY <3>1, <3>2
  <2>2. 1 \in W
    BY <1>1 DEF Reached
  <2> QED
    BY <1>2, <1>8, <1>17, <1>18, <1>19, <2>1, <2>2 DEF Reached
<1>21. SubSeq(res, 1, t.start - 1) \o value \o SubSeq(res, t.end + 2, Len(res)) = put \o tail
    BY <1>14, <1>15 DEF put
<1> QED
    BY <1>20, <1>21 DEF Reaches

\* The places the recursion comes by have their values in clean.
Visits(text, given, clean) ==
    \E W : /\ 1 \in W
           /\ \A j \in W : HasTemplate(Rest(text, j)) =>
                 given[First(Rest(text, j)).path] \in clean /\ Behind(text, j) \in W

(* When no template is left it has come to the end.                        *)
LEMMA LoopEnds ==
    ASSUME NEW text \in Text, NEW given, NEW res, NEW clean,
           Reaches(given, text, res, clean), ~HasTemplate(res)
    PROVE  /\ \E from : IsFrom(from, text, given) /\ res = from[1]
           /\ Visits(text, given, clean)
PROOF
<1>1. PICK from, pre, i, W : Reached(given, text, res, clean, from, pre, i, W)
    BY DEF Reaches
<1>2. /\ IsFrom(from, text, given) /\ pre \in Text /\ Plain(pre)
      /\ i \in 1 .. Len(text) + 1 /\ res = pre \o Rest(text, i) /\ from[1] = pre \o from[i]
    BY <1>1 DEF Reached
<1>3. Rest(text, i) \in Text
    BY <1>2, RestOf
<1>4. ~HasTemplate(Rest(text, i))
    BY <1>2, <1>3, TemplateShifts
<1>5. from[i] = Rest(text, i)
    BY <1>2, <1>4 DEF IsFrom, Recurs
<1>6. Visits(text, given, clean)
  <2>1. 1 \in W /\ \A j \in W : HasTemplate(Rest(text, j)) =>
           given[First(Rest(text, j)).path] \in clean /\ Behind(text, j) \in W
    BY <1>1, <1>4 DEF Reached
  <2> QED
    BY <2>1 DEF Visits
<1> QED
    BY <1>2, <1>5, <1>6

(* The loop's invariant holds at first and after every step.               *)
LEMMA LoopKept == Typing /\ Loop /\ [Next]_vars => Loop'
PROOF
<1> SUFFICES ASSUME Typing, Loop, [Next]_vars PROVE Loop'
    OBVIOUS
<1>1. Held(config) /\ call.text \in Text /\ result \in Text
    BY DEF Typing
<1>2. Given \in [Text -> Text] /\ \A path \in Text : Given[path] = Replacement(ResolvePath(path))
    BY <1>1, ValueOfPath DEF Given
<1>3. ASSUME config' = config PROVE Given' = Given
  <2>1. \A path \in Text : ResolvePath(path)' = ResolvePath(path)
    BY <1>3 DEF ResolvePath
  <2> QED
    BY <1>3 DEF Given, ResolvePath
<1>4. ASSUME NEW op \in {"ResolveString", "EvaluateCondition"}, NEW text \in Templates, Call(op, text)
      PROVE  Loop'
  <2>1. text \in Text
    BY Literals, ResolverAssumption
  <2>2. /\ call'.text = text /\ phase' = "resolving" /\ result' = text
        /\ config' = config /\ used' = {}
    BY <1>4 DEF Call
  <2>3. Reaches(Given, text, text, {})
    BY <1>2, <2>1, LoopBegins
  <2>4. Reaches(Given', call'.text, result', used')
    BY <1>3, <2>2, <2>3
  <2> QED
    BY <2>2, <2>4 DEF Loop
<1>5. CASE Replace
  <2>1. PICK t \in FirstTemplate(result), value \in Text :
             /\ value = Replacement(ResolvePath(t.path))
             /\ t = Template(result, t.start, t.end) /\ Stands(result, t.start, t.end)
             /\ result' = SubSeq(result, 1, t.start - 1) \o value
                            \o SubSeq(result, t.end + 2, Len(result))
             /\ used' = used \cup {value}
    BY <1>1, <1>5, ReplaceMeans
  <2>2. config' = config /\ call' = call /\ phase' = "resolving" /\ phase = "resolving"
    BY <1>5 DEF Replace
  <2>3. ASSUME \A text \in used' : Plain(text) PROVE Reaches(Given', call'.text, result', used')
    <3>1. Plain(value) /\ Reaches(Given, call.text, result, used)
      BY <2>1, <2>2, <2>3 DEF Loop
    <3>2. t.path \in Text
      <4>1. HasTemplate(result)
        BY DEF HasTemplate
      <4> QED
        BY <1>1, <4>1, FirstIs
    <3>3. value = Given[t.path]
      BY <1>2, <2>1, <3>2
    <3>4. Reaches(Given, call.text, SubSeq(result, 1, t.start - 1) \o value
                                      \o SubSeq(result, t.end + 2, Len(result)),
                        used \cup {value})
      BY <1>1, <1>2, <3>1, <3>3, LoopGoesOn
    <3> QED
      BY <1>3, <2>1, <2>2, <3>4
  <2> QED
    BY <2>2, <2>3 DEF Loop
<1>6. CASE Return
  <2>1. /\ ~HasTemplate(result) /\ config' = config /\ call' = call
        /\ result' = result /\ used' = used /\ phase = "resolving"
    BY <1>6 DEF Return
  <2> QED
    BY <1>3, <2>1 DEF Loop
<1>7. ASSUME phase' = "idle" PROVE Loop'
    BY <1>7 DEF Loop
<1>8. CASE UNCHANGED vars
  <2>1. /\ config' = config /\ call' = call /\ phase' = phase
        /\ result' = result /\ used' = used
    BY <1>8 DEF vars
  <2> QED
    BY <1>3, <2>1 DEF Loop
<1> QED
    BY <1>4, <1>5, <1>6, <1>7, <1>8 DEF Next, Turn, SetVariable, SetStepOutput, Idle

THEOREM LoopInvariant == Spec => [](Typing /\ Loop)
PROOF
<1>1. Init => Loop
    BY DEF Init, Idle, Loop
<1> QED
    BY <1>1, TypingBegins, TypingKept, LoopKept, PTL DEF Spec

(* ResolveString starts again from the first character after every         *)
(* replacement, and returns its text with every template replaced where it *)
(* stands and no other, as long as no value it puts in begins a template   *)
(* (ResolvesOnce): whatever the configuration, the text and the paths.     *)
THEOREM ReplacesEachOnce == Spec => []ResolvesOnce
PROOF
<1>1. Typing /\ Loop => ResolvesOnce
  <2> SUFFICES ASSUME Typing, Loop, phase = "returned", \A text \in used : Plain(text)
               PROVE  result = Substituted(call.text)
    BY DEF ResolvesOnce
  <2>1. Held(config) /\ call.text \in Text
    BY DEF Typing
  <2>2. Reaches(Given, call.text, result, used) /\ ~HasTemplate(result)
    BY DEF Loop
  <2>3. PICK from : IsFrom(from, call.text, Given) /\ result = from[1]
    BY <2>1, <2>2, LoopEnds
  <2> QED
    BY <2>1, <2>3, SubstitutedIs
<1> QED
    BY <1>1, LoopInvariant, PTL

-----------------------------------------------------------------------------
(* Two texts put together *)

LEMMA PairsKept ==
    ASSUME NEW s \in Text, NEW u \in Text, NEW a, NEW b, NEW j \in 1 .. (Len(s) - 1)
    PROVE  Pair(s \o u, j, a, b) <=> Pair(s, j, a, b)
PROOF
<1>1. Len(s) \in Nat /\ \A i \in 1 .. Len(s) : (s \o u)[i] = s[i]
    BY Joined
<1>2. j \in 1 .. Len(s) /\ j + 1 \in 1 .. Len(s)
    BY <1>1
<1> QED
    BY <1>1, <1>2 DEF Pair

LEMMA PartKept ==
    ASSUME NEW s \in Text, NEW u \in Text, NEW m \in Nat \ {0}, NEW n \in 0 .. Len(s)
    PROVE  SubSeq(s \o u, m, n) = SubSeq(s, m, n)
PROOF
<1> DEFINE v == s \o u
           left == SubSeq(v, m, n)
           right == SubSeq(s, m, n)
<1>1. /\ v \in Text /\ Len(v) = Len(s) + Len(u) /\ Len(s) \in Nat /\ Len(u) \in Nat
      /\ \A i \in 1 .. Len(s) : v[i] = s[i]
    BY Joined
<1>2. n \in 0 .. Len(v)
    BY <1>1
<1>3. /\ left \in Text /\ Len(left) = IF m <= n THEN n - m + 1 ELSE 0
      /\ \A i \in 1 .. n - m + 1 : left[i] = v[m + i - 1]
  <2> HIDE DEF v
  <2> QED
    BY <1>1, <1>2, PartOf
<1>4. /\ right \in Text /\ Len(right) = IF m <= n THEN n - m + 1 ELSE 0
      /\ \A i \in 1 .. n - m + 1 : right[i] = s[m + i - 1]
    BY PartOf
<1> HIDE DEF v, left, right
<1>5. Len(left) = Len(right)
    BY <1>3, <1>4
<1>6. ASSUME NEW i \in 1 .. Len(left) PROVE left[i] = right[i]
  <2>1. i \in 1 .. n - m + 1 /\ m + i - 1 \in 1 .. Len(s)
    BY <1>1, <1>3
  <2> QED
    BY <1>1, <1>3, <1>4, <2>1
<1>7. left = right
    BY <1>3, <1>4, <1>5, <1>6, SameText
<1> QED
    BY <1>7 DEF left, right, v

(* What is found in a text is found first when another follows.            *)
LEMMA FirstKept ==
    ASSUME NEW s \in Text, NEW u \in Text, NEW from \in Nat \ {0}, NEW a, NEW b,
           FirstPair(s, from, a, b) # 0
    PROVE  FirstPair(s \o u, from, a, b) = FirstPair(s, from, a, b)
PROOF
<1> DEFINE v == s \o u
           i == FirstPair(s, from, a, b)
<1>1. v \in Text /\ Len(v) = Len(s) + Len(u) /\ Len(s) \in Nat /\ Len(u) \in Nat
    BY Joined
<1>2. IsFirst(s, from, a, b, i)
    BY FirstPairFinds
<1>3. \A j \in 1 .. (Len(s) - 1) : Pair(v, j, a, b) <=> Pair(s, j, a, b)
    BY PairsKept
<1> HIDE DEF v, i
<1>4. /\ i \in from .. (Len(s) - 1) /\ Pair(s, i, a, b)
      /\ \A j \in from .. (i - 1) : ~Pair(s, j, a, b)
    BY <1>2 DEF IsFirst
<1>5. i \in from .. (Len(v) - 1) /\ i \in 1 .. (Len(s) - 1)
    BY <1>1, <1>4
<1>6. \A j \in from .. (i - 1) : j \in 1 .. (Len(s) - 1)
    BY <1>1, <1>4
<1>7. IsFirst(v, from, a, b, i)
    BY <1>3, <1>4, <1>5, <1>6 DEF IsFirst
<1>8. FirstPair(v, from, a, b) = i
    BY <1>1, <1>7, FirstPairIs
<1> QED
    BY <1>8 DEF v, i

(* A text's first template stays the first when another text follows.      *)
LEMMA TemplateKept ==
    ASSUME NEW s \in Text, NEW u \in Text, HasTemplate(s)
    PROVE  HasTemplate(s \o u) /\ First(s \o u) = First(s)
PROOF
<1> DEFINE v == s \o u
           t == First(s)
<1>1. v \in Text /\ Len(s) \in Nat
    BY Joined
<1>2. t = Template(s, t.start, t.end) /\ Stands(s, t.start, t.end)
    BY FirstIs
<1> HIDE DEF t
<1> DEFINE start == t.start
           end == t.end
<1>3. /\ start \in Nat /\ end \in Nat
      /\ 1 <= start /\ start + 2 <= end /\ end + 1 <= Len(s)
      /\ start = FindTemplateStart(s) /\ end = FindTemplateEnd(s, start)
    BY <1>2 DEF Stands
<1> HIDE DEF start, end
<1>4. FindTemplateStart(v) = start
  <2>1. start = FirstPair(s, 1, Opening, Opening)
    BY <1>3 DEF FindTemplateStart, Opening
  <2>2. FirstPair(v, 1, Opening, Opening) = start
    <3>1. start # 0 /\ 1 \in Nat \ {0}
      BY <1>3
    <3> QED
      BY <2>1, <3>1, FirstKept
  <2> QED
    BY <2>2 DEF FindTemplateStart, Opening
<1>5. FindTemplateEnd(v, start) = end
  <2>1. end = FirstPair(s, start + 2, Closing, Closing)
    BY <1>3 DEF FindTemplateEnd, Closing
  <2>2. end # 0 /\ start + 2 \in Nat \ {0}
    BY <1>3
  <2>3. FirstPair(v, start + 2, Closing, Closing) = end
    BY <2>1, <2>2, FirstKept
  <2> QED
    BY <2>3 DEF FindTemplateEnd, Closing
<1>6. start # 0 /\ end # 0
    BY <1>3
<1>7. FirstTemplate(v) = {Template(v, start, end)}
  <2> HIDE DEF v
  <2> QED
    BY <1>1, <1>4, <1>5, <1>6, TemplateIs
<1>8. SubSeq(v, start + 2, end - 1) = SubSeq(s, start + 2, end - 1)
  <2>1. start + 2 \in Nat \ {0} /\ end - 1 \in 0 .. Len(s)
    BY <1>1, <1>3
  <2> QED
    BY <2>1, PartKept
<1>9. Template(v, start, end) = t
    BY <1>2, <1>8 DEF Template, start, end
<1> HIDE DEF v
<1>10. FirstTemplate(v) = {t}
    BY <1>7, <1>9
<1>11. HasTemplate(v) /\ First(v) = t
    BY <1>10 DEF HasTemplate, First
<1> QED
    BY <1>11 DEF v, t

(* The end of a plain text is plain.                                       *)
LEMMA PlainEnd ==
    ASSUME NEW s \in Text, NEW t \in Text, Plain(s \o t)
    PROVE  Plain(t)
PROOF
<1> DEFINE u == s \o t
<1>1. /\ u \in Text /\ Len(u) = Len(s) + Len(t) /\ Len(s) \in Nat /\ Len(t) \in Nat
      /\ \A i \in 1 .. Len(t) : u[Len(s) + i] = t[i]
    BY Joined
<1>2. \A j \in 1 .. (Len(t) - 1) : Pair(u, Len(s) + j, Opening, Opening) <=> Pair(t, j, Opening, Opening)
    BY PairsShift
<1> HIDE DEF u
<1>3. /\ \A j \in 1 .. (Len(u) - 1) : ~Pair(u, j, Opening, Opening)
      /\ Len(u) # 0 => u[Len(u)] # Opening
    BY <1>1, PlainMeans DEF u
<1>4. ASSUME NEW j \in 1 .. (Len(t) - 1) PROVE ~Pair(t, j, Opening, Opening)
  <2>1. Len(s) + j \in 1 .. (Len(u) - 1)
    BY <1>1
  <2> QED
    BY <1>2, <1>3, <2>1
<1>5. Len(t) # 0 => t[Len(t)] # Opening
  <2>1. Len(t) # 0 => Len(t) \in 1 .. Len(t) /\ Len(u) # 0
    BY <1>1
  <2> QED
    BY <1>1, <1>3, <2>1
<1> QED
    BY <1>4, <1>5, PlainMeans

(* The rests of two texts together.                                        *)
LEMMA RestJoined ==
    ASSUME NEW p \in Text, NEW m \in Text
    PROVE  /\ \A j \in 1 .. Len(p) + 1 : Rest(p \o m, j) = Rest(p, j) \o m
           /\ \A k \in 1 .. Len(m) + 1 : Rest(p \o m, Len(p) + k) = Rest(m, k)
PROOF
<1> DEFINE u == p \o m
<1>1. /\ u \in Text /\ Len(u) = Len(p) + Len(m) /\ Len(p) \in Nat /\ Len(m) \in Nat
      /\ \A i \in 1 .. Len(p) : u[i] = p[i]
      /\ \A i \in 1 .. Len(m) : u[Len(p) + i] = m[i]
    BY Joined
<1>2. ASSUME NEW k \in 1 .. Len(m) + 1 PROVE Rest(u, Len(p) + k) = Rest(m, k)
  <2>1. Len(m) \in 0 .. Len(m)
    BY <1>1
  <2>2. SubSeq(p \o m, Len(p) + k, Len(p) + Len(m)) = SubSeq(m, k, Len(m))
    BY <2>1, PartShifts
  <2> QED
    BY <1>1, <2>2 DEF Rest
<1>3. ASSUME NEW j \in 1 .. Len(p) + 1 PROVE Rest(u, j) = Rest(p, j) \o m
  <2> DEFINE left == Rest(u, j)
             r == Rest(p, j)
             right == r \o m
  <2>1. j \in 1 .. Len(u) + 1
    BY <1>1
  <2>2. /\ left \in Text /\ Len(left) = Len(u) + 1 - j
        /\ \A i \in 1 .. Len(u) + 1 - j : left[i] = u[j + i - 1]
    <3> HIDE DEF u
    <3> QED
      BY <1>1, <2>1, RestOf
  <2>3. /\ r \in Text /\ Len(r) = Len(p) + 1 - j
        /\ \A i \in 1 .. Len(p) + 1 - j : r[i] = p[j + i - 1]
    BY RestOf
  <2>4. /\ right \in Text /\ Len(right) = Len(r) + Len(m)
        /\ \A i \in 1 .. Len(r) : right[i] = r[i]
        /\ \A i \in 1 .. Len(m) : right[Len(r) + i] = m[i]
    <3> HIDE DEF r
    <3> QED
      BY <2>3, Joined
  <2> HIDE DEF u, left, r, right
  <2>5. Len(left) = Len(right)
    BY <1>1, <2>2, <2>3, <2>4
  <2>6. ASSUME NEW i \in 1 .. Len(left) PROVE left[i] = right[i]
    <3>0. i \in 1 .. Len(u) + 1 - j /\ left[i] = u[j + i - 1]
      BY <2>2
    <3>1. CASE i <= Len(r)
      <4>1. i \in 1 .. Len(r) /\ i \in 1 .. Len(p) + 1 - j /\ j + i - 1 \in 1 .. Len(p)
        BY <1>1, <2>3, <3>1
      <4> QED
        BY <1>1, <2>3, <2>4, <3>0, <4>1
    <3>2. CASE i > Len(r)
      <4>1. PICK k \in 1 .. Len(m) : i = Len(r) + k
        <5>1. i - Len(r) \in 1 .. Len(m) /\ i = Len(r) + (i - Len(r))
          BY <1>1, <2>2, <2>3, <3>2
        <5> QED
          BY <5>1
      <4>2. j + i - 1 = Len(p) + k
        BY <1>1, <2>3, <4>1
      <4> QED
        BY <1>1, <2>4, <3>0, <4>1, <4>2
    <3>3. Len(r) \in Nat
      BY <1>1, <2>3
    <3> QED
      BY <3>1, <3>2, <3>3
  <2>7. left = right
    BY <2>2, <2>4, <2>5, <2>6, SameText
  <2> QED
    BY <2>7 DEF left, right, r
<1> QED
    BY <1>2, <1>3

(* How the recursion of p \o m goes on from a place in p.                  *)
LEMMA PlacesJoined ==
    ASSUME NEW p \in Text, NEW m \in Text, NEW given \in [Text -> Text],
           NEW j \in 1 .. Len(p) + 1
    PROVE  /\ HasTemplate(Rest(p, j))
              => /\ HasTemplate(Rest(p \o m, j))
                 /\ First(Rest(p \o m, j)).path = First(Rest(p, j)).path
                 /\ Piece(p \o m, j, given) = Piece(p, j, given)
                 /\ Behind(p \o m, j) = Behind(p, j)
           /\ Plain(Rest(p, j))
              => HasTemplate(Rest(p \o m, j)) <=> HasTemplate(m)
           /\ Plain(Rest(p, j)) /\ HasTemplate(m)
              => /\ First(Rest(p \o m, j)).path = First(m).path
                 /\ Piece(p \o m, j, given) = Rest(p, j) \o Piece(m, 1, given)
                 /\ Behind(p \o m, j) = Len(p) + Behind(m, 1)
PROOF
<1> DEFINE u == p \o m
           r == Rest(p, j)
<1>1. /\ r \in Text /\ Len(r) = Len(p) + 1 - j /\ Len(p) \in Nat
    BY RestOf, Joined
<1>2. Rest(u, j) = r \o m
    BY RestJoined
<1>3. Rest(m, 1) = m
    BY SubSeqFull DEF Rest, Text
<1> HIDE DEF u, r
<1>4. ASSUME HasTemplate(r)
      PROVE  /\ HasTemplate(Rest(u, j)) /\ First(Rest(u, j)).path = First(r).path
             /\ Piece(u, j, given) = Piece(p, j, given) /\ Behind(u, j) = Behind(p, j)
  <2> DEFINE t == First(r)
  <2>1. HasTemplate(Rest(u, j)) /\ First(Rest(u, j)) = t
    BY <1>1, <1>2, <1>4, TemplateKept
  <2>2. Stands(r, t.start, t.end)
    BY <1>1, <1>4, FirstIs
  <2> HIDE DEF t
  <2>3. t.start - 1 \in 0 .. Len(r) /\ 1 \in Nat \ {0}
    BY <1>1, <2>2 DEF Stands
  <2>4. SubSeq(r \o m, 1, t.start - 1) = SubSeq(r, 1, t.start - 1)
    BY <1>1, <2>3, PartKept
  <2>5. Piece(u, j, given) = Piece(p, j, given)
    BY <1>2, <2>1, <2>4 DEF Piece, r, t
  <2>6. Behind(u, j) = Behind(p, j)
    BY <2>1 DEF Behind, r, t
  <2> QED
    BY <2>1, <2>5, <2>6 DEF t
<1>5. ASSUME Plain(r) PROVE HasTemplate(Rest(u, j)) <=> HasTemplate(m)
    BY <1>1, <1>2, <1>5, TemplateShifts
<1>6. ASSUME Plain(r), HasTemplate(m)
      PROVE  /\ First(Rest(u, j)).path = First(m).path
             /\ Piece(u, j, given) = r \o Piece(m, 1, given)
             /\ Behind(u, j) = Len(p) + Behind(m, 1)
  <2> DEFINE s == First(m)
             t == First(r \o m)
  <2>1. FirstTemplate(m) = {s} /\ Stands(m, s.start, s.end) /\ s.path \in Text
    BY <1>6, FirstIs
  <2>2. t = Shifted(s, Len(r))
    <3> HIDE DEF s
    <3>1. FirstTemplate(r \o m) = {Shifted(s, Len(r))}
      <4>1. s \in FirstTemplate(m)
        BY <2>1
      <4> QED
        BY <1>1, <1>6, <4>1, TemplateShifts
    <3> QED
      BY <3>1 DEF First
  <2> HIDE DEF s, t
  <2>3. t.start = Len(r) + s.start /\ t.end = Len(r) + s.end /\ t.path = s.path
    BY <2>2 DEF Shifted
  <2>4. s.start \in Nat /\ s.end \in Nat /\ 1 <= s.start /\ s.start <= Len(m) /\ Len(m) \in Nat
    <3>1. Len(m) \in Nat
      BY Joined
    <3> QED
      BY <2>1, <3>1 DEF Stands
  <2>5. SubSeq(r \o m, 1, t.start - 1) = r \o SubSeq(m, 1, s.start - 1)
    <3>1. \A n \in 0 .. Len(m) : SubSeq(r \o m, 1, Len(r) + n) = r \o SubSeq(m, 1, n)
      BY <1>1, FrontKept
    <3>2. s.start - 1 \in 0 .. Len(m) /\ t.start - 1 = Len(r) + (s.start - 1)
      BY <1>1, <2>3, <2>4
    <3>3. SubSeq(r \o m, 1, Len(r) + (s.start - 1)) = r \o SubSeq(m, 1, s.start - 1)
      BY <3>1, <3>2
    <3> QED
      BY <3>2, <3>3
  <2>6. SubSeq(m, 1, s.start - 1) \in Text /\ given[s.path] \in Text
    BY <2>1, PlainBefore
  <2>7. Piece(u, j, given) = (r \o SubSeq(m, 1, s.start - 1)) \o given[s.path]
    BY <1>2, <2>3, <2>5 DEF Piece, t
  <2>8. Piece(m, 1, given) = SubSeq(m, 1, s.start - 1) \o given[s.path]
    BY <1>3 DEF Piece, s
  <2>9. Piece(u, j, given) = r \o Piece(m, 1, given)
    <3> DEFINE head == SubSeq(m, 1, s.start - 1)
               value == given[s.path]
    <3>1. r \in Text /\ head \in Text /\ value \in Text
      BY <1>1, <2>6
    <3> HIDE DEF head, value
    <3>2. (r \o head) \o value = r \o (head \o value)
      BY <3>1, Associates
    <3> QED
      BY <2>7, <2>8, <3>2 DEF head, value
  <2>10. Behind(u, j) = j + t.end + 1 /\ Behind(m, 1) = 1 + s.end + 1
    BY <1>2, <1>3 DEF Behind, s, t
  <2>11. Behind(u, j) = Len(p) + Behind(m, 1)
    BY <1>1, <2>3, <2>4, <2>10
  <2>12. First(Rest(u, j)).path = First(m).path
    BY <1>2, <2>3 DEF s, t
  <2> QED
    BY <2>9, <2>11, <2>12
<1> QED
    BY <1>4, <1>5, <1>6 DEF u, r

(* Behind p it goes as it does in m alone.                                 *)
LEMMA PlacesBehind ==
    ASSUME NEW p \in Text, NEW m \in Text, NEW given, NEW k \in 1 .. Len(m) + 1
    PROVE  /\ Rest(p \o m, Len(p) + k) = Rest(m, k)
           /\ Piece(p \o m, Len(p) + k, given) = Piece(m, k, given)
           /\ HasTemplate(Rest(m, k)) => Behind(p \o m, Len(p) + k) = Len(p) + Behind(m, k)
PROOF
<1>1. Rest(p \o m, Len(p) + k) = Rest(m, k)
    BY RestJoined
<1>2. ASSUME HasTemplate(Rest(m, k)) PROVE Behind(p \o m, Len(p) + k) = Len(p) + Behind(m, k)
  <2> DEFINE t == First(Rest(m, k))
  <2>1. Stands(Rest(m, k), t.start, t.end)
    BY <1>2, RestOf, FirstIs
  <2>2. Behind(p \o m, Len(p) + k) = Len(p) + k + t.end + 1 /\ Behind(m, k) = k + t.end + 1
    BY <1>1 DEF Behind
  <2> HIDE DEF t
  <2>3. t.end \in Nat /\ Len(p) \in Nat
    BY <2>1, Joined DEF Stands
  <2> QED
    BY <2>2, <2>3
<1> QED
    BY <1>1, <1>2 DEF Piece

LEMMA FromBehind ==
    ASSUME NEW p \in Text, NEW m \in Text, NEW given \in [Text -> Text],
           NEW f, IsFrom(f, p \o m, given), NEW h, IsFrom(h, m, given)
    PROVE  \A k \in 1 .. Len(m) + 1 : f[Len(p) + k] = h[k]
PROOF
<1> DEFINE g == [k \in 1 .. Len(m) + 1 |-> f[Len(p) + k]]
<1>1. p \o m \in Text /\ Len(p \o m) = Len(p) + Len(m) /\ Len(p) \in Nat /\ Len(m) \in Nat
    BY Joined
<1>2. \A k \in 1 .. Len(m) + 1 : g[k] = f[Len(p) + k]
    OBVIOUS
<1> HIDE DEF g
<1>3. ASSUME NEW k \in 1 .. Len(m) + 1
      PROVE  g[k] = IF ~HasTemplate(Rest(m, k)) THEN Rest(m, k)
                    ELSE Piece(m, k, given) \o g[Behind(m, k)]
  <2>1. Len(p) + k \in 1 .. Len(p \o m) + 1
    BY <1>1
  <2>2. f[Len(p) + k] = IF ~HasTemplate(Rest(p \o m, Len(p) + k)) THEN Rest(p \o m, Len(p) + k)
                        ELSE Piece(p \o m, Len(p) + k, given) \o f[Behind(p \o m, Len(p) + k)]
    BY <2>1 DEF IsFrom, Recurs
  <2>3. CASE ~HasTemplate(Rest(m, k))
    BY <1>2, <2>2, <2>3, PlacesBehind
  <2>4. CASE HasTemplate(Rest(m, k))
    <3>1. Behind(m, k) \in 1 .. Len(m) + 1
      BY <1>1, <2>4, PieceText
    <3>2. g[Behind(m, k)] = f[Len(p) + Behind(m, k)]
      BY <1>2, <3>1
    <3>3. /\ HasTemplate(Rest(p \o m, Len(p) + k))
          /\ Piece(p \o m, Len(p) + k, given) = Piece(m, k, given)
          /\ Behind(p \o m, Len(p) + k) = Len(p) + Behind(m, k)
      BY <2>4, PlacesBehind
    <3> QED
      BY <1>2, <2>2, <2>4, <3>2, <3>3
  <2> QED
    BY <2>3, <2>4
<1>4. Recurs(g, m, given)
    BY <1>3 DEF Recurs
<1>5. \A k \in 1 .. Len(m) + 1 : g[k] = h[k]
    BY <1>4, FromOnce
<1> QED
    BY <1>2, <1>5

\* Recursions on p \o m, on p and on m.
Adjoin(p, m, given, f, g, h) ==
    /\ p \in Text /\ m \in Text /\ given \in [Text -> Text]
    /\ IsFrom(f, p \o m, given) /\ IsFrom(g, p, given) /\ IsFrom(h, m, given)

\* What the first leaves is what the others leave, put together.
Chained(f, g, h) == Plain(g[1]) => f[1] = g[1] \o h[1]

(* Where no template can reach from p into m, p \o m is replaced as p and  *)
(* m are.                                                                  *)
LEMMA FromJoins ==
    ASSUME NEW p, NEW m, NEW given, NEW f, NEW g, NEW h, Adjoin(p, m, given, f, g, h)
    PROVE  Chained(f, g, h)
PROOF
<1>0. /\ p \in Text /\ m \in Text /\ given \in [Text -> Text]
      /\ IsFrom(f, p \o m, given) /\ IsFrom(g, p, given) /\ IsFrom(h, m, given)
    BY DEF Adjoin
<1> USE <1>0
<1> DEFINE N == Len(p) + 1
           Joins(j) == Plain(g[j]) => f[j] = g[j] \o h[1]
           S == {j \in 1 .. N : Joins(j)}
<1>1. p \o m \in Text /\ Len(p \o m) = Len(p) + Len(m) /\ Len(p) \in Nat /\ Len(m) \in Nat
    BY Joined
<1>2. 1 \in 1 .. Len(m) + 1
    BY <1>1
<1>3. h[1] \in Text
    BY <1>2 DEF IsFrom
<1>4. ASSUME NEW j \in 1 .. N, Plain(g[j]),
             \A i \in (j + 1) .. N : Joins(i)
      PROVE  f[j] = g[j] \o h[1]
  <2>1. j \in 1 .. Len(p \o m) + 1
    BY <1>1
  <2>2. f[j] = IF ~HasTemplate(Rest(p \o m, j)) THEN Rest(p \o m, j)
               ELSE Piece(p \o m, j, given) \o f[Behind(p \o m, j)]
    BY <2>1 DEF IsFrom, Recurs
  <2>3. g[j] = IF ~HasTemplate(Rest(p, j)) THEN Rest(p, j)
               ELSE Piece(p, j, given) \o g[Behind(p, j)]
    BY DEF IsFrom, Recurs
  <2>4. Rest(p \o m, j) = Rest(p, j) \o m /\ Rest(p, j) \in Text
    BY RestJoined, RestOf
  <2>5. CASE HasTemplate(Rest(p, j))
    <3> DEFINE piece == Piece(p, j, given)
               b == Behind(p, j)
               later == g[b]
    <3>1. f[j] = piece \o f[b]
      BY <2>2, <2>5, PlacesJoined
    <3>2. piece \in Text /\ b \in (j + 1) .. N
      BY <2>5, PieceText
    <3>3. g[j] = piece \o later
      BY <2>3, <2>5
    <3> HIDE DEF piece, b
    <3>4. later \in Text
      <4>1. b \in 1 .. N
        BY <1>1, <3>2
      <4> QED
        BY <4>1 DEF IsFrom
    <3>5. Plain(later) => f[b] = later \o h[1]
      BY <1>4, <3>2
    <3> HIDE DEF later
    <3>6. Plain(later)
      BY <1>4, <3>2, <3>3, <3>4, PlainEnd
    <3>7. (piece \o later) \o h[1] = piece \o (later \o h[1])
      <4> DEFINE last == h[1]
      <4>1. piece \in Text /\ later \in Text /\ last \in Text
        BY <1>3, <3>2, <3>4
      <4> HIDE DEF last
      <4>2. (piece \o later) \o last = piece \o (later \o last)
        BY <4>1, Associates
      <4> QED
        BY <4>2 DEF last
    <3> QED
      BY <3>1, <3>3, <3>5, <3>6, <3>7
  <2>6. CASE ~HasTemplate(Rest(p, j))
    <3>1. g[j] = Rest(p, j) /\ Plain(Rest(p, j))
      BY <1>4, <2>3, <2>6
    <3>2. h[1] = IF ~HasTemplate(m) THEN m ELSE Piece(m, 1, given) \o h[Behind(m, 1)]
      <4>1. Rest(m, 1) = m
        BY SubSeqFull DEF Rest, Text
      <4> QED
        BY <1>2, <4>1 DEF IsFrom, Recurs
    <3>3. CASE ~HasTemplate(m)
      BY <2>2, <2>4, <3>1, <3>2, <3>3, PlacesJoined
    <3>4. CASE HasTemplate(m)
      <4> DEFINE piece == Piece(m, 1, given)
                 b == Behind(m, 1)
                 r == Rest(p, j)
      <4>1. f[j] = (r \o piece) \o f[Len(p) + b]
        BY <2>2, <3>1, <3>4, PlacesJoined
      <4>2. piece \in Text /\ b \in 1 .. Len(m) + 1
        <5>1. Rest(m, 1) = m
          BY SubSeqFull DEF Rest, Text
        <5> QED
          BY <1>1, <1>2, <3>4, <5>1, PieceText
      <4> HIDE DEF piece, b, r
      <4>3. f[Len(p) + b] = h[b]
        BY <4>2, FromBehind
      <4> DEFINE last == h[b]
      <4>4. last \in Text /\ r \in Text
        BY <2>4, <4>2 DEF IsFrom, r
      <4> HIDE DEF last
      <4>5. (r \o piece) \o last = r \o (piece \o last)
        BY <4>2, <4>4, Associates
      <4> QED
        BY <3>1, <3>2, <3>4, <4>1, <4>3, <4>5 DEF last, piece, b, r
    <3> QED
      BY <3>3, <3>4
  <2> QED
    BY <2>5, <2>6
<1>5. ASSUME NEW j \in 1 .. N, (j + 1) .. N \subseteq S PROVE j \in S
  <2>1. \A i \in (j + 1) .. N : Joins(i)
    BY <1>5
  <2>2. Joins(j)
    BY <1>4, <2>1
  <2> HIDE DEF Joins
  <2> QED
    BY <2>2
<1> HIDE DEF Joins
<1>6. \A j \in 1 .. N : Joins(j)
  <2>1. N \in Nat
    BY <1>1
  <2> HIDE DEF S
  <2>2. \A j \in 1 .. N : j \in S
    BY <1>5, <2>1, DownTo
  <2> QED
    BY <2>2 DEF S
<1> QED
  <2>1. 1 \in 1 .. N
    BY <1>1
  <2>2. Joins(1)
    BY <1>6, <2>1
  <2> QED
    BY <2>2 DEF Joins, Chained

(* The places that p \o m comes by in p are those that p alone comes by.   *)
LEMMA VisitsKept ==
    ASSUME NEW p \in Text, NEW m \in Text, NEW given \in [Text -> Text], NEW clean,
           Visits(p \o m, given, clean)
    PROVE  Visits(p, given, clean)
PROOF
<1>1. PICK W : /\ 1 \in W
               /\ \A j \in W : HasTemplate(Rest(p \o m, j)) =>
                     /\ given[First(Rest(p \o m, j)).path] \in clean
                     /\ Behind(p \o m, j) \in W
    BY DEF Visits
<1>2. Len(p) \in Nat
    BY DEF Text
<1> DEFINE V == {j \in W : j \in 1 .. Len(p) + 1}
<1>3. 1 \in V
    BY <1>1, <1>2
<1>4. ASSUME NEW j \in V, HasTemplate(Rest(p, j))
      PROVE  given[First(Rest(p, j)).path] \in clean /\ Behind(p, j) \in V
  <2>1. j \in W /\ j \in 1 .. Len(p) + 1
    OBVIOUS
  <2>2. /\ HasTemplate(Rest(p \o m, j))
        /\ First(Rest(p \o m, j)).path = First(Rest(p, j)).path
        /\ Behind(p \o m, j) = Behind(p, j)
    BY <1>4, <2>1, PlacesJoined
  <2>3. Behind(p, j) \in (j + 1) .. (Len(p) + 1)
    BY <1>4, <2>1, PieceText
  <2>4. Behind(p, j) \in 1 .. Len(p) + 1
    BY <1>2, <2>1, <2>3
  <2> QED
    BY <1>1, <2>1, <2>2, <2>4
<1> HIDE DEF V
<1> QED
    BY <1>3, <1>4 DEF Visits

(* Those behind p are those that m alone comes by.                         *)
LEMMA VisitsBehind ==
    ASSUME NEW p \in Text, NEW m \in Text, NEW given \in [Text -> Text], NEW clean,
           NEW g, IsFrom(g, p, given), Plain(g[1]), Visits(p \o m, given, clean)
    PROVE  Visits(m, given, clean)
PROOF
<1>1. PICK W : /\ 1 \in W
               /\ \A j \in W : HasTemplate(Rest(p \o m, j)) =>
                     /\ given[First(Rest(p \o m, j)).path] \in clean
                     /\ Behind(p \o m, j) \in W
    BY DEF Visits
<1>2. Len(p) \in Nat /\ Len(m) \in Nat
    BY DEF Text
<1> DEFINE T == {j \in 1 .. Len(p) + 1 : j \in W /\ Plain(g[j])}
<1>3. PICK x \in T : \A y \in T : y <= x
  <2>1. 1 \in T
    BY <1>1, <1>2
  <2>2. T \subseteq 0 .. Len(p) + 1 /\ Len(p) + 1 \in Nat
    BY <1>2
  <2> HIDE DEF T
  <2> QED
    BY <2>1, <2>2, Greatest
<1>4. x \in 1 .. Len(p) + 1 /\ x \in W /\ Plain(g[x])
    OBVIOUS
<1>5. ~HasTemplate(Rest(p, x))
  <2> SUFFICES ASSUME HasTemplate(Rest(p, x)) PROVE FALSE
    OBVIOUS
  <2> DEFINE b == Behind(p, x)
             piece == Piece(p, x, given)
             later == g[b]
  <2>1. b \in W
    BY <1>1, <1>4, PlacesJoined
  <2>2. piece \in Text /\ b \in (x + 1) .. (Len(p) + 1)
    BY <1>4, PieceText
  <2>3. g[x] = piece \o later
    BY <1>4 DEF IsFrom, Recurs
  <2> HIDE DEF b, piece
  <2>4. b \in 1 .. Len(p) + 1
    BY <1>2, <1>4, <2>2
  <2>5. later \in Text
    BY <2>4 DEF IsFrom
  <2> HIDE DEF later
  <2>6. Plain(later)
    BY <1>4, <2>2, <2>3, <2>5, PlainEnd
  <2>7. b \in T
    BY <2>1, <2>4, <2>6 DEF later
  <2> QED
    BY <1>2, <1>3, <1>4, <2>2, <2>7
<1>6. Plain(Rest(p, x))
    BY <1>4, <1>5 DEF IsFrom, Recurs
<1> DEFINE V == {k \in 1 .. Len(m) + 1 : k = 1 \/ Len(p) + k \in W}
<1>7. 1 \in V
    BY <1>2
<1>8. ASSUME NEW k \in V, HasTemplate(Rest(m, k))
      PROVE  given[First(Rest(m, k)).path] \in clean /\ Behind(m, k) \in V
  <2>1. k \in 1 .. Len(m) + 1 /\ (k = 1 \/ Len(p) + k \in W)
    OBVIOUS
  <2>2. Behind(m, k) \in 1 .. Len(m) + 1
    <3>1. Behind(m, k) \in (k + 1) .. (Len(m) + 1)
      BY <1>8, <2>1, PieceText
    <3> QED
      BY <1>2, <2>1, <3>1
  <2>3. CASE Len(p) + k \in W
    <3>1. /\ Rest(p \o m, Len(p) + k) = Rest(m, k)
          /\ Behind(p \o m, Len(p) + k) = Len(p) + Behind(m, k)
      BY <1>8, <2>1, PlacesBehind
    <3> QED
      BY <1>1, <1>8, <2>2, <2>3, <3>1
  <2>4. CASE k = 1
    <3>1. Rest(m, 1) = m
      BY SubSeqFull DEF Rest, Text
    <3>2. HasTemplate(m)
      BY <1>8, <2>4, <3>1
    <3>3. /\ HasTemplate(Rest(p \o m, x))
          /\ First(Rest(p \o m, x)).path = First(m).path
          /\ Behind(p \o m, x) = Len(p) + Behind(m, 1)
      BY <1>4, <1>6, <3>2, PlacesJoined
    <3> QED
      BY <1>1, <1>4, <2>2, <2>4, <3>1, <3>3
  <2> QED
    BY <2>1, <2>3, <2>4
<1> HIDE DEF V
<1> QED
    BY <1>7, <1>8 DEF Visits

\* No character of s is e.
Without(s, e) == \A i \in 1 .. Len(s) : s[i] # e

LEMMA WithoutJoined ==
    ASSUME NEW s \in Text, NEW t \in Text, NEW e
    PROVE  Without(s \o t, e) <=> Without(s, e) /\ Without(t, e)
PROOF
<1> DEFINE u == s \o t
<1>1. /\ Len(u) = Len(s) + Len(t) /\ Len(s) \in Nat /\ Len(t) \in Nat
      /\ \A i \in 1 .. Len(s) : u[i] = s[i]
      /\ \A i \in 1 .. Len(t) : u[Len(s) + i] = t[i]
    BY Joined
<1> HIDE DEF u
<1>2. ASSUME Without(u, e) PROVE Without(s, e) /\ Without(t, e)
  <2>1. \A i \in 1 .. Len(s) : i \in 1 .. Len(u)
    BY <1>1
  <2>2. \A i \in 1 .. Len(t) : Len(s) + i \in 1 .. Len(u)
    BY <1>1
  <2> QED
    BY <1>1, <1>2, <2>1, <2>2 DEF Without
<1>3. ASSUME Without(s, e), Without(t, e), NEW i \in 1 .. Len(u) PROVE u[i] # e
  <2>1. CASE i <= Len(s)
    <3>1. i \in 1 .. Len(s)
      BY <1>1, <2>1
    <3> QED
      BY <1>1, <1>3, <3>1 DEF Without
  <2>2. CASE i > Len(s)
    <3>1. PICK k \in 1 .. Len(t) : i = Len(s) + k
      <4>1. i - Len(s) \in 1 .. Len(t) /\ i = Len(s) + (i - Len(s))
        BY <1>1, <2>2
      <4> QED
        BY <4>1
    <3> QED
      BY <1>1, <1>3, <3>1 DEF Without
  <2> QED
    BY <1>1, <2>1, <2>2
<1> QED
    BY <1>2, <1>3 DEF Without, u

LEMMA WithoutPart ==
    ASSUME NEW s \in Text, NEW e, Without(s, e), NEW m \in Nat \ {0}, NEW n \in 0 .. Len(s)
    PROVE  Without(SubSeq(s, m, n), e)
PROOF
<1>1. /\ Len(SubSeq(s, m, n)) = IF m <= n THEN n - m + 1 ELSE 0
      /\ \A i \in 1 .. n - m + 1 : SubSeq(s, m, n)[i] = s[m + i - 1]
    BY PartOf
<1>2. Len(s) \in Nat
    BY DEF Text
<1> DEFINE p == SubSeq(s, m, n)
<1> HIDE DEF p
<1>3. ASSUME NEW i \in 1 .. Len(p) PROVE p[i] # e
  <2>1. i \in 1 .. n - m + 1 /\ m + i - 1 \in 1 .. Len(s)
    BY <1>1, <1>2 DEF p
  <2> QED
    BY <1>1, <2>1 DEF Without, p
<1> QED
    BY <1>3 DEF Without, p

(* A text without e in it, and with none in the values put in, is replaced *)
(* by a text without e.                                                    *)
LEMMA FromWithout ==
    ASSUME NEW text \in Text, NEW given \in [Text -> Text], NEW clean, NEW e,
           NEW f, IsFrom(f, text, given), Visits(text, given, clean),
           Without(text, e), \A value \in clean : Without(value, e)
    PROVE  Without(f[1], e)
PROOF
<1>1. PICK W : /\ 1 \in W
               /\ \A j \in W : HasTemplate(Rest(text, j)) =>
                     given[First(Rest(text, j)).path] \in clean /\ Behind(text, j) \in W
    BY DEF Visits
<1> DEFINE N == Len(text) + 1
           Cleared(j) == j \in W => Without(f[j], e)
           S == {j \in 1 .. N : Cleared(j)}
<1>2. N \in Nat /\ Len(text) \in Nat
    BY DEF Text
<1>3. ASSUME NEW j \in 1 .. N, (j + 1) .. N \subseteq S, j \in W PROVE Without(f[j], e)
  <2> DEFINE r == Rest(text, j)
  <2>1. r \in Text /\ Without(r, e)
    <3>1. j \in Nat \ {0} /\ Len(text) \in 0 .. Len(text)
      BY <1>2
    <3> QED
      BY <3>1, WithoutPart, RestOf DEF Rest
  <2>2. f[j] = IF ~HasTemplate(r) THEN r ELSE Piece(text, j, given) \o f[Behind(text, j)]
    BY DEF IsFrom, Recurs
  <2>3. CASE HasTemplate(r)
    <3> DEFINE t == First(r)
               head == SubSeq(r, 1, t.start - 1)
               value == given[t.path]
               b == Behind(text, j)
               later == f[b]
    <3>1. Stands(r, t.start, t.end) /\ t.path \in Text
      BY <2>1, <2>3, FirstIs
    <3>2. head \in Text /\ Without(head, e)
      <4> HIDE DEF r, t
      <4>1. t.start - 1 \in 0 .. Len(r) /\ 1 \in Nat \ {0}
        BY <2>1, <3>1 DEF Stands, Text
      <4> QED
        BY <2>1, <4>1, WithoutPart, PartOf
    <3>3. value \in Text /\ Without(value, e)
      BY <1>1, <1>3, <2>3, <3>1
    <3>4. b \in W /\ b \in (j + 1) .. N
      BY <1>1, <1>3, <2>3, PieceText
    <3>5. Piece(text, j, given) = head \o value
      BY DEF Piece
    <3> HIDE DEF b, head, value, r, t
    <3>6. later \in Text /\ Without(later, e)
      <4>1. b \in 1 .. N /\ b \in S
        BY <1>2, <1>3, <3>4
      <4> QED
        BY <3>4, <4>1 DEF IsFrom
    <3>7. f[j] = (head \o value) \o later
      BY <2>2, <2>3, <3>5 DEF b
    <3> HIDE DEF later
    <3>8. head \o value \in Text /\ Without(head \o value, e)
      BY <3>2, <3>3, Joined, WithoutJoined
    <3> QED
      BY <3>6, <3>7, <3>8, WithoutJoined
  <2>4. CASE ~HasTemplate(r)
    BY <2>1, <2>2, <2>4
  <2> QED
    BY <2>3, <2>4
<1>4. ASSUME NEW j \in 1 .. N, (j + 1) .. N \subseteq S PROVE j \in S
    BY <1>3, <1>4
<1> HIDE DEF S
<1>5. \A j \in 1 .. N : j \in S
    BY <1>2, <1>4, DownTo
<1>6. 1 \in S
    BY <1>2, <1>5
<1> QED
    BY <1>1, <1>6 DEF S

-----------------------------------------------------------------------------
(* Conditions *)

\* What stands in s at place i, with what is before and after it.
Around(s, i, sign) ==
    /\ s = SubSeq(s, 1, i - 1) \o (sign \o SubSeq(s, i + 2, Len(s)))
    /\ SubSeq(s, 1, i - 1) \in Text /\ SubSeq(s, i + 2, Len(s)) \in Text

(* A text is what stands before, in and after a pair of it.                *)
LEMMA Divided ==
    ASSUME NEW s \in Text, NEW a, NEW b, NEW i \in 1 .. (Len(s) - 1), Pair(s, i, a, b),
           <<a, b>> \in Text
    PROVE  Around(s, i, <<a, b>>)
PROOF
<1> DEFINE left == SubSeq(s, 1, i - 1)
           mid == SubSeq(s, i, i + 1)
           right == SubSeq(s, i + 2, Len(s))
           behind == SubSeq(s, i, Len(s))
<1>1. Len(s) \in Nat /\ s \in Seq(Character)
    BY DEF Text
<1>2. i \in Nat \ {0} /\ i - 1 \in 0 .. Len(s) /\ i + 1 \in 0 .. Len(s) /\ i + 2 \in Nat \ {0}
      /\ 1 \in Nat \ {0} /\ Len(s) \in 0 .. Len(s)
    BY <1>1
<1>3. left \in Text /\ right \in Text
    BY <1>2, PartOf
<1>4. mid = <<a, b>>
  <2>1. /\ mid \in Text /\ Len(mid) = IF i <= i + 1 THEN i + 1 - i + 1 ELSE 0
        /\ \A j \in 1 .. i + 1 - i + 1 : mid[j] = s[i + j - 1]
    BY <1>2, PartOf
  <2> DEFINE sign == <<a, b>>
  <2>2. sign \in Text /\ Len(sign) = 2 /\ sign[1] = a /\ sign[2] = b
    OBVIOUS
  <2> HIDE DEF mid, sign
  <2>3. Len(mid) = 2
    BY <1>2, <2>1
  <2>4. mid[1] = s[i] /\ mid[2] = s[i + 1]
    <3>1. 1 \in 1 .. i + 1 - i + 1 /\ 2 \in 1 .. i + 1 - i + 1 /\ i + 1 - 1 = i /\ i + 2 - 1 = i + 1
      BY <1>2
    <3>2. mid[1] = s[i + 1 - 1] /\ mid[2] = s[i + 2 - 1]
      BY <2>1, <3>1
    <3> QED
      BY <3>1, <3>2
  <2>5. \A j \in 1 .. 2 : j = 1 \/ j = 2
    OBVIOUS
  <2>6. \A j \in 1 .. Len(mid) : mid[j] = sign[j]
    BY <2>2, <2>3, <2>4, <2>5 DEF Pair
  <2>7. mid = sign
    BY <2>1, <2>2, <2>3, <2>6, SameText
  <2> QED
    BY <2>7 DEF sign
<1>5. left \o behind = SubSeq(s, 1, Len(s))
  <2>1. \A k \in 1 - 1 .. Len(s) : \A n \in k .. Len(s) :
           SubSeq(s, 1, k) \o SubSeq(s, k + 1, n) = SubSeq(s, 1, n)
    <3>1. 1 \in 1 .. Len(s) + 1
      BY <1>1
    <3> QED
      BY <1>1, <3>1, ConcatAdjacentSubSeq
  <2>2. i - 1 \in 1 - 1 .. Len(s) /\ Len(s) \in (i - 1) .. Len(s) /\ i - 1 + 1 = i
    BY <1>1
  <2>3. SubSeq(s, 1, i - 1) \o SubSeq(s, i - 1 + 1, Len(s)) = SubSeq(s, 1, Len(s))
    BY <2>1, <2>2
  <2> QED
    BY <2>2, <2>3
<1>6. mid \o right = behind
  <2>1. \A k \in i - 1 .. Len(s) : \A n \in k .. Len(s) :
           SubSeq(s, i, k) \o SubSeq(s, k + 1, n) = SubSeq(s, i, n)
    <3>1. i \in 1 .. Len(s) + 1
      BY <1>1
    <3> QED
      BY <1>1, <3>1, ConcatAdjacentSubSeq
  <2>2. i + 1 \in i - 1 .. Len(s) /\ Len(s) \in (i + 1) .. Len(s) /\ i + 1 + 1 = i + 2
    BY <1>1
  <2>3. SubSeq(s, i, i + 1) \o SubSeq(s, i + 1 + 1, Len(s)) = SubSeq(s, i, Len(s))
    BY <2>1, <2>2
  <2> QED
    BY <2>2, <2>3
<1>7. SubSeq(s, 1, Len(s)) = s
    BY <1>1, SubSeqFull
<1> QED
    BY <1>3, <1>4, <1>5, <1>6, <1>7 DEF Around

(* A sign begins no template.                                              *)
LEMMA PlainSign ==
    ASSUME NEW a, NEW b, <<a, b>> \in Text, a # Opening, b # Opening
    PROVE  Plain(<<a, b>>)
PROOF
<1> DEFINE sign == <<a, b>>
<1>1. sign \in Text /\ Len(sign) = 2 /\ sign[1] = a /\ sign[2] = b
    OBVIOUS
<1> HIDE DEF sign
<1>2. \A j \in 1 .. (Len(sign) - 1) : ~Pair(sign, j, Opening, Opening)
  <2>1. \A j \in 1 .. (Len(sign) - 1) : j = 1
    BY <1>1
  <2> QED
    BY <1>1, <2>1 DEF Pair
<1>3. Plain(sign)
    BY <1>1, <1>2, PlainMeans
<1> QED
    BY <1>3 DEF sign

(* A plain text is left as it is.                                          *)
LEMMA PlainStays ==
    ASSUME NEW text \in Text, Plain(text), NEW given, NEW f, IsFrom(f, text, given)
    PROVE  f[1] = text
PROOF
<1>1. ~HasTemplate(text)
    BY TemplateIs DEF Plain
<1>2. Rest(text, 1) = text
    BY SubSeqFull DEF Rest, Text
<1>3. 1 \in 1 .. Len(text) + 1
    BY DEF Text
<1> QED
    BY <1>1, <1>2, <1>3 DEF IsFrom, Recurs

\* With the strings out of sight of the provers' arithmetic.
Equal == "="
Bang == "!"

\* What replacing the templates of a text leaves.
Leaves(text, given, x) == \A from : IsFrom(from, text, given) => x = from[1]

\* A condition that stands divided by its first sign, into x and y.
Splits(s, a, e, x, y) ==
    /\ FirstPair(s, 1, a, e) # 0
    /\ a # e => FirstPair(s, 1, e, e) = 0
    /\ Before(s, FirstPair(s, 1, a, e)) = TrimSpace(x)
    /\ After(s, FirstPair(s, 1, a, e)) = TrimSpace(y)

\* A sign of a and e between two sides without an e.
Sides(left, sign, right, a, e) ==
    /\ left \in Text /\ right \in Text /\ Without(left, e) /\ Without(right, e)
    /\ sign \in Text /\ Len(sign) = 2 /\ sign[1] = a /\ sign[2] = e

\* What paths are replaced by: no e in what is used of it.
Puts(given, clean, e) == given \in [Text -> Text] /\ \A value \in clean : Without(value, e)

\* Recursions on a condition and its sides; the left side can begin no template.
Outcomes(left, sign, right, given, f, g, h) ==
    /\ IsFrom(f, left \o (sign \o right), given)
    /\ IsFrom(g, left, given) /\ IsFrom(h, right, given) /\ Plain(g[1])

\* The condition is what the sides are, with the sign between them.
Apart(f, g, h, sign, a, e) ==
    Sides(g[1], sign, h[1], a, e) /\ f[1] = g[1] \o (sign \o h[1])

(* Where a condition has a sign behind a left side that can begin no       *)
(* template, its sides are replaced each on its own, and with no e in them *)
(* or in the values put in there is none in the outcome but the sign's.    *)
LEMMA SidesApart ==
    ASSUME NEW left, NEW right, NEW sign, NEW a, NEW e, Sides(left, sign, right, a, e), Plain(sign),
           NEW given, NEW clean, Puts(given, clean, e),
           Visits(left \o (sign \o right), given, clean),
           NEW f, NEW g, NEW h, Outcomes(left, sign, right, given, f, g, h)
    PROVE  Apart(f, g, h, sign, a, e)
PROOF
<1>0. /\ left \in Text /\ right \in Text /\ sign \in Text
      /\ Without(left, e) /\ Without(right, e) /\ given \in [Text -> Text]
      /\ \A value \in clean : Without(value, e)
      /\ IsFrom(f, left \o (sign \o right), given)
      /\ IsFrom(g, left, given) /\ IsFrom(h, right, given) /\ Plain(g[1])
    BY DEF Sides, Puts, Outcomes
<1> USE <1>0
<1> DEFINE m == sign \o right
<1>1. sign \in Text /\ Plain(sign)
    OBVIOUS
<1>2. m \in Text
    BY <1>1, Joined
<1>3. 1 \in 1 .. Len(left) + 1 /\ 1 \in 1 .. Len(right) + 1 /\ 1 \in 1 .. Len(sign) + 1
    BY <1>1 DEF Text
<1>4. g[1] \in Text /\ h[1] \in Text
    BY <1>3 DEF IsFrom
<1>5. PICK k : IsFrom(k, m, given)
    BY <1>2, FromExists
<1>6. PICK l : IsFrom(l, sign, given)
    BY <1>1, FromExists
<1>7. l[1] = sign
    BY <1>1, <1>6, PlainStays
<1>8. k[1] = sign \o h[1]
  <2>1. Plain(l[1])
    BY <1>1, <1>7
  <2>2. IsFrom(k, sign \o right, given)
    BY <1>5
  <2>3. k[1] = l[1] \o h[1]
    <3>1. Adjoin(sign, right, given, k, l, h)
      BY <1>6, <2>2 DEF Adjoin
    <3>2. Chained(k, l, h)
      BY <3>1, FromJoins
    <3> QED
      BY <2>1, <3>2 DEF Chained
  <2> QED
    BY <1>7, <2>3
<1>9. IsFrom(f, left \o m, given) /\ Visits(left \o m, given, clean)
    OBVIOUS
<1> HIDE DEF m
<1>10. f[1] = g[1] \o k[1]
  <2>1. Adjoin(left, m, given, f, g, k)
    BY <1>2, <1>5, <1>9 DEF Adjoin
  <2>2. Chained(f, g, k)
    BY <2>1, FromJoins
  <2> QED
    BY <2>2 DEF Chained
<1>11. Visits(left, given, clean) /\ Visits(m, given, clean)
    BY <1>2, <1>9, VisitsKept, VisitsBehind
<1>12. Visits(right, given, clean)
  <2>1. Plain(l[1]) /\ Visits(sign \o right, given, clean)
    BY <1>1, <1>7, <1>11 DEF m
  <2> QED
    BY <1>1, <1>6, <2>1, VisitsBehind
<1>13. Without(g[1], e) /\ Without(h[1], e)
    BY <1>11, <1>12, FromWithout
<1> QED
    BY <1>4, <1>8, <1>10, <1>13 DEF m, Sides, Apart

(* In what comes out the sign is found where it is, and its sides are      *)
(* compared.                                                               *)
LEMMA SignFound ==
    ASSUME NEW left, NEW right, NEW sign, NEW a, NEW e, Sides(left, sign, right, a, e),
           NEW s, s = left \o (sign \o right)
    PROVE  Splits(s, a, e, left, right)
PROOF
<1>0. /\ left \in Text /\ right \in Text /\ sign \in Text
      /\ Without(left, e) /\ Without(right, e)
      /\ Len(sign) = 2 /\ sign[1] = a /\ sign[2] = e
    BY DEF Sides
<1> USE <1>0
<1> DEFINE m == sign \o right
<1>1. sign \in Text /\ Len(sign) = 2 /\ sign[1] = a /\ sign[2] = e
    OBVIOUS
<1>2. s = left \o m
    OBVIOUS
<1>3. /\ m \in Text /\ Len(m) = 2 + Len(right) /\ Len(right) \in Nat
      /\ m[1] = a /\ m[2] = e /\ \A i \in 1 .. Len(right) : m[2 + i] = right[i]
  <2>1. /\ m \in Text /\ Len(m) = Len(sign) + Len(right) /\ Len(right) \in Nat
        /\ \A i \in 1 .. Len(sign) : m[i] = sign[i]
        /\ \A i \in 1 .. Len(right) : m[Len(sign) + i] = right[i]
    BY <1>1, Joined
  <2> HIDE DEF m
  <2>2. 1 \in 1 .. Len(sign) /\ 2 \in 1 .. Len(sign)
    BY <1>1
  <2> QED
    BY <1>1, <2>1, <2>2
<1> HIDE DEF m
<1>4. /\ s \in Text /\ Len(s) = Len(left) + Len(m) /\ Len(left) \in Nat
      /\ \A i \in 1 .. Len(left) : s[i] = left[i]
      /\ \A i \in 1 .. Len(m) : s[Len(left) + i] = m[i]
  <2>1. /\ left \o m \in Text /\ Len(left \o m) = Len(left) + Len(m) /\ Len(left) \in Nat
        /\ \A i \in 1 .. Len(left) : (left \o m)[i] = left[i]
        /\ \A i \in 1 .. Len(m) : (left \o m)[Len(left) + i] = m[i]
    BY <1>3, Joined
  <2> QED
    BY <1>2, <2>1
<1>5. s[Len(left) + 1] = a /\ s[Len(left) + 2] = e
  <2>1. 1 \in 1 .. Len(m) /\ 2 \in 1 .. Len(m)
    BY <1>3
  <2> QED
    BY <1>3, <1>4, <2>1
<1>6. \A i \in 1 .. Len(left) : s[i] # e
    BY <1>4 DEF Without
<1>7. ASSUME NEW i \in (Len(left) + 3) .. Len(s) PROVE s[i] # e
  <2>1. PICK k \in 1 .. Len(right) : i = Len(left) + (2 + k)
    <3>1. /\ i - (Len(left) + 2) \in 1 .. Len(right)
          /\ i = Len(left) + (2 + (i - (Len(left) + 2)))
      BY <1>3, <1>4
    <3> QED
      BY <3>1
  <2>2. 2 + k \in 1 .. Len(m)
    BY <1>3, <2>1
  <2>3. s[i] = right[k]
    BY <1>3, <1>4, <2>1, <2>2
  <2> QED
    BY <2>1, <2>3 DEF Without
<1>8. FirstPair(s, 1, a, e) = Len(left) + 1
  <2>1. Len(left) + 1 \in 1 .. (Len(s) - 1) /\ Len(left) + 1 + 1 = Len(left) + 2 /\ 1 \in Nat \ {0}
    BY <1>3, <1>4
  <2>2. Pair(s, Len(left) + 1, a, e)
    BY <1>5, <2>1 DEF Pair
  <2>3. ASSUME NEW j \in 1 .. (Len(left) + 1 - 1) PROVE ~Pair(s, j, a, e)
    <3>1. CASE j < Len(left)
      <4>1. j + 1 \in 1 .. Len(left)
        BY <1>4, <3>1
      <4> QED
        BY <1>6, <4>1 DEF Pair
    <3>2. CASE j = Len(left)
      <4>1. j \in 1 .. Len(left) /\ j + 1 = Len(left) + 1
        BY <1>4, <3>2
      <4> QED
        BY <1>5, <1>6, <4>1 DEF Pair
    <3> QED
      BY <1>4, <3>1, <3>2
  <2> DEFINE i == Len(left) + 1
  <2>4. i \in 1 .. (Len(s) - 1) /\ Pair(s, i, a, e) /\ \A j \in 1 .. (i - 1) : ~Pair(s, j, a, e)
    BY <2>1, <2>2, <2>3
  <2> HIDE DEF i
  <2>5. IsFirst(s, 1, a, e, i)
    BY <2>4 DEF IsFirst
  <2>6. s \in Text
    BY <1>4
  <2>7. FirstPair(s, 1, a, e) = i
    BY <2>1, <2>5, <2>6, FirstPairIs
  <2> QED
    BY <2>7 DEF i
<1>9. ASSUME a # e PROVE FirstPair(s, 1, e, e) = 0
  <2>1. ASSUME NEW j \in 1 .. (Len(s) - 1) PROVE ~Pair(s, j, e, e)
    <3>1. CASE j <= Len(left)
      <4>1. j \in 1 .. Len(left)
        BY <1>4, <3>1
      <4> QED
        BY <1>6, <4>1 DEF Pair
    <3>2. CASE j = Len(left) + 1
      BY <1>5, <1>9, <3>2 DEF Pair
    <3>3. CASE j >= Len(left) + 2
      <4>1. j + 1 \in (Len(left) + 3) .. Len(s)
        BY <1>3, <1>4, <3>3
      <4> QED
        BY <1>7, <4>1 DEF Pair
    <3> QED
      BY <1>4, <3>1, <3>2, <3>3
  <2>2. 1 \in Nat \ {0} /\ s \in Text
    BY <1>4
  <2> QED
    BY <2>1, <2>2, NoPair
<1>10. SubSeq(s, 1, Len(left) + 1 - 1) = left
  <2>1. SubSeq(left \o m, 1, Len(left)) = SubSeq(left, 1, Len(left))
    <3>1. Len(left) \in 0 .. Len(left) /\ 1 \in Nat \ {0}
      BY <1>4
    <3> QED
      BY <1>3, <3>1, PartKept
  <2>2. SubSeq(left, 1, Len(left)) = left
    BY SubSeqFull DEF Text
  <2>3. Len(left) + 1 - 1 = Len(left)
    BY <1>4
  <2> QED
    BY <1>2, <2>1, <2>2, <2>3
<1>11. SubSeq(s, Len(left) + 1 + 2, Len(s)) = right
  <2>1. \A k \in 1 .. Len(m) + 1 : Rest(left \o m, Len(left) + k) = Rest(m, k)
    BY <1>3, RestJoined
  <2>2. \A k \in 1 .. Len(right) + 1 : Rest(sign \o right, Len(sign) + k) = Rest(right, k)
    BY <1>1, RestJoined
  <2>3. 3 \in 1 .. Len(m) + 1 /\ 1 \in 1 .. Len(right) + 1 /\ Len(sign) + 1 = 3
        /\ Len(left) + 1 + 2 = Len(left) + 3
    BY <1>1, <1>3, <1>4
  <2>4. Rest(left \o m, Len(left) + 3) = Rest(m, 3)
    BY <2>1, <2>3
  <2>5. Rest(m, 3) = Rest(right, 1)
    BY <2>2, <2>3 DEF m
  <2>6. Rest(right, 1) = right
    BY SubSeqFull DEF Rest, Text
  <2>7. Rest(s, Len(left) + 3) = right
    BY <1>2, <2>4, <2>5, <2>6
  <2> QED
    BY <2>3, <2>7 DEF Rest
<1> QED
  <2>1. Before(s, Len(left) + 1) = TrimSpace(left)
    <3> DEFINE i == Len(left) + 1
    <3>1. SubSeq(s, 1, i - 1) = left
      BY <1>10
    <3> HIDE DEF i
    <3>2. Before(s, i) = TrimSpace(left)
      BY <3>1, Zenon DEF Before
    <3> QED
      BY <3>2 DEF i
  <2>3. After(s, Len(left) + 1) = TrimSpace(right)
    BY <1>11, Zenon DEF After
  <2>2. Len(left) + 1 # 0
    BY <1>4
  <2> QED
    BY <1>8, <1>9, <2>1, <2>2, <2>3, Zenon DEF Splits

(* What the loop leaves of a condition is divided as the condition was.    *)
LEMMA SidesCompared ==
    ASSUME NEW left, NEW right, NEW sign, NEW a, NEW e, Sides(left, sign, right, a, e), Plain(sign),
           NEW given, NEW clean, Puts(given, clean, e),
           NEW res, Reaches(given, left \o (sign \o right), res, clean), ~HasTemplate(res),
           NEW x, NEW y, Leaves(left, given, x), Leaves(right, given, y), Plain(x)
    PROVE  Splits(res, a, e, x, y)
PROOF
<1> DEFINE text == left \o (sign \o right)
<1>0. left \in Text /\ right \in Text /\ sign \in Text /\ given \in [Text -> Text]
    BY DEF Sides, Puts
<1>1. text \in Text
  <2>1. sign \o right \in Text
    BY <1>0, Joined
  <2> QED
    BY <1>0, <2>1, Joined
<1>2. PICK g : IsFrom(g, left, given)
    BY <1>0, FromExists
<1>3. PICK h : IsFrom(h, right, given)
    BY <1>0, FromExists
<1>4. x = g[1] /\ y = h[1]
    BY <1>2, <1>3 DEF Leaves
<1>5. Reaches(given, text, res, clean)
    OBVIOUS
<1> HIDE DEF text
<1>6. Visits(text, given, clean) /\ \E f : IsFrom(f, text, given) /\ res = f[1]
    BY <1>1, <1>5, LoopEnds
<1>7. PICK f : IsFrom(f, text, given) /\ res = f[1]
    BY <1>6
<1>8. Sides(g[1], sign, h[1], a, e) /\ f[1] = g[1] \o (sign \o h[1])
  <2>1. Outcomes(left, sign, right, given, f, g, h)
    BY <1>2, <1>3, <1>4, <1>7 DEF text, Outcomes
  <2>2. Visits(left \o (sign \o right), given, clean)
    BY <1>6 DEF text
  <2>3. Apart(f, g, h, sign, a, e)
    BY <2>1, <2>2, SidesApart
  <2> QED
    BY <2>3 DEF Apart
<1>9. Sides(x, sign, y, a, e) /\ res = x \o (sign \o y)
    BY <1>4, <1>7, <1>8
<1> QED
    BY <1>9, SignFound

(* The condition of a call that has returned.                              *)
LEMMA CallDivided ==
    ASSUME Typing, Loop, phase = "returned",
           \A text \in used : Plain(text) /\ ~Contains(text, Equal),
           NEW a \in {Equal, Bang},
           NEW i, i = FirstPair(call.text, 1, a, Equal), i # 0,
           NEW left, left = SubSeq(call.text, 1, i - 1),
           NEW right, right = SubSeq(call.text, i + 2, Len(call.text)),
           ~Contains(left \o right, Equal), Plain(Substituted(left))
    PROVE  Splits(result, a, Equal, Substituted(left), Substituted(right))
PROOF
<1>1. Held(config) /\ call.text \in Text
    BY DEF Typing
<1>2. Reaches(Given, call.text, result, used) /\ ~HasTemplate(result)
    BY DEF Loop
<1>3. \A text \in used : Without(text, Equal)
    BY DEF Contains, Without
<1> DEFINE sign == <<a, Equal>>
<1>4. sign \in Text /\ Len(sign) = 2 /\ sign[1] = a /\ sign[2] = Equal
    BY Literals DEF Equal, Bang
<1>5. a # Opening /\ Equal # Opening
    BY DEF Equal, Bang, Opening
<1>6. Plain(sign)
    BY <1>4, <1>5, PlainSign
<1>7. i \in 1 .. (Len(call.text) - 1) /\ Pair(call.text, i, a, Equal)
  <2>1. 1 \in Nat \ {0}
    OBVIOUS
  <2>2. IsFirst(call.text, 1, a, Equal, i)
    BY <1>1, <2>1, FirstPairFinds
  <2> QED
    BY <2>2 DEF IsFirst
<1>8. call.text = left \o (sign \o right) /\ left \in Text /\ right \in Text
  <2> DEFINE text == call.text
  <2>1. /\ text \in Text /\ i \in 1 .. (Len(text) - 1) /\ Pair(text, i, a, Equal)
        /\ left = SubSeq(text, 1, i - 1) /\ right = SubSeq(text, i + 2, Len(text))
    BY <1>1, <1>7
  <2> HIDE DEF text
  <2>2. Around(text, i, sign)
    BY <1>4, <2>1, Divided
  <2> HIDE DEF sign
  <2>3. text = left \o (sign \o right) /\ left \in Text /\ right \in Text
    BY <2>1, <2>2 DEF Around
  <2> QED
    BY <2>3 DEF text
<1> HIDE DEF sign
<1>9. Without(left, Equal) /\ Without(right, Equal)
  <2>1. Without(left \o right, Equal)
    BY DEF Contains, Without
  <2>2. left \in Text /\ right \in Text
    BY <1>8
  <2> HIDE <1>8
  <2> QED
    BY <2>1, <2>2, WithoutJoined
<1>10. /\ Given \in [Text -> Text]
       /\ Leaves(left, Given, Substituted(left)) /\ Leaves(right, Given, Substituted(right))
    BY <1>1, <1>8, SubstitutedIs DEF Leaves
<1>11. Reaches(Given, left \o (sign \o right), result, used)
    BY <1>2, <1>8
<1> DEFINE given == Given
           x == Substituted(left)
           y == Substituted(right)
<1>12. /\ given \in [Text -> Text] /\ Leaves(left, given, x) /\ Leaves(right, given, y) /\ Plain(x)
       /\ Reaches(given, left \o (sign \o right), result, used)
    BY <1>10, <1>11
<1> HIDE DEF given, x, y
<1>13. Splits(result, a, Equal, x, y)
  <2>1. Sides(left, sign, right, a, Equal)
    BY <1>4, <1>8, <1>9 DEF Sides
  <2>2. Puts(given, used, Equal)
    BY <1>3, <1>12 DEF Puts
  <2> QED
    BY <1>2, <1>6, <1>12, <2>1, <2>2, SidesCompared
<1> QED
    BY <1>13 DEF x, y

\* EvaluateCondition has answered for the text that the loop left.
Judged == phase = "returned" => verdict = (call.op = "EvaluateCondition" /\ Holds(result))

LEMMA JudgedKept == Judged /\ [Next]_vars => Judged'
PROOF
<1> SUFFICES ASSUME Judged, [Next]_vars PROVE Judged'
    OBVIOUS
<1>1. ASSUME phase' # "returned" PROVE Judged'
    BY <1>1 DEF Judged
<1>2. ASSUME NEW op, NEW text, Call(op, text) PROVE Judged'
    BY <1>1, <1>2 DEF Call
<1>3. CASE Replace
    BY <1>1, <1>3 DEF Replace
<1>4. CASE Return
    BY <1>4, Zenon DEF Return, Judged
<1>5. CASE UNCHANGED vars
  <2>1. phase' = phase /\ verdict' = verdict /\ call' = call /\ result' = result
    BY <1>5 DEF vars
  <2> QED
    BY <2>1, Zenon DEF Judged
<1>6. ASSUME NEW name, NEW value, SetVariable(name, value) \/ SetStepOutput(name, value)
      PROVE  Judged'
    BY <1>1, <1>6 DEF SetVariable, SetStepOutput, Idle
<1> QED
    BY <1>2, <1>3, <1>4, <1>5, <1>6 DEF Next, Turn

(* EvaluateCondition looks for its sign in the resolved text, where the    *)
(* values stand, and yet compares the operands of the condition as it was  *)
(* written, with no value that holds a template or an equals sign          *)
(* (ComparesOperands): an exclamation mark in a value is no sign either.   *)
THEOREM ComparesAsWritten == Spec => []ComparesOperands
PROOF
<1>1. Init => Judged
    BY DEF Init, Idle, Judged
<1>2. Typing /\ Loop /\ Judged => ComparesOperands
  <2> SUFFICES ASSUME Typing, Loop, Judged, phase = "returned", call.op = "EvaluateCondition",
                      \A text \in used : Plain(text) /\ ~Contains(text, "=")
               PROVE  /\ DividesAt(EqualsIn(call.text), TRUE)
                      /\ EqualsIn(call.text) = 0 => DividesAt(DiffersIn(call.text), FALSE)
    BY DEF ComparesOperands
  <2> DEFINE Left(i) == SubSeq(call.text, 1, i - 1)
             Right(i) == SubSeq(call.text, i + 2, Len(call.text))
             x(i) == Substituted(Left(i))
             y(i) == Substituted(Right(i))
             Sole(i) == i # 0 /\ ~Contains(Left(i) \o Right(i), Equal) /\ Plain(x(i))
  <2>1. verdict = Holds(result)
    <3>1. Holds(result) \in BOOLEAN
      BY Zenon DEF Holds
    <3> QED
      BY <3>1, Zenon DEF Judged
  <2>2. ASSUME NEW a \in {Equal, Bang}, NEW i, i = FirstPair(call.text, 1, a, Equal), Sole(i)
        PROVE  Splits(result, a, Equal, x(i), y(i))
    BY <2>2, CallDivided DEF Equal
  <2>3. ASSUME NEW i, i = EqualsIn(call.text), Sole(i)
        PROVE  verdict = ((TrimSpace(x(i)) = TrimSpace(y(i))) = TRUE)
    <3>1. Splits(result, Equal, Equal, x(i), y(i))
      BY <2>2, <2>3 DEF EqualsIn, Equal
    <3>2. /\ EqualsIn(result) # 0
          /\ Before(result, EqualsIn(result)) = TrimSpace(x(i))
          /\ After(result, EqualsIn(result)) = TrimSpace(y(i))
      BY <3>1, Zenon DEF Splits, EqualsIn, Equal
    <3> QED
      BY <2>1, <3>2, Zenon DEF Holds
  <2>4. ASSUME NEW i, i = DiffersIn(call.text), Sole(i)
        PROVE  verdict = ((TrimSpace(x(i)) = TrimSpace(y(i))) = FALSE)
    <3>1. Splits(result, Bang, Equal, x(i), y(i))
      BY <2>2, <2>4 DEF DiffersIn, Equal, Bang
    <3>2. Bang # Equal
      BY DEF Bang, Equal
    <3>3. /\ EqualsIn(result) = 0 /\ DiffersIn(result) # 0
          /\ Before(result, DiffersIn(result)) = TrimSpace(x(i))
          /\ After(result, DiffersIn(result)) = TrimSpace(y(i))
      BY <3>1, <3>2, Zenon DEF Splits, EqualsIn, DiffersIn, Equal, Bang
    <3> QED
      BY <2>1, <3>3, Zenon DEF Holds
  <2>5. DividesAt(EqualsIn(call.text), TRUE)
    BY <2>3, Zenon DEF DividesAt, Equal
  <2>6. DividesAt(DiffersIn(call.text), FALSE)
    BY <2>4, Zenon DEF DividesAt, Equal
  <2> QED
    BY <2>5, <2>6
<1> QED
    BY <1>1, <1>2, JudgedKept, LoopInvariant, PTL DEF Spec

-----------------------------------------------------------------------------
(* What a turn uses up *)

(* The closing braces of a text are a finite number.                       *)
LEMMA CountTyped ==
    ASSUME NEW s \in Text
    PROVE  IsFiniteSet(Closings(s)) /\ Count(s) \in Nat
PROOF
<1>1. Len(s) \in Nat /\ DOMAIN s = 1 .. Len(s)
    BY DEF Text
<1>2. IsFiniteSet(1 .. Len(s))
    BY <1>1, FS_Interval
<1>3. Closings(s) \in SUBSET (1 .. Len(s))
    BY <1>1, Zenon DEF Closings
<1>4. IsFiniteSet(Closings(s))
    BY <1>2, <1>3, FS_Subset
<1> QED
    BY <1>4, FS_CardinalityType DEF Count

(* Those of two texts that are put together are counted one after another. *)
LEMMA CountJoined ==
    ASSUME NEW s \in Text, NEW t \in Text
    PROVE  Count(s \o t) = Count(s) + Count(t)
PROOF
<1> DEFINE u == s \o t
           n == Len(s)
           S == Closings(s)
           T == Closings(t)
           moved == [i \in T |-> n + i]
           M == {n + i : i \in T}
<1>1. /\ u \in Text /\ Len(u) = n + Len(t) /\ n \in Nat /\ Len(t) \in Nat
      /\ \A i \in 1 .. n : u[i] = s[i]
      /\ \A i \in 1 .. Len(t) : u[n + i] = t[i]
    BY Joined
<1>2. S = {i \in 1 .. n : s[i] = Closing} /\ T = {i \in 1 .. Len(t) : t[i] = Closing}
  <2>1. DOMAIN s = 1 .. n /\ DOMAIN t = 1 .. Len(t)
    BY DEF Text
  <2> HIDE DEF n
  <2>2. S = {i \in 1 .. n : s[i] = Closing}
    BY <2>1, Zenon DEF Closings, Closing
  <2>3. T = {i \in 1 .. Len(t) : t[i] = Closing}
    BY <2>1, Zenon DEF Closings, Closing
  <2> QED
    BY <2>2, <2>3
<1>3. Closings(u) = {i \in 1 .. n + Len(t) : u[i] = Closing}
  <2>1. DOMAIN u = 1 .. n + Len(t)
    BY <1>1 DEF Text
  <2> QED
    BY <2>1 DEF Closings, Closing
<1> HIDE DEF u, n, S, T
<1>4. Closings(u) = S \cup M
  <2>1. ASSUME NEW i \in 1 .. n + Len(t), u[i] = Closing PROVE i \in S \cup M
    <3>1. CASE i <= n
      <4>1. i \in 1 .. n
        BY <1>1, <3>1
      <4> QED
        BY <1>1, <1>2, <2>1, <4>1
    <3>2. CASE ~(i <= n)
      <4>1. i - n \in 1 .. Len(t) /\ n + (i - n) = i
        BY <1>1, <3>2
      <4>2. i - n \in T
        BY <1>1, <1>2, <2>1, <4>1
      <4> QED
        BY <4>1, <4>2
    <3> QED
      BY <3>1, <3>2
  <2>2. ASSUME NEW i \in S PROVE i \in Closings(u)
    <3>1. i \in 1 .. n + Len(t)
      BY <1>1, <1>2
    <3> QED
      BY <1>1, <1>2, <1>3, <3>1
  <2>3. ASSUME NEW i \in T PROVE n + i \in Closings(u)
    <3>1. n + i \in 1 .. n + Len(t)
      BY <1>1, <1>2
    <3> QED
      BY <1>1, <1>2, <1>3, <3>1
  <2> QED
    BY <1>3, <2>1, <2>2, <2>3
<1>5. S \cap M = {}
  <2>1. \A i \in S : i <= n
    BY <1>1, <1>2
  <2>2. \A i \in T : ~(n + i <= n)
    BY <1>1, <1>2
  <2> QED
    BY <2>1, <2>2
<1>6. IsFiniteSet(S) /\ IsFiniteSet(T) /\ Cardinality(S) \in Nat /\ Cardinality(T) \in Nat
    BY CountTyped DEF Count, S, T
<1>7. IsFiniteSet(M) /\ Cardinality(M) = Cardinality(T)
  <2>1. moved \in [T -> M] /\ \A y \in M : \E i \in T : moved[i] = y
    OBVIOUS
  <2>2. \A i, j \in T : moved[i] = moved[j] => i = j
    BY <1>1, <1>2
  <2> HIDE DEF moved, M
  <2>3. moved \in Bijection(T, M)
    BY <2>1, <2>2 DEF Bijection, Injection, Surjection, IsInjective
  <2>4. ExistsBijection(T, M)
    BY <2>3 DEF ExistsBijection
  <2> QED
    BY <1>6, <2>4, FS_Bijection
<1> HIDE DEF M
<1>8. Cardinality(S \cup M) = Cardinality(S) + Cardinality(M)
  <2>1. Cardinality(S \cup M) = Cardinality(S) + Cardinality(M) - Cardinality(S \cap M)
    BY <1>6, <1>7, FS_Union
  <2>2. Cardinality(S \cap M) = 0
    BY <1>5, FS_EmptySet
  <2> QED
    BY <1>6, <1>7, <2>1, <2>2
<1> QED
    BY <1>4, <1>7, <1>8 DEF Count, u, S, T

(* A value that does not feed the loop has one at most.                    *)
LEMMA CountOfValue ==
    ASSUME NEW s \in Text, ~Feeds(s)
    PROVE  Count(s) <= 1
PROOF
<1>1. \A i, j \in Closings(s) : i = j
  <2>1. Len(s) \in Nat /\ DOMAIN s = 1 .. Len(s)
    BY DEF Text
  <2>2. Closings(s) \in SUBSET (1 .. Len(s))
    BY <2>1, Zenon DEF Closings
  <2>3. \A i, j \in Closings(s) : ~(i < j)
    BY Zenon DEF Closings, Feeds
  <2> QED
    BY <2>1, <2>2, <2>3
<1>2. CASE Closings(s) = {}
    BY <1>2, FS_EmptySet DEF Count
<1>3. CASE Closings(s) # {}
  <2>1. PICK i : Closings(s) = {i}
    BY <1>1, <1>3
  <2> QED
    BY <2>1, FS_Singleton DEF Count
<1> QED
    BY <1>2, <1>3

(* A text that ends with two has two at least.                             *)
LEMMA CountOfTemplate ==
    ASSUME NEW s \in Text, NEW i \in 1 .. Len(s) - 1, Pair(s, i, Closing, Closing)
    PROVE  Count(s) >= 2
PROOF
<1>0. Len(s) \in Nat /\ DOMAIN s = 1 .. Len(s)
    BY DEF Text
<1> DEFINE two == {i} \cup {i + 1}
<1>1. i \in 1 .. Len(s) /\ i + 1 \in 1 .. Len(s) /\ i # i + 1
    BY <1>0
<1>2. two \in SUBSET Closings(s)
  <2>1. s[i] = Closing /\ s[i + 1] = Closing
    BY DEF Pair
  <2>2. i \in Closings(s)
    BY <1>0, <1>1, <2>1, Zenon DEF Closings, Closing
  <2>3. i + 1 \in Closings(s)
    BY <1>0, <1>1, <2>1, Zenon DEF Closings, Closing
  <2> QED
    BY <2>2, <2>3
<1>3. IsFiniteSet({i}) /\ Cardinality({i}) = 1
    BY FS_Singleton
<1>4. i + 1 \notin {i}
    BY <1>1
<1>5. Cardinality(two) = 2
  <2>1. Cardinality({i} \cup {i + 1}) =
           IF i + 1 \in {i} THEN Cardinality({i}) ELSE Cardinality({i}) + 1
    BY <1>3, FS_AddElement, Zenon
  <2>2. Cardinality({i} \cup {i + 1}) = Cardinality({i}) + 1
    BY <1>4, <2>1, Zenon
  <2>3. Cardinality({i}) + 1 = 2
    BY <1>3
  <2> QED
    BY <2>2, <2>3, Zenon
<1> HIDE DEF two
<1>6. Cardinality(two) <= Cardinality(Closings(s))
    BY <1>2, CountTyped, FS_Subset
<1>7. Count(s) \in Nat
    BY CountTyped
<1> QED
    BY <1>5, <1>6, <1>7 DEF Count

(* A turn of the loop takes the two closing braces of its template out of  *)
(* the text, and brings in one at most, unless a value feeds the loop      *)
(* (EachTurnUsesUp): ResolveString ends, whatever its text and paths are.  *)
THEOREM TurnsAreCounted == Spec => EachTurnUsesUp
PROOF
<1> DEFINE Turns == phase = "resolving" /\ phase' = "resolving" /\ \A text \in used' : ~Feeds(text)
<1>1. Typing /\ [Next]_vars => [Turns => Count(result') < Count(result)]_vars
  <2> SUFFICES ASSUME Typing, Next, Turns PROVE Count(result') < Count(result)
    OBVIOUS
  <2>1. Held(config) /\ result \in Text
    BY DEF Typing
  <2>2. Replace
    BY DEF Next, Turn, Call, Return, SetVariable, SetStepOutput, Idle
  <2>3. PICK t \in FirstTemplate(result), value \in Text :
             /\ Stands(result, t.start, t.end)
             /\ SubSeq(result, 1, t.start - 1) \in Text
             /\ SubSeq(result, t.end + 2, Len(result)) \in Text
             /\ result' = SubSeq(result, 1, t.start - 1) \o value
                            \o SubSeq(result, t.end + 2, Len(result))
             /\ used' = used \cup {value}
    BY <2>1, <2>2, ReplaceMeans
  <2> DEFINE s == result
             i == t.start
             j == t.end
             left == SubSeq(s, 1, i - 1)
             mid == SubSeq(s, i, j + 1)
             right == SubSeq(s, j + 2, Len(s))
  <2>4. ~Feeds(value)
    BY <2>3
  <2>5. s \in Text /\ Stands(s, i, j) /\ left \in Text /\ right \in Text
        /\ result' = left \o value \o right
    BY <2>1, <2>3
  <2> HIDE DEF s, i, j, left, mid, right
  <2>6. /\ Len(s) \in Nat /\ i \in Nat \ {0} /\ j \in Nat /\ i + 2 <= j /\ j + 1 <= Len(s)
        /\ s \in Seq(Character)
    <3>1. /\ i \in Nat /\ j \in Nat /\ 1 <= i /\ i + 2 <= j /\ j + 1 <= Len(s)
      BY <2>5, Zenon DEF Stands
    <3>2. s \in Seq(Character)
      BY <2>5, Zenon DEF Text
    <3> QED
      BY <3>1, <3>2
  <2>7. Pair(s, j, Closing, Closing)
    <3>1. j # 0 /\ i + 2 \in Nat \ {0}
      BY <2>6
    <3>2. j = FirstPair(s, i + 2, Closing, Closing)
      BY <2>5, Zenon DEF Stands, FindTemplateEnd, Closing
    <3>3. IsFirst(s, i + 2, Closing, Closing, j)
      BY <2>5, <3>1, <3>2, FirstPairFinds
    <3> QED
      BY <3>3, Zenon DEF IsFirst
  <2>8. mid \in Text /\ Count(mid) >= 2
    <3>1. i \in Nat \ {0} /\ j + 1 \in 0 .. Len(s)
      BY <2>6
    <3>2. /\ mid \in Text /\ Len(mid) = IF i <= j + 1 THEN (j + 1) - i + 1 ELSE 0
          /\ \A n \in 1 .. (j + 1) - i + 1 : mid[n] = s[i + n - 1]
      <4> DEFINE k == j + 1
      <4>1. k \in 0 .. Len(s)
        BY <3>1
      <4> HIDE DEF k
      <4>2. /\ SubSeq(s, i, k) \in Text
            /\ Len(SubSeq(s, i, k)) = IF i <= k THEN k - i + 1 ELSE 0
            /\ \A n \in 1 .. k - i + 1 : SubSeq(s, i, k)[n] = s[i + n - 1]
        BY <2>5, <3>1, <4>1, PartOf
      <4> QED
        BY <4>2, Zenon DEF k, mid
    <3> DEFINE n == j - i + 1
    <3>3. /\ n \in 1 .. Len(mid) - 1
          /\ n \in 1 .. (j + 1) - i + 1 /\ n + 1 \in 1 .. (j + 1) - i + 1
          /\ i + n - 1 = j /\ i + (n + 1) - 1 = j + 1
      BY <2>6, <3>2
    <3> HIDE DEF n
    <3>4. mid[n] = s[i + n - 1] /\ mid[n + 1] = s[i + (n + 1) - 1]
      BY <3>2, <3>3
    <3>5. Pair(mid, n, Closing, Closing)
      BY <2>7, <3>3, <3>4 DEF Pair
    <3> QED
      BY <3>2, <3>3, <3>5, CountOfTemplate
  <2>9. s = left \o (mid \o right)
    <3> USE DEF left, mid, right
    <3>1. left \o SubSeq(s, i, Len(s)) = SubSeq(s, 1, Len(s))
      <4>1. \A k \in 1 - 1 .. Len(s) : \A n \in k .. Len(s) :
               SubSeq(s, 1, k) \o SubSeq(s, k + 1, n) = SubSeq(s, 1, n)
        <5>1. 1 \in 1 .. Len(s) + 1
          BY <2>6
        <5> QED
          BY <2>6, <5>1, ConcatAdjacentSubSeq
      <4>2. i - 1 \in 1 - 1 .. Len(s) /\ Len(s) \in (i - 1) .. Len(s) /\ i - 1 + 1 = i
        BY <2>6
      <4>3. SubSeq(s, 1, i - 1) \o SubSeq(s, i - 1 + 1, Len(s)) = SubSeq(s, 1, Len(s))
        BY <4>1, <4>2
      <4> QED
        BY <4>2, <4>3
    <3>2. mid \o right = SubSeq(s, i, Len(s))
      <4>1. \A k \in i - 1 .. Len(s) : \A n \in k .. Len(s) :
               SubSeq(s, i, k) \o SubSeq(s, k + 1, n) = SubSeq(s, i, n)
        <5>1. i \in 1 .. Len(s) + 1
          BY <2>6
        <5> QED
          BY <2>6, <5>1, ConcatAdjacentSubSeq
      <4>2. j + 1 \in i - 1 .. Len(s) /\ Len(s) \in (j + 1) .. Len(s) /\ j + 1 + 1 = j + 2
        BY <2>6
      <4>3. SubSeq(s, i, j + 1) \o SubSeq(s, j + 1 + 1, Len(s)) = SubSeq(s, i, Len(s))
        BY <4>1, <4>2
      <4> QED
        BY <4>2, <4>3
    <3>3. SubSeq(s, 1, Len(s)) = s
      BY <2>6, SubSeqFull
    <3> QED
      BY <3>1, <3>2, <3>3
  <2>10. Count(s) = Count(left) + (Count(mid) + Count(right))
    <3>1. mid \o right \in Text
      BY <2>5, <2>8, Joined
    <3>2. Count(mid \o right) = Count(mid) + Count(right)
      BY <2>5, <2>8, CountJoined
    <3>3. Count(left \o (mid \o right)) = Count(left) + Count(mid \o right)
      BY <2>5, <3>1, CountJoined
    <3> QED
      BY <2>9, <3>2, <3>3
  <2>11. Count(result') = (Count(left) + Count(value)) + Count(right)
    <3>1. left \o value \in Text
      BY <2>5, Joined
    <3>2. Count(left \o value) = Count(left) + Count(value)
      BY <2>5, CountJoined
    <3>3. Count((left \o value) \o right) = Count(left \o value) + Count(right)
      BY <2>5, <3>1, CountJoined
    <3> QED
      BY <2>5, <3>2, <3>3
  <2>12. Count(value) <= 1
    BY <2>4, CountOfValue
  <2>13. Count(left) \in Nat /\ Count(mid) \in Nat /\ Count(right) \in Nat /\ Count(value) \in Nat
    BY <2>5, <2>8, CountTyped
  <2>14. Count(result') < Count(s)
    <3> DEFINE a == Count(left)
               b == Count(mid)
               c == Count(right)
               v == Count(value)
               x == Count(result')
               y == Count(s)
    <3>1. /\ a \in Nat /\ b \in Nat /\ c \in Nat /\ v \in Nat /\ b >= 2 /\ v <= 1
          /\ y = a + (b + c) /\ x = (a + v) + c
      BY <2>8, <2>10, <2>11, <2>12, <2>13
    <3> HIDE DEF a, b, c, v, x, y
    <3>2. x < y
      BY <3>1
    <3> QED
      BY <3>2 DEF x, y
  <2> QED
    BY <2>14 DEF s
<1>2. [][Turns => Count(result') < Count(result)]_vars <=> EachTurnUsesUp
    BY DEF EachTurnUsesUp
<1> QED
    BY <1>1, <1>2, TypingInvariant, PTL DEF Spec
=============================================================================
