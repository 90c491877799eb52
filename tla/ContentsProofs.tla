--------------------------- MODULE ContentsProofs ---------------------------
(***************************************************************************)
(* What the contents of messages are when they have been sent and taken    *)
(* apart again, whatever they are.                                         *)
(*                                                                         *)
(* Object paths, for names of any length and any characters: decoding an   *)
(* escaped name gives the name back (DecodeEncode), a path that was        *)
(* extended gives its parts back (ExtendIsInverted), and so does a path    *)
(* after any sequence of extensions and parents (PathsRoundTripHolds).     *)
(*                                                                         *)
(* Typed values, for types nested to any depth and values of any lengths:  *)
(* what a reader gives of what has been appended (ReadsWhatWasWritten).    *)
(*                                                                         *)
(* What a fold or a recursive function computes is shown by induction on   *)
(* the sets of numbers for which the claim holds (SetOfAllNumbers): there, *)
(* the claim is data and no operator has to be instantiated.               *)
(***************************************************************************)
EXTENDS ObjectPaths, Marshalling, SequenceTheorems, WellFoundedInduction, TLAPS

(* Induction over the numbers, for a property written as a set of them. *)
LEMMA SetOfAllNumbers ==
    ASSUME NEW S \in SUBSET Nat, 0 \in S, \A n \in S : n + 1 \in S
    PROVE  \A n \in Nat : n \in S
<1>1. SUFFICES ASSUME Nat \ S # {} PROVE FALSE OBVIOUS
<1>2. PICK least \in Nat \ S : \A n \in Nat \ S : ~(<<n, least>> \in OpToRel(<, Nat))
  <2>1. Nat \ S \subseteq Nat OBVIOUS
  <2> QED BY <1>1, <2>1, WFMin, NatLessThanWellFounded
<1>3. least # 0 /\ least - 1 \in Nat /\ least - 1 < least OBVIOUS
<1>4. <<least - 1, least>> \in {ss \in Nat \X Nat : ss[1] < ss[2]} BY <1>3
<1>5. <<least - 1, least>> \in OpToRel(<, Nat) BY <1>4 DEF OpToRel
<1>6. least - 1 \in S BY <1>2, <1>3, <1>5
<1>7. (least - 1) + 1 \in S BY <1>6
<1>8. (least - 1) + 1 = least OBVIOUS
<1> QED BY <1>7, <1>8

(* The places of a concatenation. *)
LEMMA Concatenated ==
    ASSUME NEW T, NEW a \in Seq(T), NEW b \in Seq(T)
    PROVE  /\ a \o b \in Seq(T)
           /\ Len(a) \in Nat /\ Len(b) \in Nat /\ Len(a \o b) = Len(a) + Len(b)
           /\ \A k \in 1..Len(a) : (a \o b)[k] = a[k]
           /\ \A j \in 1..Len(b) : (a \o b)[Len(a) + j] = b[j]
<1>1. Len(a) \in Nat /\ Len(b) \in Nat BY LenProperties
<1>2. ASSUME NEW j \in 1..Len(b) PROVE (a \o b)[Len(a) + j] = b[j]
  <2>1. Len(a) + j \in 1..Len(a) + Len(b) /\ ~(Len(a) + j <= Len(a)) /\ Len(a) + j - Len(a) = j
    BY <1>1
  <2> QED BY <2>1, ConcatProperties
<1>3. ASSUME NEW k \in 1..Len(a) PROVE (a \o b)[k] = a[k]
  <2>1. k \in 1..Len(a) + Len(b) /\ k <= Len(a) BY <1>1
  <2> QED BY <2>1, ConcatProperties
<1> QED BY <1>1, <1>2, <1>3, ConcatProperties

-----------------------------------------------------------------------------
(* FlattenSeq. *)

(* g[i] are the first i of the sequences in s, one after the other. *)
Joins(g, s, n) ==
    \A i \in 1..n : g[i] = IF i = 1 THEN s[i] ELSE g[i - 1] \o s[i]

(* The concatenation of a prefix of some sequences, for each prefix. *)
LEMMA JoinsExist ==
    ASSUME NEW T, NEW s \in Seq(Seq(T)), s # <<>>
    PROVE  \E g \in [1..Len(s) -> Seq(T)] : Joins(g, s, Len(s))
<1> DEFINE S == {n \in Nat : n + 1 <= Len(s) =>
                    \E g \in [1..n + 1 -> Seq(T)] : Joins(g, s, n + 1)}
<1>1. 0 \in S
  <2>1. s[1] \in Seq(T) BY EmptySeq, ElementOfSeq
  <2>2. [i \in 1..0 + 1 |-> s[1]] \in [1..0 + 1 -> Seq(T)] BY <2>1
  <2>3. Joins([i \in 1..0 + 1 |-> s[1]], s, 0 + 1) BY DEF Joins
  <2> QED BY <2>2, <2>3
<1>2. ASSUME NEW n \in S PROVE n + 1 \in S
  <2>1. n \in Nat OBVIOUS
  <2>2. SUFFICES ASSUME n + 2 <= Len(s)
                 PROVE  \E g \in [1..n + 2 -> Seq(T)] : Joins(g, s, n + 2)
    BY <2>1
  <2>3. PICK g \in [1..n + 1 -> Seq(T)] : Joins(g, s, n + 1) BY <2>1, <2>2
  <2> DEFINE h == [i \in 1..n + 2 |-> IF i = n + 2 THEN g[n + 1] \o s[n + 2] ELSE g[i]]
  <2>4. s[n + 2] \in Seq(T) BY <2>1, <2>2, ElementOfSeq
  <2>5. g[n + 1] \o s[n + 2] \in Seq(T) BY <2>1, <2>3, <2>4, ConcatProperties
  <2>6. h \in [1..n + 2 -> Seq(T)] BY <2>1, <2>3, <2>5
  <2>7. Joins(h, s, n + 2)
    <3> SUFFICES ASSUME NEW i \in 1..n + 2
                 PROVE  h[i] = IF i = 1 THEN s[i] ELSE h[i - 1] \o s[i]
      BY DEF Joins
    <3>1. CASE i = n + 2
      <4>1. i # 1 /\ i - 1 = n + 1 /\ n + 1 \in 1..n + 2 /\ n + 1 # n + 2 BY <2>1, <3>1
      <4>2. h[n + 1] = g[n + 1] BY <4>1
      <4>3. h[i] = g[n + 1] \o s[i] BY <3>1
      <4> QED BY <4>1, <4>2, <4>3
    <3>2. CASE i # n + 2
      <4>1. i \in 1..n + 1 /\ h[i] = g[i] BY <2>1, <3>2
      <4>2. g[i] = IF i = 1 THEN s[i] ELSE g[i - 1] \o s[i] BY <2>3, <4>1 DEF Joins
      <4>3. i # 1 => h[i - 1] = g[i - 1] BY <2>1, <3>2
      <4> QED BY <4>1, <4>2, <4>3
    <3> QED BY <3>1, <3>2
  <2> QED BY <2>6, <2>7
<1>3. \A n \in Nat : n \in S
  <2> HIDE DEF S
  <2>1. S \in SUBSET Nat BY DEF S
  <2> QED BY <1>1, <1>2, <2>1, SetOfAllNumbers
<1>4. Len(s) \in Nat \ {0} BY EmptySeq
<1>5. Len(s) - 1 \in Nat /\ (Len(s) - 1) + 1 = Len(s) BY <1>4
<1>6. \E g \in [1..(Len(s) - 1) + 1 -> Seq(T)] : Joins(g, s, (Len(s) - 1) + 1)
  <2>1. Len(s) - 1 \in S BY <1>3, <1>5
  <2> QED BY <1>4, <1>5, <2>1
<1> QED BY <1>5, <1>6

(* FlattenSeq is the last of them. *)
LEMMA FlattenJoins ==
    ASSUME NEW T, NEW s \in Seq(Seq(T)), s # <<>>
    PROVE  \E g \in [1..Len(s) -> Seq(T)] :
                Joins(g, s, Len(s)) /\ FlattenSeq(s) = g[Len(s)]
<1>1. Len(s) \in Nat \ {0} BY EmptySeq
<1>2. PICK g \in [1..Len(s) -> Seq(T)] : Joins(g, s, Len(s)) BY JoinsExist
<1> DEFINE F(f) == f = [i \in 1..Len(s) |-> IF i = 1 THEN s[i] ELSE f[i - 1] \o s[i]]
           flatten == CHOOSE f : F(f)
<1>3. F(g) BY <1>2 DEF Joins
<1>4. F(flatten)
  <2> HIDE DEF F
  <2> QED BY <1>3
<1>5. FlattenSeq(s) = flatten[Len(s)] BY <1>1 DEF FlattenSeq
<1> HIDE DEF flatten
<1> DEFINE S == {n \in Nat : n + 1 <= Len(s) => flatten[n + 1] = g[n + 1]}
<1>6. 0 \in S BY <1>1, <1>3, <1>4
<1>7. ASSUME NEW n \in S PROVE n + 1 \in S
  <2>1. n \in Nat OBVIOUS
  <2>2. SUFFICES ASSUME n + 2 <= Len(s) PROVE flatten[n + 2] = g[n + 2] BY <2>1
  <2>3. flatten[n + 1] = g[n + 1] BY <2>1, <2>2
  <2>4. n + 2 \in 1..Len(s) /\ n + 2 # 1 /\ (n + 2) - 1 = n + 1 BY <2>1, <2>2
  <2>5. flatten[n + 2] = flatten[n + 1] \o s[n + 2] BY <1>4, <2>4
  <2>6. g[n + 2] = g[n + 1] \o s[n + 2] BY <1>3, <2>4
  <2> QED BY <2>3, <2>5, <2>6
<1>8. \A n \in Nat : n \in S
  <2> HIDE DEF S
  <2>1. S \in SUBSET Nat BY DEF S
  <2> QED BY <1>6, <1>7, <2>1, SetOfAllNumbers
<1>9. Len(s) - 1 \in Nat /\ (Len(s) - 1) + 1 = Len(s) BY <1>1
<1>10. flatten[Len(s)] = g[Len(s)]
  <2>1. Len(s) - 1 \in S BY <1>8, <1>9
  <2>2. flatten[(Len(s) - 1) + 1] = g[(Len(s) - 1) + 1] BY <1>1, <1>9, <2>1
  <2> QED BY <1>9, <2>2
<1> QED BY <1>2, <1>5, <1>10

(* Where each of the sequences in s is found in FlattenSeq(s). *)
LEMMA FlattenPlaces ==
    ASSUME NEW T, NEW s \in Seq(Seq(T)), s # <<>>
    PROVE  /\ FlattenSeq(s) \in Seq(T)
           /\ \E at \in [1..Len(s) + 1 -> Nat \ {0}] :
                /\ at[1] = 1 /\ at[Len(s) + 1] = Len(FlattenSeq(s)) + 1
                /\ \A i \in 1..Len(s) :
                    /\ at[i + 1] = at[i] + Len(s[i]) /\ at[i + 1] <= Len(FlattenSeq(s)) + 1
                    /\ \A j \in 1..Len(s[i]) : FlattenSeq(s)[at[i] + j - 1] = s[i][j]
<1> DEFINE n == Len(s)
<1>1. n \in Nat \ {0} BY EmptySeq
<1>2. PICK g \in [1..n -> Seq(T)] : Joins(g, s, n) /\ FlattenSeq(s) = g[n]
  BY FlattenJoins
<1>3. \A i \in 1..n : s[i] \in Seq(T) /\ Len(s[i]) \in Nat
  BY ElementOfSeq, LenProperties
<1> HIDE DEF n
<1> DEFINE at == [i \in 1..n + 1 |-> IF i = 1 THEN 1 ELSE Len(g[i - 1]) + 1]
<1>4. at \in [1..n + 1 -> Nat \ {0}]
  BY <1>1, <1>2, LenProperties
<1>5. g[1] = s[1] /\ \A i \in 1..n : i # 1 => g[i] = g[i - 1] \o s[i]
  <2>1. \A i \in 1..n : g[i] = IF i = 1 THEN s[i] ELSE g[i - 1] \o s[i]
    BY <1>2 DEF Joins
  <2>2. 1 \in 1..n BY <1>1
  <2> QED BY <2>1, <2>2
<1>6. at[1] = 1 /\ \A i \in 1..n : at[i + 1] = Len(g[i]) + 1
  BY <1>1
<1>7. ASSUME NEW i \in 1..n
      PROVE  /\ at[i + 1] = at[i] + Len(s[i])
             /\ \A j \in 1..Len(s[i]) : g[i][at[i] + j - 1] = s[i][j]
             /\ i # 1 => \A k \in 1..Len(g[i - 1]) : g[i][k] = g[i - 1][k]
  <2>1. CASE i = 1 BY <1>1, <1>3, <1>5, <1>6, <2>1
  <2>2. CASE i # 1
    <3>1. i - 1 \in 1..n /\ (i - 1) + 1 = i BY <1>1, <2>2
    <3> DEFINE a == g[i - 1]
               b == s[i]
    <3>2. a \in Seq(T) /\ b \in Seq(T) BY <1>2, <1>3, <3>1
    <3>3. g[i] = a \o b BY <1>5, <2>2
    <3>4. at[i] = Len(a) + 1 /\ at[i + 1] = Len(g[i]) + 1 BY <1>6, <3>1
    <3> HIDE DEF at, a, b
    <3>5. Len(a) \in Nat /\ Len(b) \in Nat /\ Len(g[i]) = Len(a) + Len(b)
      BY <3>2, <3>3, Concatenated
    <3>6. \A k \in 1..Len(a) : g[i][k] = a[k] BY <3>2, <3>3, Concatenated
    <3>7. ASSUME NEW j \in 1..Len(b) PROVE g[i][at[i] + j - 1] = b[j]
      <4>1. at[i] + j - 1 = Len(a) + j BY <3>4, <3>5
      <4>2. g[i][Len(a) + j] = b[j] BY <3>2, <3>3, Concatenated
      <4> QED BY <4>1, <4>2
    <3>8. at[i + 1] = at[i] + Len(b) BY <3>4, <3>5
    <3> QED BY <3>6, <3>7, <3>8 DEF a, b
  <2> QED BY <2>1, <2>2
<1> HIDE DEF at
(* What is there does not change as more is joined. *)
<1> DEFINE Kept(m) == \A i \in 1..n : i <= m /\ m <= n =>
                        Len(g[i]) <= Len(g[m]) /\ \A k \in 1..Len(g[i]) : g[m][k] = g[i][k]
           S == {m \in Nat : Kept(m)}
<1>8. 0 \in S BY <1>1
<1>9. ASSUME NEW m \in S PROVE m + 1 \in S
  <2> SUFFICES ASSUME NEW i \in 1..n, i <= m + 1, m + 1 <= n
               PROVE  Len(g[i]) <= Len(g[m + 1])
                      /\ \A k \in 1..Len(g[i]) : g[m + 1][k] = g[i][k]
    OBVIOUS
  <2>0. m \in Nat /\ Kept(m) OBVIOUS
  <2>1. g[i] \in Seq(T) /\ Len(g[i]) \in Nat BY <1>2, LenProperties
  <2>2. CASE i = m + 1 BY <2>1, <2>2
  <2>3. CASE i # m + 1
    <3>1. i <= m /\ m <= n /\ m \in 1..n /\ m + 1 \in 1..n /\ m + 1 # 1 /\ (m + 1) - 1 = m
      BY <1>1, <2>0, <2>3
    <3>2. Len(g[i]) <= Len(g[m]) /\ \A k \in 1..Len(g[i]) : g[m][k] = g[i][k] BY <2>0, <3>1
    <3>3. Len(g[m]) \in Nat /\ Len(g[m + 1]) \in Nat BY <1>2, <3>1, LenProperties
    <3>4. \A k \in 1..Len(g[m]) : g[m + 1][k] = g[m][k] BY <1>7, <3>1
    <3>5. Len(g[m]) <= Len(g[m + 1])
      <4>1. g[m + 1] = g[(m + 1) - 1] \o s[m + 1] BY <1>5, <3>1
      <4>2. g[m + 1] = g[m] \o s[m + 1] BY <3>1, <4>1
      <4>3. g[m] \in Seq(T) /\ s[m + 1] \in Seq(T) BY <1>2, <1>3, <3>1
      <4>4. Len(g[m + 1]) = Len(g[m]) + Len(s[m + 1]) /\ Len(s[m + 1]) \in Nat
        BY <4>2, <4>3, Concatenated
      <4>5. \A x, y \in Nat : x <= x + y OBVIOUS
      <4>6. Len(g[m]) <= Len(g[m]) + Len(s[m + 1]) BY <3>3, <4>4, <4>5
      <4> QED BY <4>4, <4>6
    <3> QED BY <2>1, <3>2, <3>3, <3>4, <3>5
  <2> QED BY <2>2, <2>3
<1>10. n \in S
  <2> HIDE DEF S
  <2>1. S \in SUBSET Nat BY DEF S
  <2> QED BY <1>1, <1>8, <1>9, <2>1, SetOfAllNumbers
<1>11. \A i \in 1..n : Len(g[i]) <= Len(g[n]) /\ \A k \in 1..Len(g[i]) : g[n][k] = g[i][k]
  BY <1>1, <1>10
<1>12. ASSUME NEW i \in 1..n, NEW j \in 1..Len(s[i])
       PROVE  g[n][at[i] + j - 1] = s[i][j]
  <2>1. g[i][at[i] + j - 1] = s[i][j] /\ at[i + 1] = at[i] + Len(s[i]) BY <1>7
  <2>2. at[i + 1] = Len(g[i]) + 1 /\ at[i] \in Nat \ {0} /\ Len(s[i]) \in Nat
    BY <1>1, <1>3, <1>4, <1>6
  <2> DEFINE l == Len(s[i])
             k == at[i]
             e == Len(g[i])
  <2>3. e + 1 = k + l /\ k \in Nat \ {0} /\ l \in Nat /\ j \in 1..l /\ e \in Nat
    BY <1>2, <2>1, <2>2, LenProperties
  <2> HIDE DEF l, k, e
  <2>4. k + j - 1 \in 1..e BY <2>3
  <2>5. at[i] + j - 1 \in 1..Len(g[i]) BY <2>4 DEF k, e
  <2> QED BY <1>11, <2>1, <2>5
<1>13. g[n] \in Seq(T) /\ at[n + 1] = Len(g[n]) + 1 BY <1>1, <1>2, <1>6
<1>14. \A i \in 1..n : at[i + 1] <= Len(g[n]) + 1
  <2> SUFFICES ASSUME NEW i \in 1..n PROVE at[i + 1] <= Len(g[n]) + 1 OBVIOUS
  <2>1. at[i + 1] = Len(g[i]) + 1 /\ Len(g[i]) <= Len(g[n]) BY <1>6, <1>11
  <2>2. Len(g[i]) \in Nat /\ Len(g[n]) \in Nat BY <1>1, <1>2, LenProperties
  <2>3. \A x, y \in Nat : x <= y => x + 1 <= y + 1 OBVIOUS
  <2> QED BY <2>1, <2>2, <2>3
<1>15. FlattenSeq(s) = g[n] BY <1>2
<1>16. \A i \in 1..n :
         /\ at[i + 1] = at[i] + Len(s[i]) /\ at[i + 1] <= Len(FlattenSeq(s)) + 1
         /\ \A j \in 1..Len(s[i]) : FlattenSeq(s)[at[i] + j - 1] = s[i][j]
  BY <1>7, <1>12, <1>14, <1>15
<1>17. at \in [1..n + 1 -> Nat \ {0}] /\ at[1] = 1 /\ at[n + 1] = Len(FlattenSeq(s)) + 1
  BY <1>4, <1>6, <1>13, <1>15
<1> HIDE DEF Kept, S
<1>18. FlattenSeq(s) \in Seq(T) BY <1>13, <1>15
<1> QED BY <1>16, <1>17, <1>18 DEF n

-----------------------------------------------------------------------------
(* One character. *)
LEMMA Nibbles ==
    ASSUME NEW c \in 0..255
    PROVE  /\ c \div 16 \in 0..15 /\ c % 16 \in 0..15
           /\ (c \div 16) * 16 + (c % 16) = c
OBVIOUS

(* A hexadecimal digit is read as it was written. *)
LEMMA UnhexHex ==
    ASSUME NEW d \in 0..15
    PROVE  Unhex(Hex(d)) = d /\ Hex(d) \in 48..57 \cup 97..102
<1>1. CASE d < 10 BY <1>1 DEF Hex, Unhex, Digits, HexLetters
<1>2. CASE ~(d < 10)
  <2>1. Hex(d) = 87 + d BY <1>2 DEF Hex
  <2>2. 87 + d \notin 48..57 /\ 87 + d \notin 65..70 /\ 87 + d \in 97..102 BY <1>2
  <2> QED BY <2>1, <2>2 DEF Unhex, Digits, HexLetters
<1> QED BY <1>1, <1>2

(* The characters of encoded names. *)
EncodedCharacters == (0..255) \ {Slash}

(* An escape is an underscore and two digits that give the character. *)
LEMMA Escaped ==
    ASSUME NEW c \in 0..255
    PROVE  /\ Escape(c) \in Seq(EncodedCharacters) /\ Len(Escape(c)) = 3
           /\ Escape(c)[1] = Underscore
           /\ Unhex(Escape(c)[2]) # -1 /\ Unhex(Escape(c)[3]) # -1
           /\ Unhex(Escape(c)[2]) * 16 + Unhex(Escape(c)[3]) = c
<1>1. Escape(c) = <<Underscore, Hex(c \div 16), Hex(c % 16)>> BY DEF Escape
<1>2. /\ Hex(c \div 16) \in EncodedCharacters /\ Unhex(Hex(c \div 16)) = c \div 16
      /\ Hex(c % 16) \in EncodedCharacters /\ Unhex(Hex(c % 16)) = c % 16
  <2>1. 48..57 \cup 97..102 \subseteq EncodedCharacters BY DEF EncodedCharacters, Slash
  <2> QED BY <2>1, Nibbles, UnhexHex
<1>3. Underscore \in EncodedCharacters BY DEF Underscore, EncodedCharacters, Slash
<1>4. c \div 16 # -1 /\ c % 16 # -1 /\ (c \div 16) * 16 + (c % 16) = c BY Nibbles
<1> QED BY <1>1, <1>2, <1>3, <1>4

(* A character that is not escaped is neither a slash nor taken for an escape. *)
LEMMA Unescaped ==
    ASSUME NEW c \in 0..255
    PROVE  /\ ~RequiresEscape(c) => c \in EncodedCharacters
           /\ ~ShouldEscape(c) => c \in EncodedCharacters /\ c # Underscore
<1>1. Slash \notin Digits \cup Letters /\ Underscore \notin Digits \cup Letters
      /\ Slash # Underscore
  BY DEF Slash, Underscore, Digits, Letters
<1> QED BY <1>1 DEF RequiresEscape, ShouldEscape, EncodedCharacters

-----------------------------------------------------------------------------
(* Decode. *)

(* What is left of e from character i on, given what is left after it. *)
DecodeFrom(from, e, i) ==
    LET n == Len(e)
        Digit(k) == Unhex(e[k])
        Escaped_(k) == k + 2 <= n /\ Digit(k + 1) # -1 /\ Digit(k + 2) # -1
    IN IF i = n + 1 THEN [good |-> TRUE, text |-> <<>>]
       ELSE IF e[i] # Underscore THEN [from[i + 1] EXCEPT !.text = <<e[i]>> \o @]
       ELSE IF Escaped_(i)
            THEN [from[i + 3] EXCEPT !.text = <<Digit(i + 1) * 16 + Digit(i + 2)>> \o @]
       ELSE [good |-> FALSE, text |-> <<>>]

(* It depends on later characters only. *)
LEMMA DecodeFromLater ==
    ASSUME NEW e, Len(e) \in Nat, NEW i \in 1..Len(e) + 1, NEW f, NEW g,
           \A k \in i + 1..Len(e) + 1 : f[k] = g[k]
    PROVE  DecodeFrom(f, e, i) = DecodeFrom(g, e, i)
<1>1. i # Len(e) + 1 => f[i + 1] = g[i + 1] OBVIOUS
<1>2. i + 2 <= Len(e) => f[i + 3] = g[i + 3] OBVIOUS
<1> QED BY <1>1, <1>2 DEF DecodeFrom

(* The equation of the recursive function in Decode has a solution. *)
LEMMA DecodeStepByStep ==
    ASSUME NEW e, Len(e) \in Nat
    PROVE  \E from :
            /\ \A i \in 1..Len(e) + 1 : from[i] = DecodeFrom(from, e, i)
            /\ Decode(e) = IF from[1].good THEN from[1].text ELSE <<>>
<1> DEFINE n == Len(e)
           S == {m \in Nat : m <= n => \E f :
                    f = [i \in n + 1 - m..n + 1 |-> DecodeFrom(f, e, i)]}
<1>1. 0 \in S
  <2> DEFINE f == [i \in n + 1..n + 1 |-> [good |-> TRUE, text |-> <<>>]]
  <2>1. \A g : \A i \in n + 1 - 0..n + 1 : DecodeFrom(g, e, i) = [good |-> TRUE, text |-> <<>>]
    BY DEF DecodeFrom
  <2>2. f = [i \in n + 1 - 0..n + 1 |-> DecodeFrom(f, e, i)] BY <2>1
  <2> QED BY <2>2
<1>2. ASSUME NEW m \in S PROVE m + 1 \in S
  <2> SUFFICES ASSUME m + 1 <= n
               PROVE  \E f : f = [i \in n + 1 - (m + 1)..n + 1 |-> DecodeFrom(f, e, i)]
    OBVIOUS
  <2>1. m \in Nat /\ m <= n OBVIOUS
  <2>2. PICK g : g = [i \in n + 1 - m..n + 1 |-> DecodeFrom(g, e, i)] BY <2>1
  <2> DEFINE f == [i \in n - m..n + 1 |-> IF i = n - m THEN DecodeFrom(g, e, i) ELSE g[i]]
  <2>3. \A i \in n + 1 - m..n + 1 : g[i] = DecodeFrom(g, e, i) BY <2>2
  <2>4. ASSUME NEW i \in n - m..n + 1 PROVE f[i] = DecodeFrom(f, e, i)
    <3>1. \A k \in i + 1..n + 1 : f[k] = g[k] BY <2>1
    <3>2. i \in 1..n + 1 BY <2>1
    <3>3. DecodeFrom(f, e, i) = DecodeFrom(g, e, i)
      <4> HIDE DEF f
      <4> QED BY <3>1, <3>2, DecodeFromLater
    <3>4. f[i] = DecodeFrom(g, e, i)
      <4>1. CASE i = n - m BY <4>1
      <4>2. CASE i # n - m
        <5>1. i \in n + 1 - m..n + 1 BY <2>1, <4>2
        <5> QED BY <2>3, <4>2, <5>1
      <4> QED BY <4>1, <4>2
    <3> QED BY <3>3, <3>4
  <2>5. f = [i \in n - m..n + 1 |-> DecodeFrom(f, e, i)]
    <3>1. f = [i \in n - m..n + 1 |-> f[i]] OBVIOUS
    <3> HIDE DEF f
    <3> QED BY <2>4, <3>1
  <2>6. n + 1 - (m + 1) = n - m BY <2>1
  <2> QED BY <2>5, <2>6
<1>3. n \in S
  <2> HIDE DEF S
  <2>1. S \in SUBSET Nat BY DEF S
  <2> QED BY <1>1, <1>2, <2>1, SetOfAllNumbers
<1> DEFINE F(f) == f = [i \in 1..n + 1 |-> DecodeFrom(f, e, i)]
           from == CHOOSE f : F(f)
<1>4. \E f : F(f)
  <2>1. n + 1 - n = 1 OBVIOUS
  <2> QED BY <1>3, <2>1
<1>5. F(from)
  <2> HIDE DEF F
  <2> QED BY <1>4
<1>6. Decode(e) = IF from[1].good THEN from[1].text ELSE <<>>
  BY DEF Decode, DecodeFrom
<1> HIDE DEF from
<1> QED BY <1>5, <1>6

-----------------------------------------------------------------------------
(* Encode. *)

Names == Seq(0..255) \ {<<>>}

Piece(name, i) == IF i = 1 \/ ShouldEscape(name[i]) THEN Escape(name[i]) ELSE <<name[i]>>

(* What Encode flattens when a name is not plain. *)
LEMMA Pieces ==
    ASSUME NEW name \in Names
    PROVE  LET s == [i \in DOMAIN name |-> Piece(name, i)] IN
           /\ s \in Seq(Seq(EncodedCharacters)) /\ s # <<>> /\ Len(s) = Len(name)
           /\ \A i \in 1..Len(name) : s[i] = Piece(name, i)
           /\ ~Plain(name) => Encode(name) = FlattenSeq(s)
<1> DEFINE s == [i \in DOMAIN name |-> Piece(name, i)]
<1>1. Len(name) \in Nat \ {0} /\ DOMAIN name = 1..Len(name)
      /\ \A i \in 1..Len(name) : name[i] \in 0..255
  BY EmptySeq, LenProperties, ElementOfSeq DEF Names
<1>2. ASSUME NEW i \in 1..Len(name) PROVE Piece(name, i) \in Seq(EncodedCharacters)
  <2>1. Escape(name[i]) \in Seq(EncodedCharacters) BY <1>1, Escaped
  <2>2. ~ShouldEscape(name[i]) => name[i] \in EncodedCharacters
    BY <1>1, Unescaped
  <2>3. ~ShouldEscape(name[i]) => <<name[i]>> \in Seq(EncodedCharacters) BY <2>2
  <2> QED BY <2>1, <2>3 DEF Piece
<1>3. s \in [1..Len(name) -> Seq(EncodedCharacters)] BY <1>1, <1>2
<1>4. s \in Seq(Seq(EncodedCharacters)) /\ Len(s) = Len(name)
  <2> HIDE DEF s
  <2> QED BY <1>1, <1>3, SeqDef, LenProperties
<1>5. ~Plain(name) => Encode(name) = FlattenSeq(s) BY DEF Encode, Piece
<1>6. s # <<>>
  <2> HIDE DEF s
  <2> QED BY <1>1, <1>4
<1> QED BY <1>1, <1>4, <1>5, <1>6

(* What is appended to a path holds no slash, and is not empty. *)
LEMMA EncodedHasNoSlash ==
    ASSUME NEW name \in Names
    PROVE  /\ Encode(name) \in Seq(EncodedCharacters) /\ Encode(name) # <<>>
           /\ Plain(name) => name[1] # Underscore
           /\ ~Plain(name) => Encode(name)[1] = Underscore
<1>1. Len(name) \in Nat \ {0} /\ \A i \in 1..Len(name) : name[i] \in 0..255
  BY EmptySeq, ElementOfSeq DEF Names
<1>2. CASE Plain(name)
  <2>1. ASSUME NEW i \in 1..Len(name) PROVE name[i] \in EncodedCharacters
    <3>1. CASE i = 1 BY <1>1, <1>2, <3>1, Unescaped DEF Plain
    <3>2. CASE i # 1
      <4>1. i \in 2..Len(name) BY <1>1, <3>2
      <4>2. ~RequiresEscape(name[i]) BY <1>2, <4>1 DEF Plain
      <4> QED BY <1>1, <4>2, Unescaped
    <3> QED BY <3>1, <3>2
  <2>2. name \in Seq(EncodedCharacters)
    <3>1. name \in [1..Len(name) -> EncodedCharacters]
      BY <2>1, LenProperties DEF Names
    <3> QED BY <1>1, <3>1, SeqDef
  <2>3. name[1] # Underscore
    <3>1. 1 \in 1..Len(name) BY <1>1
    <3> QED BY <1>1, <1>2, <3>1, Unescaped DEF Plain
  <2> QED BY <1>2, <2>2, <2>3 DEF Encode, Names
<1>3. CASE ~Plain(name)
  <2> DEFINE s == [i \in DOMAIN name |-> Piece(name, i)]
  <2>1. /\ s \in Seq(Seq(EncodedCharacters)) /\ s # <<>> /\ Len(s) = Len(name)
        /\ \A i \in 1..Len(name) : s[i] = Piece(name, i) /\ Encode(name) = FlattenSeq(s)
    BY <1>1, <1>3, Pieces
  <2> HIDE DEF s
  <2>2. PICK at \in [1..Len(s) + 1 -> Nat \ {0}] :
            /\ at[1] = 1 /\ at[Len(s) + 1] = Len(FlattenSeq(s)) + 1
            /\ \A i \in 1..Len(s) :
                /\ at[i + 1] = at[i] + Len(s[i]) /\ at[i + 1] <= Len(FlattenSeq(s)) + 1
                /\ \A j \in 1..Len(s[i]) : FlattenSeq(s)[at[i] + j - 1] = s[i][j]
    BY <2>1, FlattenPlaces
  <2>3. s[1] = Escape(name[1]) /\ Len(s[1]) = 3 /\ s[1][1] = Underscore
    <3>1. 1 \in 1..Len(name) BY <1>1
    <3>2. s[1] = Escape(name[1]) BY <2>1, <3>1 DEF Piece
    <3>3. name[1] \in 0..255 BY <1>1, <3>1
    <3>4. Len(Escape(name[1])) = 3 /\ Escape(name[1])[1] = Underscore BY <3>3, Escaped
    <3> QED BY <3>2, <3>4
  <2>4. FlattenSeq(s)[1] = Underscore
    <3>1. 1 \in 1..Len(s) /\ 1 \in 1..Len(s[1]) BY <1>1, <2>1, <2>3
    <3>2. FlattenSeq(s)[at[1] + 1 - 1] = s[1][1] BY <2>2, <3>1
    <3>3. at[1] + 1 - 1 = 1 BY <2>2
    <3> QED BY <2>3, <3>2, <3>3
  <2>5. FlattenSeq(s) \in Seq(EncodedCharacters) BY <2>1, FlattenPlaces
  <2>6. FlattenSeq(s) # <<>>
    <3>1. 1 \in 1..Len(s) BY <1>1, <2>1
    <3>2. at[1 + 1] = at[1] + Len(s[1]) /\ at[1 + 1] <= Len(FlattenSeq(s)) + 1
      BY <2>2, <3>1
    <3>3. 4 <= Len(FlattenSeq(s)) + 1 BY <2>2, <2>3, <3>2
    <3>4. Len(<<>>) = 0 OBVIOUS
    <3> QED BY <3>3, <3>4
  <2> QED BY <1>3, <2>1, <2>4, <2>5, <2>6
<1> QED BY <1>2, <1>3

(* The EXCEPT of Decode, spelled out. *)
LEMMA Prepend ==
    ASSUME NEW good, NEW text, NEW first, NEW r, r = [good |-> good, text |-> text]
    PROVE  [r EXCEPT !.text = first \o @] = [good |-> good, text |-> first \o text]
<1>1. \A x : [r EXCEPT !.text = x] = [good |-> good, text |-> x] OBVIOUS
<1>2. r.text = text OBVIOUS
<1>3. [r EXCEPT !.text = first \o r.text] = [good |-> good, text |-> first \o r.text]
  BY <1>1
<1> QED BY <1>2, <1>3

(* The escapes of operator/= are taken for escapes by filename, and nothing
   else is: whatever its characters, a name is decoded to what it was. *)
THEOREM DecodeEncode ==
    ASSUME NEW name \in Names, ~Plain(name)
    PROVE  Decode(Encode(name)) = name
<1> DEFINE s == [i \in DOMAIN name |-> Piece(name, i)]
           e == Encode(name)
           n == Len(name)
<1>1. n \in Nat \ {0} /\ \A i \in 1..n : name[i] \in 0..255
  BY EmptySeq, ElementOfSeq DEF Names
<1>2. /\ s \in Seq(Seq(EncodedCharacters)) /\ s # <<>> /\ Len(s) = n
      /\ \A i \in 1..n : s[i] = Piece(name, i)
      /\ e = FlattenSeq(s)
  BY <1>1, Pieces
<1> HIDE DEF s, e
<1>3. e \in Seq(EncodedCharacters) /\ Len(e) \in Nat
  BY <1>2, FlattenPlaces, LenProperties
<1>4. PICK at \in [1..n + 1 -> Nat \ {0}] :
            /\ at[1] = 1 /\ at[n + 1] = Len(e) + 1
            /\ \A i \in 1..n :
                /\ at[i + 1] = at[i] + Len(s[i]) /\ at[i + 1] <= Len(e) + 1
                /\ \A j \in 1..Len(s[i]) : e[at[i] + j - 1] = s[i][j]
  <2> HIDE DEF n
  <2>0. s \in Seq(Seq(EncodedCharacters)) /\ s # <<>> BY <1>2
  <2>1. \E at \in [1..Len(s) + 1 -> Nat \ {0}] :
            /\ at[1] = 1 /\ at[Len(s) + 1] = Len(FlattenSeq(s)) + 1
            /\ \A i \in 1..Len(s) :
                /\ at[i + 1] = at[i] + Len(s[i]) /\ at[i + 1] <= Len(FlattenSeq(s)) + 1
                /\ \A j \in 1..Len(s[i]) : FlattenSeq(s)[at[i] + j - 1] = s[i][j]
    BY <2>0, FlattenPlaces
  <2> QED BY <1>2, <2>1
<1>5. PICK from :
            /\ \A i \in 1..Len(e) + 1 : from[i] = DecodeFrom(from, e, i)
            /\ Decode(e) = IF from[1].good THEN from[1].text ELSE <<>>
  BY <1>3, DecodeStepByStep
<1> DEFINE Rest(i) == [good |-> TRUE, text |-> SubSeq(name, i, n)]
<1>6. from[at[n + 1]] = Rest(n + 1)
  <2>1. from[Len(e) + 1] = [good |-> TRUE, text |-> <<>>]
    <3>1. Len(e) + 1 \in 1..Len(e) + 1 BY <1>3
    <3>2. from[Len(e) + 1] = DecodeFrom(from, e, Len(e) + 1) BY <1>5, <3>1
    <3> QED BY <3>2 DEF DecodeFrom
  <2>2. SubSeq(name, n + 1, n) = <<>> BY <1>1, SubSeqEmpty
  <2> QED BY <1>4, <2>1, <2>2
<1>7. ASSUME NEW i \in 1..n, from[at[i + 1]] = Rest(i + 1)
      PROVE  from[at[i]] = Rest(i)
  <2> DEFINE c == name[i]
             a == at[i]
  <2>1. c \in 0..255 /\ s[i] = Piece(name, i) BY <1>1, <1>2
  <2>2. SubSeq(name, i, n) = <<c>> \o SubSeq(name, i + 1, n)
    BY <1>1, SubSeqRecursiveFirst DEF Names
  <2>3. a \in Nat \ {0} /\ at[i + 1] = a + Len(s[i]) /\ at[i + 1] <= Len(e) + 1
    <3>1. i \in 1..n + 1 BY <1>1
    <3>2. at[i] \in Nat \ {0} BY <1>4, <3>1
    <3> QED BY <1>4, <3>2
  <2>4. \A j \in 1..Len(s[i]) : e[a + j - 1] = s[i][j] BY <1>4
  <2> HIDE DEF a, c, Rest
  <2>5. CASE s[i] = Escape(c)
    <3>1. /\ Len(s[i]) = 3 /\ s[i][1] = Underscore
          /\ Unhex(s[i][2]) # -1 /\ Unhex(s[i][3]) # -1
          /\ Unhex(s[i][2]) * 16 + Unhex(s[i][3]) = c
      BY <2>1, <2>5, Escaped
    <3>2. e[a] = s[i][1] /\ e[a + 1] = s[i][2] /\ e[a + 2] = s[i][3]
      <4>1. 1 \in 1..3 /\ 2 \in 1..3 /\ 3 \in 1..3 OBVIOUS
      <4>2. e[a + 1 - 1] = s[i][1] /\ e[a + 2 - 1] = s[i][2] /\ e[a + 3 - 1] = s[i][3]
        BY <2>4, <3>1, <4>1
      <4>3. a + 1 - 1 = a /\ a + 2 - 1 = a + 1 /\ a + 3 - 1 = a + 2 BY <2>3
      <4> QED BY <4>2, <4>3
    <3>3. a \in 1..Len(e) + 1 /\ a # Len(e) + 1 /\ a + 2 <= Len(e) /\ at[i + 1] = a + 3
      BY <1>3, <2>3, <3>1
    <3>4. from[a] = [from[a + 3] EXCEPT !.text = <<c>> \o @]
      <4>1. from[a] = DecodeFrom(from, e, a) BY <1>5, <3>3
      <4> QED BY <3>1, <3>2, <3>3, <4>1 DEF DecodeFrom
    <3>5. from[a + 3] = [good |-> TRUE, text |-> SubSeq(name, i + 1, n)]
      BY <1>7, <3>3 DEF Rest
    <3>6. from[a] = [good |-> TRUE, text |-> <<c>> \o SubSeq(name, i + 1, n)]
      BY <3>4, <3>5, Prepend
    <3> QED BY <2>2, <3>6 DEF Rest, a
  <2>6. CASE s[i] # Escape(c)
    <3>1. s[i] = <<c>> /\ ~ShouldEscape(c) BY <2>1, <2>6 DEF Piece, c
    <3>2. Len(s[i]) = 1 /\ s[i][1] = c /\ c # Underscore
      <4>1. c # Underscore BY <2>1, <3>1, Unescaped
      <4>2. Len(<<c>>) = 1 /\ <<c>>[1] = c OBVIOUS
      <4> QED BY <3>1, <4>1, <4>2
    <3>3. e[a] = c
      <4>1. 1 \in 1..Len(s[i]) /\ a + 1 - 1 = a BY <2>3, <3>2
      <4>2. e[a + 1 - 1] = s[i][1] BY <2>4, <4>1
      <4> QED BY <3>2, <4>1, <4>2
    <3>4. a \in 1..Len(e) + 1 /\ a # Len(e) + 1 /\ at[i + 1] = a + 1
      BY <1>3, <2>3, <3>2
    <3>5. from[a] = [from[a + 1] EXCEPT !.text = <<c>> \o @]
      <4>1. from[a] = DecodeFrom(from, e, a) BY <1>5, <3>4
      <4> QED BY <3>2, <3>3, <3>4, <4>1 DEF DecodeFrom
    <3>6. from[a + 1] = [good |-> TRUE, text |-> SubSeq(name, i + 1, n)]
      BY <1>7, <3>4 DEF Rest
    <3>7. from[a] = [good |-> TRUE, text |-> <<c>> \o SubSeq(name, i + 1, n)]
      BY <3>5, <3>6, Prepend
    <3> QED BY <2>2, <3>7 DEF Rest, a
  <2> QED BY <2>5, <2>6
<1> DEFINE S == {m \in Nat : m <= n => from[at[n + 1 - m]] = Rest(n + 1 - m)}
<1>8. 0 \in S
  <2>1. n + 1 - 0 = n + 1 BY <1>1
  <2> HIDE DEF Rest
  <2> QED BY <1>6, <2>1
<1>9. ASSUME NEW m \in S PROVE m + 1 \in S
  <2> HIDE DEF Rest
  <2> SUFFICES ASSUME m + 1 <= n
               PROVE  from[at[n + 1 - (m + 1)]] = Rest(n + 1 - (m + 1))
    OBVIOUS
  <2>1. m \in Nat /\ m <= n /\ from[at[n + 1 - m]] = Rest(n + 1 - m) BY <1>1
  <2>2. n - m \in 1..n /\ (n - m) + 1 = n + 1 - m /\ n + 1 - (m + 1) = n - m
    BY <1>1, <2>1
  <2>3. from[at[n - m]] = Rest(n - m) BY <1>7, <2>1, <2>2
  <2> QED BY <2>2, <2>3
<1>10. n \in S
  <2> HIDE DEF S
  <2>1. S \in SUBSET Nat BY DEF S
  <2> QED BY <1>1, <1>8, <1>9, <2>1, SetOfAllNumbers
<1>11. from[1] = [good |-> TRUE, text |-> SubSeq(name, 1, n)]
  <2>1. n + 1 - n = 1 /\ n <= n BY <1>1
  <2>2. from[at[n + 1 - n]] = Rest(n + 1 - n) BY <1>10, <2>1
  <2> QED BY <1>4, <2>1, <2>2
<1>12. Decode(e) = SubSeq(name, 1, n) BY <1>5, <1>11
<1> QED BY <1>12, SubSeqFull DEF e, Names

-----------------------------------------------------------------------------
(* Paths. *)

(* They begin with a slash, and end with none unless it is the only one. *)
WellFormed ==
    {p \in Seq(0..255) : p # <<>> /\ p[1] = Slash /\ (Len(p) > 1 => p[Len(p)] # Slash)}

(* A slash that no slash follows is what rfind finds. *)
LEMMA LastSlashIs ==
    ASSUME NEW p \in Seq(0..255), NEW l \in 1..Len(p), p[l] = Slash,
           \A k \in l + 1..Len(p) : p[k] # Slash
    PROVE  LastSlash(p) = l
<1> DEFINE at == {i \in DOMAIN p : p[i] = Slash}
<1>1. at \in SUBSET Nat /\ l \in at /\ \A k \in at : l >= k BY LenProperties
<1>2. Max(at) = l
  <2> HIDE DEF at
  <2>1. \A x \in at : (\A y \in at : x >= y) => x = l BY <1>1
  <2> QED BY <1>1, <2>1 DEF Max
<1> QED BY <1>1, <1>2 DEF LastSlash

(* A path and a name make a path that is taken apart into both. *)
LEMMA ExtendIsInverted ==
    ASSUME NEW p \in WellFormed, NEW name \in Names
    PROVE  /\ Extend(p, name) \in WellFormed
           /\ Filename(Extend(p, name)) = name
           /\ ParentPath(Extend(p, name)) = p
<1> DEFINE base == IF p # <<>> /\ Last(p) # Slash THEN Append(p, Slash) ELSE p
           e == Encode(name)
           q == base \o e
           l == Len(base)
<1>0. Extend(p, name) = q BY DEF Extend
<1>1. p \in Seq(0..255) /\ p # <<>> /\ Len(p) \in Nat \ {0} /\ p[1] = Slash
      /\ (Len(p) > 1 => p[Len(p)] # Slash)
  BY EmptySeq DEF WellFormed
<1>1a. Len(p) \in Nat /\ (Len(p) # 1 => Len(p) > 1)
  <2>1. Len(p) \in Nat \ {0} BY <1>1
  <2> DEFINE m == Len(p)
  <2> HIDE DEF m
  <2>2. m \in Nat \ {0} BY <2>1 DEF m
  <2>3. m \in Nat /\ (m # 1 => m > 1) BY <2>2
  <2> QED BY <2>3 DEF m
<1>2. /\ base \in Seq(0..255) /\ l \in Nat \ {0} /\ base[1] = Slash /\ base[l] = Slash
      /\ Len(p) = 1 => base = p
      /\ Len(p) # 1 => base = Append(p, Slash) /\ l = Len(p) + 1
  <2>1. CASE Len(p) = 1 BY <1>1, <2>1 DEF Last
  <2>2. CASE Len(p) # 1
    <3>0. Len(p) > 1 BY <1>1a, <2>2
    <3>0a. p[Len(p)] # Slash BY <1>1, <3>0
    <3>1. Last(p) # Slash BY <3>0a DEF Last
    <3>2. base = Append(p, Slash) BY <1>1, <3>1
    <3>3. Slash \in 0..255 BY DEF Slash
    <3> HIDE DEF base
    <3>4. base \in Seq(0..255) /\ l = Len(p) + 1 /\ base[Len(p) + 1] = Slash
          /\ \A k \in 1..Len(p) : base[k] = p[k]
      BY <1>1, <3>2, <3>3, AppendProperties
    <3>5. 1 \in 1..Len(p) BY <1>1
    <3> QED BY <1>1, <2>2, <3>2, <3>4, <3>5
  <2> QED BY <2>1, <2>2
<1>3. /\ e \in Seq(EncodedCharacters) /\ e \in Seq(0..255) /\ e # <<>>
      /\ Len(e) \in Nat \ {0}
      /\ \A k \in 1..Len(e) : e[k] # Slash
  <2>1. e \in Seq(EncodedCharacters) /\ e # <<>> BY EncodedHasNoSlash
  <2>2. EncodedCharacters \subseteq 0..255 /\ Slash \notin EncodedCharacters
    BY DEF EncodedCharacters
  <2> HIDE DEF e
  <2>3. e \in Seq(0..255)
    <3>1. EncodedCharacters \subseteq 0..255 BY <2>2
    <3>2. Seq(EncodedCharacters) \subseteq Seq(0..255) BY ONLY <3>1, SeqMonotonic
    <3> QED BY <2>1, <3>2
  <2>3a. Len(e) \in Nat \ {0} BY <2>1, <2>3, EmptySeq, LenProperties
  <2>4. \A k \in 1..Len(e) : e[k] \in EncodedCharacters BY <2>1, ElementOfSeq
  <2> QED BY <2>1, <2>2, <2>3, <2>3a, <2>4
<1> HIDE DEF base, e
<1>4. /\ q \in Seq(0..255) /\ Len(q) = l + Len(e)
      /\ \A k \in 1..l : q[k] = base[k]
      /\ \A j \in 1..Len(e) : q[l + j] = e[j]
  BY <1>2, <1>3, Concatenated
<1> HIDE DEF q
<1>5. \A k \in l + 1..Len(q) : q[k] # Slash
  <2> SUFFICES ASSUME NEW k \in l + 1..Len(q) PROVE q[k] # Slash OBVIOUS
  <2>1. k - l \in 1..Len(e) /\ l + (k - l) = k BY <1>2, <1>3, <1>4
  <2> QED BY <1>3, <1>4, <2>1
<1>6. LastSlash(q) = l
  <2>1. l \in 1..Len(q) /\ q[l] = Slash BY <1>2, <1>3, <1>4
  <2> QED BY <1>4, <1>5, <2>1, LastSlashIs
<1>7. q \in WellFormed
  <2>1. 1 \in 1..l /\ 1 \in 1..Len(q) BY <1>2, <1>3, <1>4
  <2>2. q # <<>> /\ q[1] = Slash BY <1>2, <1>4, <2>1
  <2>3. q[Len(q)] # Slash BY <1>2, <1>3, <1>4, <1>5
  <2> QED BY <1>4, <2>2, <2>3 DEF WellFormed
<1>8. ParentPath(q) = p
  <2>1. CASE Len(p) = 1
    <3>1. l = 1 /\ p = <<Slash>> BY <1>1, <1>2, <2>1
    <3> QED BY <1>6, <3>1 DEF ParentPath
  <2>2. CASE Len(p) # 1
    <3>0. l = Len(p) + 1 /\ base = Append(p, Slash) BY <1>2, <2>2
    <3>0a. Len(p) \in Nat /\ Len(p) > 1 BY <1>1a, <2>2
    <3> HIDE DEF l
    <3>1. l = Len(p) + 1 /\ ~(l <= 2) /\ base = Append(p, Slash) BY <3>0, <3>0a
    <3>2. \A k \in 1..Len(p) : q[k] = p[k]
      <4>1. \A k \in 1..Len(p) : k \in 1..l /\ base[k] = p[k] BY <1>1, <3>1
      <4> QED BY <1>4, <4>1
    <3> DEFINE r == SubSeq(q, 1, l - 1)
    <3>3. l - 1 = Len(p) /\ \A k \in 1..l - 1 : q[k] \in 0..255
      <4>1. l - 1 = Len(p) BY <1>1, <3>1
      <4>2. \A k \in 1..Len(p) : p[k] \in 0..255 BY <1>1, ElementOfSeq
      <4> QED BY <3>2, <4>1, <4>2
    <3>4. /\ r \in Seq(0..255) /\ Len(r) = Len(p)
          /\ \A k \in 1..Len(p) : r[k] = q[k]
      BY <1>1, <3>1, <3>3, SubSeqProperties
    <3>5. r = p
      <4> HIDE DEF r
      <4> QED BY <1>1, <3>2, <3>4, SeqEqual
    <3> QED BY <1>6, <3>1, <3>5 DEF ParentPath
  <2> QED BY <2>1, <2>2
<1>9. SubSeq(q, l + 1, Len(q)) = e
  <2> DEFINE r == SubSeq(q, l + 1, Len(q))
  <2>1. \A k \in l + 1..Len(q) : q[k] \in 0..255
    <3>1. \A k \in 1..Len(q) : q[k] \in 0..255 BY <1>4, ElementOfSeq
    <3>2. \A k \in l + 1..Len(q) : k \in 1..Len(q) BY <1>2
    <3> QED BY <3>1, <3>2
  <2>2. /\ r \in Seq(0..255) /\ Len(r) = Len(e)
        /\ \A j \in 1..Len(e) : r[j] = q[l + j]
    BY <1>2, <1>3, <1>4, <2>1, SubSeqProperties
  <2>3. \A j \in 1..Len(e) : r[j] = e[j] BY <1>4, <2>2
  <2> HIDE DEF r
  <2>4. r = e BY <1>3, <2>2, <2>3, SeqEqual
  <2> QED BY <2>4 DEF r
<1>10. Filename(q) = name
  <2>1. CASE Plain(name)
    <3>1. e = name /\ e[1] # Underscore BY <2>1, EncodedHasNoSlash DEF e, Encode
    <3> QED BY <1>2, <1>6, <1>9, <3>1 DEF Filename
  <2>2. CASE ~Plain(name)
    <3>1. e[1] = Underscore /\ Decode(e) = name
      BY <2>2, EncodedHasNoSlash, DecodeEncode DEF e
    <3> QED BY <1>2, <1>3, <1>6, <1>9, <3>1 DEF Filename
  <2> QED BY <2>1, <2>2
<1> QED BY <1>0, <1>7, <1>8, <1>10

-----------------------------------------------------------------------------
Spec == Init /\ [][Next]_vars

(* The path is what its history makes of it, name by name. *)
IInv ==
    /\ history \in Seq([name: Names, parent: WellFormed])
    /\ \A i \in 1..Len(history) :
        history[i].parent = IF i = 1 THEN <<Slash>>
                            ELSE Extend(history[i - 1].parent, history[i - 1].name)
    /\ path = IF history = <<>> THEN <<Slash>>
              ELSE Extend(Last(history).parent, Last(history).name)

(* The invariant holds the property: the last extension is undone. *)
LEMMA IInvImpliesPathsRoundTrip == IInv => PathsRoundTrip
<1> SUFFICES ASSUME IInv PROVE PathsRoundTrip OBVIOUS
<1>1. history = <<>> => path = <<Slash>> BY DEF IInv
<1>2. ASSUME history # <<>>
      PROVE  Filename(path) = Last(history).name /\ ParentPath(path) = Last(history).parent
  <2>1. Len(history) \in 1..Len(history) BY <1>2, EmptySeq DEF IInv
  <2>2. Last(history) \in [name: Names, parent: WellFormed]
    BY <2>1, ElementOfSeq DEF IInv, Last
  <2>3. path = Extend(Last(history).parent, Last(history).name) BY <1>2 DEF IInv
  <2> QED BY <2>2, <2>3, ExtendIsInverted
<1> QED BY <1>1, <1>2 DEF PathsRoundTrip

(* operator/ adds a name to a path the invariant describes. *)
LEMMA DescendPreservesIInv ==
    ASSUME IInv, NEW name \in Names, Descend(name)
    PROVE  IInv'
<1> DEFINE n == Len(history)
           entry == [name |-> name, parent |-> path]
<1>1. path \in WellFormed
  <2>1. CASE history = <<>>
    <3>1. path = <<Slash>> BY <2>1 DEF IInv
    <3>2. Slash \in 0..255 BY DEF Slash
    <3> QED BY <3>1, <3>2 DEF WellFormed
  <2>2. CASE history # <<>>
    <3>1. n \in 1..n BY <2>2, EmptySeq DEF IInv
    <3>2. Last(history) \in [name: Names, parent: WellFormed]
      BY <3>1, ElementOfSeq DEF IInv, Last
    <3> QED BY <2>2, <3>2, ExtendIsInverted DEF IInv
  <2> QED BY <2>1, <2>2
<1>2. /\ history' \in Seq([name: Names, parent: WellFormed]) /\ history' # <<>>
      /\ n \in Nat /\ Len(history') = n + 1
      /\ \A i \in 1..n : history'[i] = history[i]
      /\ history'[n + 1] = entry
  <2>1. entry \in [name: Names, parent: WellFormed] BY <1>1
  <2>2. history' = Append(history, entry) BY DEF Descend
  <2> HIDE DEF entry
  <2> QED BY <2>1, <2>2, AppendProperties, LenProperties DEF IInv
<1>3. path' = Extend(Last(history').parent, Last(history').name)
  BY <1>2 DEF Descend, Last
<1>4. ASSUME NEW i \in 1..n + 1
      PROVE  history'[i].parent = IF i = 1 THEN <<Slash>>
                                  ELSE Extend(history'[i - 1].parent, history'[i - 1].name)
  <2>1. CASE i = n + 1 /\ n = 0
    <3>1. history = <<>> BY <2>1, EmptySeq DEF IInv
    <3> QED BY <1>2, <2>1, <3>1 DEF IInv
  <2>2. CASE i = n + 1 /\ n # 0
    <3>1. i # 1 /\ i - 1 = n /\ n \in 1..n BY <1>2, <2>2
    <3>2. history # <<>> BY <2>2
    <3>3. path = Extend(history[n].parent, history[n].name) BY <3>2 DEF IInv, Last
    <3> QED BY <1>2, <2>2, <3>1, <3>3
  <2>3. CASE i # n + 1
    <3>1. i \in 1..n /\ (i # 1 => i - 1 \in 1..n) BY <1>2, <2>3
    <3>2. history'[i] = history[i] /\ (i # 1 => history'[i - 1] = history[i - 1])
      BY <1>2, <3>1
    <3> QED BY <3>1, <3>2 DEF IInv
  <2> QED BY <2>1, <2>2, <2>3
<1> QED BY <1>2, <1>3, <1>4 DEF IInv

(* parent_path gives the path before the last name. *)
LEMMA AscendPreservesIInv ==
    ASSUME IInv, Ascend
    PROVE  IInv'
<1> DEFINE n == Len(history)
<1>1. n \in Nat \ {0} /\ history # <<>> /\ history \in Seq([name: Names, parent: WellFormed])
  BY EmptySeq DEF IInv, Ascend
<1>2. /\ history' \in Seq([name: Names, parent: WellFormed])
      /\ Len(history') = n - 1
      /\ \A i \in 1..n - 1 : history'[i] = history[i]
  <2>1. history' = SubSeq(history, 1, n - 1) BY DEF Ascend, Front
  <2>2. \A i \in 1..n - 1 : history[i] \in [name: Names, parent: WellFormed]
    <3>1. \A i \in 1..n : history[i] \in [name: Names, parent: WellFormed]
      BY <1>1, ElementOfSeq
    <3> QED BY <1>1, <3>1
  <2>3. 1 \in Int /\ n - 1 \in Int /\ (IF 1 <= n - 1 THEN n - 1 - 1 + 1 ELSE 0) = n - 1
        /\ n - 1 - 1 + 1 = n - 1 /\ \A i \in 1..n - 1 : 1 + i - 1 = i
    <3> HIDE DEF n
    <3> QED BY <1>1
  <2> HIDE DEF n
  <2>4. /\ history' \in Seq([name: Names, parent: WellFormed])
        /\ Len(history') = IF 1 <= n - 1 THEN n - 1 - 1 + 1 ELSE 0
        /\ \A i \in 1..n - 1 - 1 + 1 : history'[i] = history[1 + i - 1]
    BY <2>1, <2>2, <2>3, SubSeqProperties
  <2> QED BY <2>3, <2>4
<1>3. path' = history[n].parent
  <2>1. PathsRoundTrip BY IInvImpliesPathsRoundTrip
  <2> QED BY <1>1, <2>1 DEF PathsRoundTrip, Ascend, Last
<1>4. history[n].parent = IF n = 1 THEN <<Slash>>
                          ELSE Extend(history[n - 1].parent, history[n - 1].name)
  <2>1. n \in 1..n BY <1>1
  <2> QED BY <2>1 DEF IInv
<1>5. path' = IF history' = <<>> THEN <<Slash>>
              ELSE Extend(Last(history').parent, Last(history').name)
  <2>1. CASE n = 1
    <3>1. history' = <<>> BY <1>2, <2>1, EmptySeq
    <3> QED BY <1>3, <1>4, <2>1, <3>1
  <2>2. CASE n # 1
    <3>1. history' # <<>> /\ n - 1 \in 1..n - 1 BY <1>1, <1>2, <2>2
    <3>2. Last(history') = history[n - 1] BY <1>2, <3>1 DEF Last
    <3> QED BY <1>3, <1>4, <2>2, <3>1, <3>2
  <2> QED BY <2>1, <2>2
<1>6. ASSUME NEW i \in 1..n - 1
      PROVE  history'[i].parent = IF i = 1 THEN <<Slash>>
                                  ELSE Extend(history'[i - 1].parent, history'[i - 1].name)
  <2>1. i \in 1..n /\ (i # 1 => i - 1 \in 1..n - 1) BY <1>1
  <2>2. history'[i] = history[i] /\ (i # 1 => history'[i - 1] = history[i - 1])
    BY <1>2, <2>1
  <2> QED BY <2>1, <2>2 DEF IInv
<1> QED BY <1>2, <1>5, <1>6 DEF IInv

(* The inductive invariant holds of every behaviour. *)
THEOREM Invariance ==
    ASSUME Characters \subseteq 0..255, MaxCharacters \in Nat
    PROVE  Spec => []IInv
<1>1. Init => IInv BY DEF Init, IInv
<1>2. IInv /\ [Next]_vars => IInv'
  <2> SUFFICES ASSUME IInv, [Next]_vars PROVE IInv' OBVIOUS
  <2>1. ASSUME NEW n \in 1..MaxCharacters, NEW name \in [1..n -> Characters], Descend(name)
        PROVE  IInv'
    <3>1. n \in Nat \ {0} OBVIOUS
    <3>2. name \in [1..n -> 0..255] OBVIOUS
    <3>3. name \in Seq(0..255) BY <3>1, <3>2, SeqDef
    <3>4. Len(name) = n BY <3>1, <3>2, <3>3, LenProperties
    <3>5. name \in Names BY <3>1, <3>3, <3>4, EmptySeq DEF Names
    <3> QED BY <2>1, <3>5, DescendPreservesIInv
  <2>2. CASE Ascend BY <2>2, AscendPreservesIInv
  <2>3. CASE UNCHANGED vars BY <2>3 DEF vars, IInv
  <2> QED BY <2>1, <2>2, <2>3 DEF Next
<1> QED BY <1>1, <1>2, PTL DEF Spec

(* Whatever names a path is extended by and however often it is left: its last
   element is the name that was appended, and its parent what that was appended
   to (operator/=, filename and parent_path). *)
THEOREM PathsRoundTripHolds ==
    ASSUME Characters \subseteq 0..255, MaxCharacters \in Nat
    PROVE  Spec => []PathsRoundTrip
BY Invariance, IInvImpliesPathsRoundTrip, PTL

-----------------------------------------------------------------------------
(* The levels of the definitions of Marshalling: each equation of a recursive
   function has a solution, so that the function is one. *)
LEMMA TypesToIs ==
    ASSUME MaxNesting \in Nat
    PROVE  \A n \in 0..MaxNesting :
            TypesTo[n] = IF n = 0 THEN {} ELSE TypesOver(TypesTo[n - 1])
<1> DEFINE Level(f, n) == IF n = 0 THEN {} ELSE TypesOver(f[n - 1])
           S == {m \in Nat : \E f : f = [n \in 0..m |-> Level(f, n)]}
<1>1. 0 \in S
  <2> DEFINE f == [n \in 0..0 |-> {}]
  <2>1. f = [n \in 0..0 |-> Level(f, n)] OBVIOUS
  <2> QED BY <2>1
<1>2. ASSUME NEW m \in S PROVE m + 1 \in S
  <2>1. PICK f : f = [n \in 0..m |-> Level(f, n)] OBVIOUS
  <2> DEFINE g == [n \in 0..m + 1 |-> IF n = m + 1 THEN Level(f, n) ELSE f[n]]
  <2>2. \A n \in 0..m + 1 : n = 0 \/ (n - 1 \in 0..m /\ n - 1 # m + 1) OBVIOUS
  <2>3. \A n \in 0..m : g[n] = f[n] OBVIOUS
  <2>4. \A n \in 0..m + 1 : Level(g, n) = Level(f, n) BY <2>2, <2>3
  <2>5. \A n \in 0..m : f[n] = Level(f, n) BY <2>1
  <2> HIDE DEF Level
  <2>6. \A n \in 0..m + 1 : g[n] = Level(g, n) BY <2>4, <2>5
  <2>7. g = [n \in 0..m + 1 |-> Level(g, n)] BY <2>6
  <2> HIDE DEF g
  <2>8. m + 1 \in Nat /\ \E h : h = [n \in 0..m + 1 |-> Level(h, n)] BY <2>7
  <2> QED BY <2>8
<1>3. S \in SUBSET Nat OBVIOUS
<1> HIDE DEF S
<1>4. MaxNesting \in S BY <1>1, <1>2, <1>3, SetOfAllNumbers
<1>5. \E f : f = [n \in 0..MaxNesting |-> Level(f, n)] BY <1>4 DEF S
<1>6. TypesTo = [n \in 0..MaxNesting |-> Level(TypesTo, n)] BY <1>5 DEF TypesTo
<1> QED BY <1>6

LEMMA ValuesToIs ==
    ASSUME MaxNesting \in Nat
    PROVE  \A n \in 0..MaxNesting :
            ValuesTo[n] = IF n = 0 THEN {} ELSE ValuesOver(ValuesTo[n - 1])
<1> DEFINE Level(f, n) == IF n = 0 THEN {} ELSE ValuesOver(f[n - 1])
           S == {m \in Nat : \E f : f = [n \in 0..m |-> Level(f, n)]}
<1>1. 0 \in S
  <2> DEFINE f == [n \in 0..0 |-> {}]
  <2>1. f = [n \in 0..0 |-> Level(f, n)] OBVIOUS
  <2> QED BY <2>1
<1>2. ASSUME NEW m \in S PROVE m + 1 \in S
  <2>1. PICK f : f = [n \in 0..m |-> Level(f, n)] OBVIOUS
  <2> DEFINE g == [n \in 0..m + 1 |-> IF n = m + 1 THEN Level(f, n) ELSE f[n]]
  <2>2. \A n \in 0..m + 1 : n = 0 \/ (n - 1 \in 0..m /\ n - 1 # m + 1) OBVIOUS
  <2>3. \A n \in 0..m : g[n] = f[n] OBVIOUS
  <2>4. \A n \in 0..m + 1 : Level(g, n) = Level(f, n) BY <2>2, <2>3
  <2>5. \A n \in 0..m : f[n] = Level(f, n) BY <2>1
  <2> HIDE DEF Level
  <2>6. \A n \in 0..m + 1 : g[n] = Level(g, n) BY <2>4, <2>5
  <2>7. g = [n \in 0..m + 1 |-> Level(g, n)] BY <2>6
  <2> HIDE DEF g
  <2>8. m + 1 \in Nat /\ \E h : h = [n \in 0..m + 1 |-> Level(h, n)] BY <2>7
  <2> QED BY <2>8
<1>3. S \in SUBSET Nat OBVIOUS
<1> HIDE DEF S
<1>4. MaxNesting \in S BY <1>1, <1>2, <1>3, SetOfAllNumbers
<1>5. \E f : f = [n \in 0..MaxNesting |-> Level(f, n)] BY <1>4 DEF S
<1>6. ValuesTo = [n \in 0..MaxNesting |-> Level(ValuesTo, n)] BY <1>5 DEF ValuesTo
<1> QED BY <1>6

LEMMA ElementsToIs ==
    ASSUME MaxNesting \in Nat
    PROVE  \A n \in 0..MaxNesting :
            ElementsTo[n] = IF n = 0 THEN {} ELSE ElementsOver(ElementsTo[n - 1])
<1> DEFINE Level(f, n) == IF n = 0 THEN {} ELSE ElementsOver(f[n - 1])
           S == {m \in Nat : \E f : f = [n \in 0..m |-> Level(f, n)]}
<1>1. 0 \in S
  <2> DEFINE f == [n \in 0..0 |-> {}]
  <2>1. f = [n \in 0..0 |-> Level(f, n)] OBVIOUS
  <2> QED BY <2>1
<1>2. ASSUME NEW m \in S PROVE m + 1 \in S
  <2>1. PICK f : f = [n \in 0..m |-> Level(f, n)] OBVIOUS
  <2> DEFINE g == [n \in 0..m + 1 |-> IF n = m + 1 THEN Level(f, n) ELSE f[n]]
  <2>2. \A n \in 0..m + 1 : n = 0 \/ (n - 1 \in 0..m /\ n - 1 # m + 1) OBVIOUS
  <2>3. \A n \in 0..m : g[n] = f[n] OBVIOUS
  <2>4. \A n \in 0..m + 1 : Level(g, n) = Level(f, n) BY <2>2, <2>3
  <2>5. \A n \in 0..m : f[n] = Level(f, n) BY <2>1
  <2> HIDE DEF Level
  <2>6. \A n \in 0..m + 1 : g[n] = Level(g, n) BY <2>4, <2>5
  <2>7. g = [n \in 0..m + 1 |-> Level(g, n)] BY <2>6
  <2> HIDE DEF g
  <2>8. m + 1 \in Nat /\ \E h : h = [n \in 0..m + 1 |-> Level(h, n)] BY <2>7
  <2> QED BY <2>8
<1>3. S \in SUBSET Nat OBVIOUS
<1> HIDE DEF S
<1>4. MaxNesting \in S BY <1>1, <1>2, <1>3, SetOfAllNumbers
<1>5. \E f : f = [n \in 0..MaxNesting |-> Level(f, n)] BY <1>4 DEF S
<1>6. ElementsTo = [n \in 0..MaxNesting |-> Level(ElementsTo, n)] BY <1>5 DEF ElementsTo
<1> QED BY <1>6

LEMMA SignatureToIs ==
    ASSUME MaxNesting \in Nat
    PROVE  \A n \in 0..MaxNesting :
            SignatureTo[n] = IF n = 0 THEN [t \in {Monostate} |-> <<>>]
                    ELSE SignatureOver(n, SignatureTo[n - 1])
<1> DEFINE Level(f, n) == IF n = 0 THEN [t \in {Monostate} |-> <<>>]
                          ELSE SignatureOver(n, f[n - 1])
           S == {m \in Nat : \E f : f = [n \in 0..m |-> Level(f, n)]}
<1>1. 0 \in S
  <2> DEFINE f == [n \in 0..0 |-> [t \in {Monostate} |-> <<>>]]
  <2>1. f = [n \in 0..0 |-> Level(f, n)] OBVIOUS
  <2> QED BY <2>1
<1>2. ASSUME NEW m \in S PROVE m + 1 \in S
  <2>1. PICK f : f = [n \in 0..m |-> Level(f, n)] OBVIOUS
  <2> DEFINE g == [n \in 0..m + 1 |-> IF n = m + 1 THEN Level(f, n) ELSE f[n]]
  <2>2. \A n \in 0..m + 1 : n = 0 \/ (n - 1 \in 0..m /\ n - 1 # m + 1) OBVIOUS
  <2>3. \A n \in 0..m : g[n] = f[n] OBVIOUS
  <2>4. \A n \in 0..m + 1 : Level(g, n) = Level(f, n) BY <2>2, <2>3
  <2>5. \A n \in 0..m : f[n] = Level(f, n) BY <2>1
  <2> HIDE DEF Level
  <2>6. \A n \in 0..m + 1 : g[n] = Level(g, n) BY <2>4, <2>5
  <2>7. g = [n \in 0..m + 1 |-> Level(g, n)] BY <2>6
  <2> HIDE DEF g
  <2>8. m + 1 \in Nat /\ \E h : h = [n \in 0..m + 1 |-> Level(h, n)] BY <2>7
  <2> QED BY <2>8
<1>3. S \in SUBSET Nat OBVIOUS
<1> HIDE DEF S
<1>4. MaxNesting \in S BY <1>1, <1>2, <1>3, SetOfAllNumbers
<1>5. \E f : f = [n \in 0..MaxNesting |-> Level(f, n)] BY <1>4 DEF S
<1>6. SignatureTo = [n \in 0..MaxNesting |-> Level(SignatureTo, n)] BY <1>5 DEF SignatureTo
<1> QED BY <1>6

LEMMA AppendToIs ==
    ASSUME MaxNesting \in Nat
    PROVE  \A n \in 0..MaxNesting :
            AppendTo[n] = IF n = 0 THEN <<>> ELSE AppendOver(n, AppendTo[n - 1])
<1> DEFINE Level(f, n) == IF n = 0 THEN <<>> ELSE AppendOver(n, f[n - 1])
           S == {m \in Nat : \E f : f = [n \in 0..m |-> Level(f, n)]}
<1>1. 0 \in S
  <2> DEFINE f == [n \in 0..0 |-> <<>>]
  <2>1. f = [n \in 0..0 |-> Level(f, n)] OBVIOUS
  <2> QED BY <2>1
<1>2. ASSUME NEW m \in S PROVE m + 1 \in S
  <2>1. PICK f : f = [n \in 0..m |-> Level(f, n)] OBVIOUS
  <2> DEFINE g == [n \in 0..m + 1 |-> IF n = m + 1 THEN Level(f, n) ELSE f[n]]
  <2>2. \A n \in 0..m + 1 : n = 0 \/ (n - 1 \in 0..m /\ n - 1 # m + 1) OBVIOUS
  <2>3. \A n \in 0..m : g[n] = f[n] OBVIOUS
  <2>4. \A n \in 0..m + 1 : Level(g, n) = Level(f, n) BY <2>2, <2>3
  <2>5. \A n \in 0..m : f[n] = Level(f, n) BY <2>1
  <2> HIDE DEF Level
  <2>6. \A n \in 0..m + 1 : g[n] = Level(g, n) BY <2>4, <2>5
  <2>7. g = [n \in 0..m + 1 |-> Level(g, n)] BY <2>6
  <2> HIDE DEF g
  <2>8. m + 1 \in Nat /\ \E h : h = [n \in 0..m + 1 |-> Level(h, n)] BY <2>7
  <2> QED BY <2>8
<1>3. S \in SUBSET Nat OBVIOUS
<1> HIDE DEF S
<1>4. MaxNesting \in S BY <1>1, <1>2, <1>3, SetOfAllNumbers
<1>5. \E f : f = [n \in 0..MaxNesting |-> Level(f, n)] BY <1>4 DEF S
<1>6. AppendTo = [n \in 0..MaxNesting |-> Level(AppendTo, n)] BY <1>5 DEF AppendTo
<1> QED BY <1>6

LEMMA ReadToIs ==
    ASSUME MaxNesting \in Nat
    PROVE  \A n \in 0..MaxNesting :
            ReadTo[n] = IF n = 0 THEN <<>> ELSE ReadOver(n, ReadTo[n - 1])
<1> DEFINE Level(f, n) == IF n = 0 THEN <<>> ELSE ReadOver(n, f[n - 1])
           S == {m \in Nat : \E f : f = [n \in 0..m |-> Level(f, n)]}
<1>1. 0 \in S
  <2> DEFINE f == [n \in 0..0 |-> <<>>]
  <2>1. f = [n \in 0..0 |-> Level(f, n)] OBVIOUS
  <2> QED BY <2>1
<1>2. ASSUME NEW m \in S PROVE m + 1 \in S
  <2>1. PICK f : f = [n \in 0..m |-> Level(f, n)] OBVIOUS
  <2> DEFINE g == [n \in 0..m + 1 |-> IF n = m + 1 THEN Level(f, n) ELSE f[n]]
  <2>2. \A n \in 0..m + 1 : n = 0 \/ (n - 1 \in 0..m /\ n - 1 # m + 1) OBVIOUS
  <2>3. \A n \in 0..m : g[n] = f[n] OBVIOUS
  <2>4. \A n \in 0..m + 1 : Level(g, n) = Level(f, n) BY <2>2, <2>3
  <2>5. \A n \in 0..m : f[n] = Level(f, n) BY <2>1
  <2> HIDE DEF Level
  <2>6. \A n \in 0..m + 1 : g[n] = Level(g, n) BY <2>4, <2>5
  <2>7. g = [n \in 0..m + 1 |-> Level(g, n)] BY <2>6
  <2> HIDE DEF g
  <2>8. m + 1 \in Nat /\ \E h : h = [n \in 0..m + 1 |-> Level(h, n)] BY <2>7
  <2> QED BY <2>8
<1>3. S \in SUBSET Nat OBVIOUS
<1> HIDE DEF S
<1>4. MaxNesting \in S BY <1>1, <1>2, <1>3, SetOfAllNumbers
<1>5. \E f : f = [n \in 0..MaxNesting |-> Level(f, n)] BY <1>4 DEF S
<1>6. ReadTo = [n \in 0..MaxNesting |-> Level(ReadTo, n)] BY <1>5 DEF ReadTo
<1> QED BY <1>6

LEMMA ValuesOfToIs ==
    ASSUME MaxNesting \in Nat
    PROVE  \A n \in 0..MaxNesting :
            ValuesOfTo[n] = IF n = 0 THEN [t \in {Monostate} |-> {}]
                    ELSE ValuesOfOver(n, ValuesOfTo[n - 1])
<1> DEFINE Level(f, n) == IF n = 0 THEN [t \in {Monostate} |-> {}]
                          ELSE ValuesOfOver(n, f[n - 1])
           S == {m \in Nat : \E f : f = [n \in 0..m |-> Level(f, n)]}
<1>1. 0 \in S
  <2> DEFINE f == [n \in 0..0 |-> [t \in {Monostate} |-> {}]]
  <2>1. f = [n \in 0..0 |-> Level(f, n)] OBVIOUS
  <2> QED BY <2>1
<1>2. ASSUME NEW m \in S PROVE m + 1 \in S
  <2>1. PICK f : f = [n \in 0..m |-> Level(f, n)] OBVIOUS
  <2> DEFINE g == [n \in 0..m + 1 |-> IF n = m + 1 THEN Level(f, n) ELSE f[n]]
  <2>2. \A n \in 0..m + 1 : n = 0 \/ (n - 1 \in 0..m /\ n - 1 # m + 1) OBVIOUS
  <2>3. \A n \in 0..m : g[n] = f[n] OBVIOUS
  <2>4. \A n \in 0..m + 1 : Level(g, n) = Level(f, n) BY <2>2, <2>3
  <2>5. \A n \in 0..m : f[n] = Level(f, n) BY <2>1
  <2> HIDE DEF Level
  <2>6. \A n \in 0..m + 1 : g[n] = Level(g, n) BY <2>4, <2>5
  <2>7. g = [n \in 0..m + 1 |-> Level(g, n)] BY <2>6
  <2> HIDE DEF g
  <2>8. m + 1 \in Nat /\ \E h : h = [n \in 0..m + 1 |-> Level(h, n)] BY <2>7
  <2> QED BY <2>8
<1>3. S \in SUBSET Nat OBVIOUS
<1> HIDE DEF S
<1>4. MaxNesting \in S BY <1>1, <1>2, <1>3, SetOfAllNumbers
<1>5. \E f : f = [n \in 0..MaxNesting |-> Level(f, n)] BY <1>4 DEF S
<1>6. ValuesOfTo = [n \in 0..MaxNesting |-> Level(ValuesOfTo, n)] BY <1>5 DEF ValuesOfTo
<1> QED BY <1>6

LEMMA ConvertToIs ==
    ASSUME MaxNesting \in Nat
    PROVE  \A n \in 0..MaxNesting :
            ConvertTo[n] = IF n = 0 THEN [t \in {Monostate} |-> [data \in Texts |-> {}]]
                           ELSE ConvertOver(n, ConvertTo[n - 1])
<1> DEFINE None == [t \in {Monostate} |-> [data \in Texts |-> {}]]
           Level(f, n) == IF n = 0 THEN None ELSE ConvertOver(n, f[n - 1])
           S == {m \in Nat : \E f : f = [n \in 0..m |-> Level(f, n)]}
<1>1. 0 \in S
  <2> DEFINE f == [n \in 0..0 |-> None]
  <2>1. f = [n \in 0..0 |-> Level(f, n)] OBVIOUS
  <2> QED BY <2>1
<1>2. ASSUME NEW m \in S PROVE m + 1 \in S
  <2>1. PICK f : f = [n \in 0..m |-> Level(f, n)] OBVIOUS
  <2> DEFINE g == [n \in 0..m + 1 |-> IF n = m + 1 THEN Level(f, n) ELSE f[n]]
  <2>2. \A n \in 0..m + 1 : n = 0 \/ (n - 1 \in 0..m /\ n - 1 # m + 1) OBVIOUS
  <2>3. \A n \in 0..m : g[n] = f[n] OBVIOUS
  <2>4. \A n \in 0..m + 1 : Level(g, n) = Level(f, n) BY <2>2, <2>3
  <2>5. \A n \in 0..m : f[n] = Level(f, n) BY <2>1
  <2> HIDE DEF Level
  <2>6. \A n \in 0..m + 1 : g[n] = Level(g, n) BY <2>4, <2>5
  <2>7. g = [n \in 0..m + 1 |-> Level(g, n)] BY <2>6
  <2> HIDE DEF g
  <2>8. m + 1 \in Nat /\ \E h : h = [n \in 0..m + 1 |-> Level(h, n)] BY <2>7
  <2> QED BY <2>8
<1>3. S \in SUBSET Nat OBVIOUS
<1> HIDE DEF S
<1>4. MaxNesting \in S BY <1>1, <1>2, <1>3, SetOfAllNumbers
<1>5. \E f : f = [n \in 0..MaxNesting |-> Level(f, n)] BY <1>4 DEF S
<1>6. ConvertTo = [n \in 0..MaxNesting |-> Level(ConvertTo, n)] BY <1>5 DEF ConvertTo
<1> QED BY <1>6

LEMMA ConvertingToIs ==
    ASSUME MaxNesting \in Nat
    PROVE  \A n \in 0..MaxNesting :
            ConvertingTo[n] = IF n = 0 THEN {} ELSE ConvertingOver(n, ConvertingTo[n - 1])
<1> DEFINE Level(f, n) == IF n = 0 THEN {} ELSE ConvertingOver(n, f[n - 1])
           S == {m \in Nat : \E f : f = [n \in 0..m |-> Level(f, n)]}
<1>1. 0 \in S
  <2> DEFINE f == [n \in 0..0 |-> {}]
  <2>1. f = [n \in 0..0 |-> Level(f, n)] OBVIOUS
  <2> QED BY <2>1
<1>2. ASSUME NEW m \in S PROVE m + 1 \in S
  <2>1. PICK f : f = [n \in 0..m |-> Level(f, n)] OBVIOUS
  <2> DEFINE g == [n \in 0..m + 1 |-> IF n = m + 1 THEN Level(f, n) ELSE f[n]]
  <2>2. \A n \in 0..m + 1 : n = 0 \/ (n - 1 \in 0..m /\ n - 1 # m + 1) OBVIOUS
  <2>3. \A n \in 0..m : g[n] = f[n] OBVIOUS
  <2>4. \A n \in 0..m + 1 : Level(g, n) = Level(f, n) BY <2>2, <2>3
  <2>5. \A n \in 0..m : f[n] = Level(f, n) BY <2>1
  <2> HIDE DEF Level
  <2>6. \A n \in 0..m + 1 : g[n] = Level(g, n) BY <2>4, <2>5
  <2>7. g = [n \in 0..m + 1 |-> Level(g, n)] BY <2>6
  <2> HIDE DEF g
  <2>8. m + 1 \in Nat /\ \E h : h = [n \in 0..m + 1 |-> Level(h, n)] BY <2>7
  <2> QED BY <2>8
<1>3. S \in SUBSET Nat OBVIOUS
<1> HIDE DEF S
<1>4. MaxNesting \in S BY <1>1, <1>2, <1>3, SetOfAllNumbers
<1>5. \E f : f = [n \in 0..MaxNesting |-> Level(f, n)] BY <1>4 DEF S
<1>6. ConvertingTo = [n \in 0..MaxNesting |-> Level(ConvertingTo, n)] BY <1>5 DEF ConvertingTo
<1> QED BY <1>6

LEMMA UnambiguousToIs ==
    ASSUME MaxNesting \in Nat
    PROVE  \A n \in 0..MaxNesting :
            UnambiguousTo[n] = IF n = 0 THEN {} ELSE UnambiguousOver(n, UnambiguousTo[n - 1])
<1> DEFINE Level(f, n) == IF n = 0 THEN {} ELSE UnambiguousOver(n, f[n - 1])
           S == {m \in Nat : \E f : f = [n \in 0..m |-> Level(f, n)]}
<1>1. 0 \in S
  <2> DEFINE f == [n \in 0..0 |-> {}]
  <2>1. f = [n \in 0..0 |-> Level(f, n)] OBVIOUS
  <2> QED BY <2>1
<1>2. ASSUME NEW m \in S PROVE m + 1 \in S
  <2>1. PICK f : f = [n \in 0..m |-> Level(f, n)] OBVIOUS
  <2> DEFINE g == [n \in 0..m + 1 |-> IF n = m + 1 THEN Level(f, n) ELSE f[n]]
  <2>2. \A n \in 0..m + 1 : n = 0 \/ (n - 1 \in 0..m /\ n - 1 # m + 1) OBVIOUS
  <2>3. \A n \in 0..m : g[n] = f[n] OBVIOUS
  <2>4. \A n \in 0..m + 1 : Level(g, n) = Level(f, n) BY <2>2, <2>3
  <2>5. \A n \in 0..m : f[n] = Level(f, n) BY <2>1
  <2> HIDE DEF Level
  <2>6. \A n \in 0..m + 1 : g[n] = Level(g, n) BY <2>4, <2>5
  <2>7. g = [n \in 0..m + 1 |-> Level(g, n)] BY <2>6
  <2> HIDE DEF g
  <2>8. m + 1 \in Nat /\ \E h : h = [n \in 0..m + 1 |-> Level(h, n)] BY <2>7
  <2> QED BY <2>8
<1>3. S \in SUBSET Nat OBVIOUS
<1> HIDE DEF S
<1>4. MaxNesting \in S BY <1>1, <1>2, <1>3, SetOfAllNumbers
<1>5. \E f : f = [n \in 0..MaxNesting |-> Level(f, n)] BY <1>4 DEF S
<1>6. UnambiguousTo = [n \in 0..MaxNesting |-> Level(UnambiguousTo, n)]
  BY <1>5 DEF UnambiguousTo
<1> QED BY <1>6

-----------------------------------------------------------------------------
(* Types. *)
Kinds == DOMAIN Code
Compounds == {"vector", "map", "pair", "tuple"}

LEMMA KindsAre == Kinds = {"bool", "int", "string", "path", "enum"}
BY DEF Kinds, Code

LEMMA CodesAre ==
    /\ Code["bool"] = "b" /\ Code["int"] = "i" /\ Code["string"] = "s" /\ Code["path"] = "o"
    /\ Code["enum"] = "s"
    /\ \A k \in Kinds : Code[k] \in Codes /\ Code[k] \in {"b", "i", "s", "o"}
<1>1. /\ Code["bool"] = "b" /\ Code["int"] = "i" /\ Code["string"] = "s" /\ Code["path"] = "o"
      /\ Code["enum"] = "s"
  BY DEF Code
<1>2. {"b", "i", "s", "o"} \subseteq Codes BY DEF Codes
<1> QED BY <1>1, <1>2, KindsAre

(* What a type is made of is simpler. *)
LEMMA TypesAre ==
    ASSUME MaxNesting \in Nat, NEW n \in 0..MaxNesting, NEW t \in TypesTo[n]
    PROVE  /\ n - 1 \in 0..MaxNesting
           /\ \/ t.kind \in Kinds /\ t.of = <<>>
              \/ t.kind \in Compounds /\ t.of \in Seq(TypesTo[n - 1]) /\ t.of # <<>>
              \/ /\ t.kind = "variant" /\ t.of \in Seq(TypesTo[n - 1] \cup {Monostate})
                 /\ t.of # <<>>
<1>1. n # 0 /\ t \in TypesOver(TypesTo[n - 1]) BY TypesToIs
<1>2. n - 1 \in 0..MaxNesting BY <1>1
<1>3. CASE t \in Basics BY <1>2, <1>3 DEF Basics, Basic, Kinds
<1>4. CASE t \notin Basics BY <1>1, <1>2, <1>4 DEF TypesOver, Compounds
<1> QED BY <1>3, <1>4

LEMMA TypesAreLegal ==
    ASSUME MaxNesting \in Nat, NEW n \in 0..MaxNesting, NEW t \in TypesTo[n],
           t.kind \notin Kinds
    PROVE  IsLegal(t)
<1>1. n # 0 /\ t \in TypesOver(TypesTo[n - 1]) BY TypesToIs
<1>2. t \notin Basics BY DEF Basics, Basic, Kinds
<1> QED BY <1>1, <1>2 DEF TypesOver

(* Types that are nested less deep are types. *)
LEMMA TypesGrow ==
    ASSUME MaxNesting \in Nat
    PROVE  \A n \in 0..MaxNesting : TypesTo[n] \subseteq Types
<1> DEFINE S == {m \in Nat : m + 1 <= MaxNesting => TypesTo[m] \subseteq TypesTo[m + 1]}
<1>1. 0 \in S BY TypesToIs
<1>2. ASSUME NEW m \in S PROVE m + 1 \in S
  <2> SUFFICES ASSUME (m + 1) + 1 <= MaxNesting
               PROVE  TypesTo[m + 1] \subseteq TypesTo[(m + 1) + 1]
    OBVIOUS
  <2>1. TypesTo[m] \subseteq TypesTo[m + 1] OBVIOUS
  <2>2. TypesOver(TypesTo[m]) \subseteq TypesOver(TypesTo[m + 1])
    <3> HIDE DEF S
    <3> DEFINE A == TypesTo[m]
               B == TypesTo[m + 1]
    <3>1. A \subseteq B BY <2>1
    <3> HIDE DEF A, B
    <3>2. Seq(A) \subseteq Seq(B) BY <3>1
    <3>3. Seq(A \cup {Monostate}) \subseteq Seq(B \cup {Monostate}) BY <3>1
    <3>4. TypesOver(A) \subseteq TypesOver(B) BY <3>2, <3>3 DEF TypesOver
    <3> QED BY <3>4 DEF A, B
  <2>3. m + 1 \in 0..MaxNesting /\ (m + 1) + 1 \in 0..MaxNesting /\ m + 1 # 0
        /\ (m + 1) + 1 # 0 /\ (m + 1) - 1 = m /\ ((m + 1) + 1) - 1 = m + 1
    OBVIOUS
  <2>4. TypesTo[m + 1] = TypesOver(TypesTo[m]) BY <2>3, TypesToIs
  <2>5. TypesTo[(m + 1) + 1] = TypesOver(TypesTo[m + 1])
    <3> HIDE DEF S
    <3> QED BY <2>3, TypesToIs
  <2> QED BY <2>2, <2>4, <2>5
<1>3. \A m \in Nat : m + 1 <= MaxNesting => TypesTo[m] \subseteq TypesTo[m + 1]
  <2>1. S \in SUBSET Nat OBVIOUS
  <2> HIDE DEF S
  <2>2. \A m \in Nat : m \in S BY <1>1, <1>2, <2>1, SetOfAllNumbers
  <2> QED BY <2>2 DEF S
<1> DEFINE R == {d \in Nat : d <= MaxNesting => TypesTo[MaxNesting - d] \subseteq Types}
<1>4. 0 \in R BY DEF Types
<1>5. ASSUME NEW d \in R PROVE d + 1 \in R
  <2> SUFFICES ASSUME d + 1 <= MaxNesting
               PROVE  TypesTo[MaxNesting - (d + 1)] \subseteq Types
    OBVIOUS
  <2>1. TypesTo[MaxNesting - d] \subseteq Types OBVIOUS
  <2>2. MaxNesting - (d + 1) \in Nat /\ (MaxNesting - (d + 1)) + 1 = MaxNesting - d
    OBVIOUS
  <2>3. MaxNesting - d <= MaxNesting OBVIOUS
  <2>4. TypesTo[MaxNesting - (d + 1)] \subseteq TypesTo[MaxNesting - d]
    <3> HIDE DEF R, S
    <3> QED BY <1>3, <2>2, <2>3
  <2> QED BY <2>1, <2>4
<1>6. \A d \in Nat : d \in R
  <2>1. R \in SUBSET Nat OBVIOUS
  <2> HIDE DEF R
  <2> QED BY <1>4, <1>5, <2>1, SetOfAllNumbers
<1>7. ASSUME NEW n \in 0..MaxNesting PROVE TypesTo[n] \subseteq Types
  <2>1. MaxNesting - n \in Nat /\ MaxNesting - (MaxNesting - n) = n
        /\ MaxNesting - n <= MaxNesting
    OBVIOUS
  <2>2. MaxNesting - n \in R BY <1>6, <2>1
  <2> QED BY <2>1, <2>2
<1> QED BY <1>7

-----------------------------------------------------------------------------
(* Signatures. *)

LEMMA SignaturesAreStrings ==
    ASSUME MaxNesting \in Nat
    PROVE  \A n \in 0..MaxNesting : n # 0 =>
            \A t \in TypesTo[n] \cup {Monostate} : SignatureTo[n][t] \in Seq(Codes)
<1> DEFINE Good(n) == \A t \in TypesTo[n] \cup {Monostate} : SignatureTo[n][t] \in Seq(Codes)
           S == {m \in Nat : m <= MaxNesting /\ m # 0 => Good(m)}
<1>1. 0 \in S OBVIOUS
<1>2. ASSUME NEW m \in S PROVE m + 1 \in S
  <2> SUFFICES ASSUME m + 1 <= MaxNesting, NEW t \in TypesTo[m + 1] \cup {Monostate}
               PROVE  SignatureTo[m + 1][t] \in Seq(Codes)
    OBVIOUS
  <2>1. m # 0 => Good(m) OBVIOUS
  <2>2. m + 1 \in 0..MaxNesting /\ m + 1 # 0 /\ (m + 1) - 1 = m OBVIOUS
  <2> HIDE DEF S, Good
  <2> DEFINE s == [k \in DOMAIN t.of |-> SignatureTo[m][t.of[k]]]
             inner == FlattenSeq(s)
  <2>3. t.kind \in Compounds => inner \in Seq(Codes)
    <3> SUFFICES ASSUME t.kind \in Compounds PROVE inner \in Seq(Codes) OBVIOUS
    <3>1. t \in TypesTo[m + 1] BY DEF Monostate, Basic, Compounds
    <3>2. t.of \in Seq(TypesTo[m]) /\ t.of # <<>>
      BY <2>2, <3>1, TypesAre, KindsAre DEF Compounds
    <3>3. m # 0 /\ Len(t.of) \in Nat \ {0} /\ DOMAIN t.of = 1..Len(t.of)
      <4>1. \E x : x \in TypesTo[m] BY <3>2
      <4>2. m = 0 => TypesTo[m] = {} BY TypesToIs
      <4> QED BY <3>2, <4>1, <4>2
    <3>4. \A k \in DOMAIN t.of : SignatureTo[m][t.of[k]] \in Seq(Codes)
      BY <2>1, <3>2, <3>3 DEF Good
    <3>5. s \in [1..Len(t.of) -> Seq(Codes)] BY <3>3, <3>4
    <3>6. s \in Seq(Seq(Codes)) /\ Len(s) = Len(t.of)
      <4> DEFINE l == Len(t.of)
      <4>1. l \in Nat /\ s \in [1..l -> Seq(Codes)] BY <3>3, <3>5
      <4> HIDE DEF l, s
      <4>2. s \in Seq(Seq(Codes)) /\ Len(s) = l BY <4>1
      <4> QED BY <4>2 DEF l
    <3>7. s # <<>> BY <3>3, <3>6, EmptySeq
    <3> HIDE DEF s
    <3> QED BY <3>6, <3>7, FlattenPlaces
  <2>4. SignatureTo[m + 1][t] =
        CASE t.kind \in DOMAIN Code -> <<Code[t.kind]>>
          [] t.kind = "monostate" -> <<>>
          [] t.kind = "variant" -> <<"v">>
          [] t.kind \in {"vector", "map"} -> <<"a">> \o inner
          [] t.kind = "pair" -> <<"{">> \o inner \o <<"}">>
          [] t.kind = "tuple" -> <<"(">> \o inner \o <<")">>
    <3>1. SignatureTo[m + 1] = SignatureOver(m + 1, SignatureTo[m]) BY <2>2, SignatureToIs
    <3> QED BY <3>1 DEF SignatureOver
  <2> HIDE DEF inner
  <2>5. t.kind \in Kinds \cup Compounds \cup {"variant", "monostate"}
    <3>1. CASE t \in TypesTo[m + 1] BY <2>2, <3>1, TypesAre
    <3>2. CASE t \notin TypesTo[m + 1] BY <3>2 DEF Monostate, Basic
    <3> QED BY <3>1, <3>2
  <2>6. \A k \in Kinds : <<Code[k]>> \in Seq(Codes) 
    <3>1. \A k \in Kinds : Code[k] \in Codes BY CodesAre
    <3> QED BY <3>1
  <2>7. CASE t.kind \in Kinds
    <3>1. t.kind \in DOMAIN Code BY <2>7 DEF Kinds
    <3>2. SignatureTo[m + 1][t] = <<Code[t.kind]>> BY <2>4, <2>7, <3>1, KindsAre
    <3> QED BY <2>6, <2>7, <3>2
  <2>8. CASE t.kind = "monostate" BY <2>4, <2>8, KindsAre DEF Kinds
  <2>9. CASE t.kind = "variant"
    <3>1. "v" \in Codes BY DEF Codes
    <3>2. SignatureTo[m + 1][t] = <<"v">> BY <2>4, <2>9, KindsAre DEF Kinds
    <3> QED BY <3>1, <3>2
  <2>10. CASE t.kind \in Compounds
    <3>1. inner \in Seq(Codes) BY <2>3, <2>10
    <3>2. /\ <<"a">> \in Seq(Codes) /\ <<"{">> \in Seq(Codes) /\ <<"}">> \in Seq(Codes)
          /\ <<"(">> \in Seq(Codes) /\ <<")">> \in Seq(Codes)
      BY DEF Codes
    <3>3. /\ <<"a">> \o inner \in Seq(Codes)
          /\ <<"{">> \o inner \o <<"}">> \in Seq(Codes)
          /\ <<"(">> \o inner \o <<")">> \in Seq(Codes)
      BY <3>1, <3>2, Concatenated
    <3> QED BY <2>4, <2>10, <3>3, KindsAre DEF Kinds, Compounds
  <2> QED BY <2>5, <2>7, <2>8, <2>9, <2>10
<1>3. S \in SUBSET Nat OBVIOUS
<1> HIDE DEF S
<1>4. \A m \in Nat : m \in S BY <1>1, <1>2, <1>3, SetOfAllNumbers
<1> QED BY <1>4 DEF S

LEMMA OfOne ==
    ASSUME NEW x
    PROVE  <<x>> # <<>> /\ Len(<<x>>) = 1 /\ <<x>>[1] = x
OBVIOUS

Starts(signature, first) ==
    signature \in Seq(Codes) /\ signature # <<>> /\ signature[1] = first

LEMMA StartsWith ==
    /\ \A first \in Codes, s \in Seq(Codes) : Starts(<<first>> \o s, first)
    /\ \A first, r, s : Starts(r, first) /\ s \in Seq(Codes) => Starts(r \o s, first)
<1>1. ASSUME NEW first, NEW r, NEW s \in Seq(Codes), Starts(r, first)
      PROVE  Starts(r \o s, first)
  <2> DEFINE l == Len(r)
             m == Len(s)
  <2>1. r \in Seq(Codes) /\ r # <<>> /\ r[1] = first BY <1>1 DEF Starts
  <2>2. r \o s \in Seq(Codes) /\ Len(r \o s) = l + m /\ l \in Nat /\ m \in Nat
        /\ \A k \in 1..l : (r \o s)[k] = r[k]
    BY <2>1, Concatenated
  <2>3. l # 0 BY <2>1, EmptySeq
  <2> HIDE DEF l, m
  <2>4. 1 \in 1..l /\ l + m # 0 BY <2>2, <2>3
  <2>5. r \o s # <<>> BY <2>2, <2>4, EmptySeq
  <2> QED BY <2>1, <2>2, <2>4, <2>5 DEF Starts
<1>2. ASSUME NEW first \in Codes PROVE Starts(<<first>>, first)
  BY DEF Starts
<1> QED BY <1>1, <1>2

(* A signature is not empty, and is that of a string for what is read as one. *)
LEMMA SignatureIs ==
    ASSUME MaxNesting \in Nat, NEW n \in 0..MaxNesting, NEW t \in TypesTo[n]
    PROVE  /\ Signature[t] \in Seq(Codes) /\ Signature[t] # <<>>
           /\ Signature[Monostate] = <<>>
           /\ t.kind \in {"string", "enum"} <=> Signature[t] = <<"s">>
<1>1. MaxNesting # 0 /\ t \in Types
  <2>1. t \in Types BY TypesGrow
  <2>2. 0 \in 0..MaxNesting /\ TypesTo[0] = {} BY TypesToIs
  <2> QED BY <2>1, <2>2 DEF Types
<1> DEFINE s == [k \in DOMAIN t.of |-> SignatureTo[MaxNesting - 1][t.of[k]]]
           inner == FlattenSeq(s)
<1>2. \A x \in Types \cup {Monostate} : Signature[x] \in Seq(Codes)
  BY <1>1, SignaturesAreStrings DEF Types, Signature
<1>3. Signature = SignatureOver(MaxNesting, SignatureTo[MaxNesting - 1])
  BY <1>1, SignatureToIs DEF Signature
<1>4. Signature[Monostate] = <<>>
  BY <1>3, KindsAre DEF SignatureOver, Monostate, Basic, Kinds
<1>5. /\ Signature[t] =
        CASE t.kind \in DOMAIN Code -> <<Code[t.kind]>>
          [] t.kind = "monostate" -> <<>>
          [] t.kind = "variant" -> <<"v">>
          [] t.kind \in {"vector", "map"} -> <<"a">> \o inner
          [] t.kind = "pair" -> <<"{">> \o inner \o <<"}">>
          [] t.kind = "tuple" -> <<"(">> \o inner \o <<")">>
  BY <1>1, <1>3 DEF SignatureOver, Types
<1> HIDE DEF inner
<1>6. CASE t.kind \in Kinds
  <2>1. Signature[t] = <<Code[t.kind]>> BY <1>5, <1>6, KindsAre DEF Kinds
  <2>2. Code[t.kind] = "s" <=> t.kind \in {"string", "enum"} BY <1>6, KindsAre, CodesAre
  <2>3. <<Code[t.kind]>> = <<"s">> <=> Code[t.kind] = "s" OBVIOUS
  <2>4. Signature[t] # <<>> BY <2>1, OfOne
  <2>5. t.kind \in {"string", "enum"} <=> Signature[t] = <<"s">> BY <2>1, <2>2, <2>3
  <2>6. Signature[t] \in Seq(Codes) BY <1>1, <1>2
  <2> QED BY ONLY <1>4, <2>4, <2>5, <2>6
<1>7. CASE t.kind = "variant"
  <2>1. Signature[t] = <<"v">> BY <1>5, <1>7, KindsAre DEF Kinds
  <2>2. <<"v">> # <<"s">> OBVIOUS
  <2>3. Signature[t] # <<>> BY <2>1, OfOne
  <2>4. Signature[t] \in Seq(Codes) BY <1>1, <1>2
  <2>5. t.kind \notin {"string", "enum"} /\ Signature[t] # <<"s">> BY <1>7, <2>1, <2>2
  <2> QED BY ONLY <1>4, <2>3, <2>4, <2>5
<1>8. CASE t.kind \in Compounds
  <2>1. t.of \in Seq(TypesTo[n - 1]) /\ t.of # <<>> /\ n - 1 \in 0..MaxNesting
    BY <1>8, TypesAre, KindsAre DEF Compounds
  <2>2. inner \in Seq(Codes)
    <3>1. t.of \in Seq(TypesTo[MaxNesting - 1])
      <4>1. t \in TypesTo[MaxNesting] /\ MaxNesting \in 0..MaxNesting BY <1>1 DEF Types
      <4> QED BY <1>8, <4>1, TypesAre, KindsAre DEF Compounds
    <3>2. MaxNesting - 1 # 0 /\ Len(t.of) \in Nat \ {0} /\ DOMAIN t.of = 1..Len(t.of)
      <4>1. \E x : x \in TypesTo[MaxNesting - 1] BY <2>1, <3>1
      <4>2. 0 \in 0..MaxNesting /\ TypesTo[0] = {} BY TypesToIs
      <4> QED BY <2>1, <4>1, <4>2
    <3>3. \A k \in DOMAIN t.of : SignatureTo[MaxNesting - 1][t.of[k]] \in Seq(Codes)
      BY <1>1, <3>1, <3>2, SignaturesAreStrings
    <3>4. s \in [1..Len(t.of) -> Seq(Codes)] BY <3>2, <3>3
    <3>5. s \in Seq(Seq(Codes)) /\ Len(s) = Len(t.of)
      <4> DEFINE l == Len(t.of)
      <4>1. l \in Nat /\ s \in [1..l -> Seq(Codes)] BY <3>2, <3>4
      <4> HIDE DEF l, s
      <4>2. s \in Seq(Seq(Codes)) /\ Len(s) = l BY <4>1
      <4> QED BY <4>2 DEF l
    <3>6. s # <<>> BY <3>2, <3>5, EmptySeq
    <3> HIDE DEF s
    <3> QED BY <3>5, <3>6, FlattenPlaces DEF inner
  <2>3. \E first \in {"a", "{", "("} : Starts(Signature[t], first)
    <3>1. <<"}">> \in Seq(Codes) /\ <<")">> \in Seq(Codes) BY DEF Codes
    <3>2. \A first \in {"a", "{", "("} : Starts(<<first>> \o inner, first)
      <4>1. {"a", "{", "("} \subseteq Codes BY DEF Codes
      <4> QED BY <2>2, <4>1, StartsWith
    <3>3. CASE t.kind \in {"vector", "map"}
      <4>1. Signature[t] = <<"a">> \o inner BY <1>5, <3>3, KindsAre DEF Kinds
      <4> QED BY <2>2, <3>2, <4>1
    <3>4. CASE t.kind = "pair"
      <4>1. Signature[t] = (<<"{">> \o inner) \o <<"}">>
        BY <1>5, <3>4, KindsAre DEF Kinds
      <4>2. Starts(<<"{">> \o inner, "{") BY <3>2
      <4> DEFINE opened == <<"{">> \o inner
                 closing == <<"}">>
      <4>3. Starts(opened, "{") /\ closing \in Seq(Codes) BY <3>1, <4>2
      <4>4. Signature[t] = opened \o closing BY <4>1
      <4> HIDE DEF opened, closing
      <4>5. Starts(opened \o closing, "{") BY <4>3, StartsWith
      <4> QED BY <4>4, <4>5
    <3>5. CASE t.kind = "tuple"
      <4>1. Signature[t] = (<<"(">> \o inner) \o <<")">>
        BY <1>5, <3>5, KindsAre DEF Kinds
      <4>2. Starts(<<"(">> \o inner, "(") BY <3>2
      <4> DEFINE opened == <<"(">> \o inner
                 closing == <<")">>
      <4>3. Starts(opened, "(") /\ closing \in Seq(Codes) BY <3>1, <4>2
      <4>4. Signature[t] = opened \o closing BY <4>1
      <4> HIDE DEF opened, closing
      <4>5. Starts(opened \o closing, "(") BY <4>3, StartsWith
      <4> QED BY <4>4, <4>5
    <3> QED BY <1>8, <3>3, <3>4, <3>5 DEF Compounds
  <2>4. Signature[t] # <<>> /\ Signature[t] # <<"s">>
    <3>1. <<"s">>[1] = "s" OBVIOUS
    <3> QED BY <2>3, <3>1, EmptySeq DEF Starts
  <2> QED BY <1>1, <1>2, <1>4, <1>8, <2>4 DEF Compounds
<1> QED BY <1>6, <1>7, <1>8, TypesAre

-----------------------------------------------------------------------------
(* What is appended for a value, and what reads it. *)

LEMMA AppendIs ==
    ASSUME MaxNesting \in Nat, NEW n \in 0..MaxNesting, NEW t \in TypesTo[n],
           NEW v \in ValuesTo[n]
    PROVE  /\ t.kind \in Kinds => AppendTo[n][t][v] = AppendBasic(t, v)
           /\ t.kind \in {"vector", "map"} =>
                AppendTo[n][t][v] = AppendArray(AppendTo[n - 1], t, v)
           /\ t.kind \in {"pair", "tuple"} =>
                AppendTo[n][t][v] = AppendTuple(AppendTo[n - 1], t, v)
           /\ t.kind = "variant" => AppendTo[n][t][v] = AppendVariant(AppendTo[n - 1], t, v)
<1>1. n # 0 BY TypesToIs
<1>2. AppendTo[n] = AppendOver(n, AppendTo[n - 1]) BY <1>1, AppendToIs
<1>3. AppendTo[n][t][v] =
        CASE t.kind \in DOMAIN Code -> AppendBasic(t, v)
          [] t.kind \in {"vector", "map"} -> AppendArray(AppendTo[n - 1], t, v)
          [] t.kind \in {"pair", "tuple"} -> AppendTuple(AppendTo[n - 1], t, v)
          [] t.kind = "variant" -> AppendVariant(AppendTo[n - 1], t, v)
  <2> DEFINE Body(x, y) ==
        CASE x.kind \in DOMAIN Code -> AppendBasic(x, y)
          [] x.kind \in {"vector", "map"} -> AppendArray(AppendTo[n - 1], x, y)
          [] x.kind \in {"pair", "tuple"} -> AppendTuple(AppendTo[n - 1], x, y)
          [] x.kind = "variant" -> AppendVariant(AppendTo[n - 1], x, y)
  <2>1. AppendTo[n] = [x \in TypesTo[n] |-> [y \in ValuesTo[n] |-> Body(x, y)]]
    BY <1>2 DEF AppendOver
  <2> HIDE DEF Body
  <2>2. AppendTo[n][t][v] = Body(t, v) BY <2>1
  <2> QED BY <2>2 DEF Body
<1> QED BY <1>3, KindsAre DEF Kinds

LEMMA ReadIs ==
    ASSUME MaxNesting \in Nat, NEW n \in 0..MaxNesting, NEW t \in TypesTo[n],
           NEW ws \in Seq(ElementsTo[n])
    PROVE  /\ t.kind \in Kinds => ReadTo[n][t][ws] = ReadBasic(t, ws)
           /\ t.kind \in {"vector", "map"} =>
                ReadTo[n][t][ws] = ReadArray(ReadTo[n - 1], t, ws)
           /\ t.kind \in {"pair", "tuple"} =>
                ReadTo[n][t][ws] = ReadTuple(ReadTo[n - 1], t, ws)
           /\ t.kind = "variant" =>
                ReadTo[n][t][ws] = ReadVariant(ReadTo[n - 1], ConvertTo[n][t], t, ws)
<1>1. n # 0 BY TypesToIs
<1>2. ReadTo[n] = ReadOver(n, ReadTo[n - 1]) BY <1>1, ReadToIs
<1>3. ReadTo[n][t][ws] =
        CASE t.kind \in DOMAIN Code -> ReadBasic(t, ws)
          [] t.kind = "monostate" -> Got(Default[t], ws, FALSE)
          [] t.kind \in {"vector", "map"} -> ReadArray(ReadTo[n - 1], t, ws)
          [] t.kind \in {"pair", "tuple"} -> ReadTuple(ReadTo[n - 1], t, ws)
          [] t.kind = "variant" -> ReadVariant(ReadTo[n - 1], ConvertTo[n][t], t, ws)
  <2> DEFINE Body(x, ys) ==
        CASE x.kind \in DOMAIN Code -> ReadBasic(x, ys)
          [] x.kind = "monostate" -> Got(Default[x], ys, FALSE)
          [] x.kind \in {"vector", "map"} -> ReadArray(ReadTo[n - 1], x, ys)
          [] x.kind \in {"pair", "tuple"} -> ReadTuple(ReadTo[n - 1], x, ys)
          [] x.kind = "variant" -> ReadVariant(ReadTo[n - 1], ConvertTo[n][x], x, ys)
  <2>1. ReadTo[n] = [x \in TypesTo[n] \cup {Monostate} |->
                        [ys \in Seq(ElementsTo[n]) |-> Body(x, ys)]]
    BY <1>2 DEF ReadOver
  <2> HIDE DEF Body
  <2>2. ReadTo[n][t][ws] = Body(t, ws) BY <2>1
  <2> QED BY <2>2 DEF Body
<1> QED BY <1>3, KindsAre DEF Kinds

(* The values that are sent. *)
LEMMA ValuesOfAre ==
    ASSUME MaxNesting \in Nat, VectorLengths \cup MapLengths \subseteq Nat,
           NEW n \in 0..MaxNesting, NEW t \in TypesTo[n], NEW v \in ValuesOfTo[n][t]
    PROVE  /\ t.kind \in Kinds => v = Datum(v.data) /\ v.data \in Data[t.kind]
           /\ t.kind \in {"vector", "map"} =>
                /\ v = Compound(v.parts) /\ v.parts \in Seq(ValuesOfTo[n - 1][t.of[1]])
                /\ t.kind = "map" =>
                    \A k, l \in DOMAIN v.parts :
                        v.parts[k].parts[1] = v.parts[l].parts[1] => k = l
           /\ t.kind \in {"pair", "tuple"} =>
                /\ v = Compound(v.parts) /\ DOMAIN v.parts = DOMAIN t.of
                /\ v.parts = [k \in DOMAIN t.of |-> v.parts[k]]
                /\ \A k \in DOMAIN t.of : v.parts[k] \in ValuesOfTo[n - 1][t.of[k]]
           /\ t.kind = "variant" =>
                /\ v = Alternative(v.alt, v.parts[1]) /\ v.alt \in DOMAIN t.of
                /\ v.parts[1] \in ValuesOfTo[n - 1][t.of[v.alt]]
<1>1. n # 0 BY TypesToIs
<1> DEFINE Of(k) == ValuesOfTo[n - 1][t.of[k]]
<1>2. ValuesOfTo[n] = ValuesOfOver(n, ValuesOfTo[n - 1]) BY <1>1, ValuesOfToIs
<1>3. ValuesOfTo[n][t] =
        CASE t.kind \in DOMAIN Code -> {Datum(data) : data \in Data[t.kind]}
          [] t.kind = "monostate" -> {}
          [] t.kind = "vector" -> {Compound(parts) : parts \in Arrays(Of(1), VectorLengths)}
          [] t.kind = "map" ->
                {Compound(parts) : parts \in
                    {entries \in Arrays(Of(1), MapLengths) :
                        \A k, l \in DOMAIN entries :
                            entries[k].parts[1] = entries[l].parts[1] => k = l}}
          [] t.kind \in {"pair", "tuple"} ->
                {Compound(parts) : parts \in
                    {values \in [DOMAIN t.of -> UNION {Of(k) : k \in DOMAIN t.of}] :
                        \A k \in DOMAIN t.of : values[k] \in Of(k)}}
          [] t.kind = "variant" ->
                UNION {{Alternative(k, w) : w \in Of(k)} : k \in DOMAIN t.of}
  BY <1>2 DEF ValuesOfOver
<1> HIDE DEF Of
<1>4. CASE t.kind \in Kinds
  <2>1. v \in {Datum(data) : data \in Data[t.kind]}
    BY <1>3, <1>4, KindsAre DEF Kinds
  <2> QED BY <1>4, <2>1, KindsAre DEF Datum
<1>5. \A lengths, parts : lengths \subseteq Nat /\ parts \in Arrays(Of(1), lengths) =>
        parts \in Seq(Of(1))
  BY DEF Arrays
<1>6. \A parts : Compound(parts).parts = parts BY DEF Compound
<1>7. CASE t.kind = "vector"
  <2>1. v \in {Compound(parts) : parts \in Arrays(Of(1), VectorLengths)}
    BY <1>3, <1>7, KindsAre DEF Kinds
  <2>2. PICK parts \in Arrays(Of(1), VectorLengths) : v = Compound(parts) BY <2>1
  <2>3. VectorLengths \subseteq Nat OBVIOUS
  <2>4. v.parts = parts /\ parts \in Seq(Of(1)) BY <1>5, <1>6, <2>2, <2>3
  <2> QED BY <1>7, <2>2, <2>4, KindsAre DEF Of
<1>8. CASE t.kind = "map"
  <2>1. v \in {Compound(parts) : parts \in
                {entries \in Arrays(Of(1), MapLengths) :
                    \A k, l \in DOMAIN entries :
                        entries[k].parts[1] = entries[l].parts[1] => k = l}}
    BY <1>3, <1>8, KindsAre DEF Kinds
  <2>2. PICK parts \in Arrays(Of(1), MapLengths) :
            /\ v = Compound(parts)
            /\ \A k, l \in DOMAIN parts : parts[k].parts[1] = parts[l].parts[1] => k = l
    BY <2>1
  <2>3. MapLengths \subseteq Nat OBVIOUS
  <2>4. v.parts = parts /\ parts \in Seq(Of(1)) BY <1>5, <1>6, <2>2, <2>3
  <2> QED BY <1>8, <2>2, <2>4, KindsAre DEF Of
<1>9. CASE t.kind \in {"pair", "tuple"}
  <2>1. v \in {Compound(parts) : parts \in
                {values \in [DOMAIN t.of -> UNION {Of(k) : k \in DOMAIN t.of}] :
                    \A k \in DOMAIN t.of : values[k] \in Of(k)}}
    BY <1>3, <1>9, KindsAre DEF Kinds
  <2>2. PICK parts \in [DOMAIN t.of -> UNION {Of(k) : k \in DOMAIN t.of}] :
            v = Compound(parts) /\ \A k \in DOMAIN t.of : parts[k] \in Of(k)
    BY <2>1
  <2>3. v.parts = parts BY <1>6, <2>2
  <2>4. DOMAIN parts = DOMAIN t.of /\ parts = [k \in DOMAIN t.of |-> parts[k]] OBVIOUS
  <2> QED BY <1>9, <2>2, <2>3, <2>4, KindsAre DEF Of
<1>10. CASE t.kind = "variant"
  <2>1. v \in UNION {{Alternative(k, w) : w \in Of(k)} : k \in DOMAIN t.of}
    BY <1>3, <1>10, KindsAre DEF Kinds
  <2>2. PICK k \in DOMAIN t.of : \E w \in Of(k) : v = Alternative(k, w) BY <2>1
  <2>3. PICK w \in Of(k) : v = Alternative(k, w) BY <2>2
  <2>4. v.alt = k /\ v.parts[1] = w BY <2>3 DEF Alternative
  <2> QED BY <1>10, <2>3, <2>4, KindsAre DEF Of
<1> QED BY <1>4, <1>7, <1>8, <1>9, <1>10, TypesAre, KindsAre DEF Compounds

LEMMA NoValueOfMonostate ==
    ASSUME MaxNesting \in Nat, NEW n \in 0..MaxNesting
    PROVE  ValuesOfTo[n][Monostate] = {}
<1>1. CASE n = 0 BY <1>1, ValuesOfToIs
<1>2. CASE n # 0
  <2>1. ValuesOfTo[n] = ValuesOfOver(n, ValuesOfTo[n - 1]) BY <1>2, ValuesOfToIs
  <2>2. Monostate.kind = "monostate" /\ "monostate" \notin DOMAIN Code
    BY KindsAre DEF Monostate, Basic, Kinds
  <2> QED BY <2>1, <2>2 DEF ValuesOfOver
<1> QED BY <1>1, <1>2

LEMMA ListOf ==
    ASSUME NEW T, NEW l \in Nat, NEW f, f = [k \in 1..l |-> f[k]], \A k \in 1..l : f[k] \in T
    PROVE  f \in Seq(T) /\ Len(f) = l /\ DOMAIN f = 1..l
<1>1. f \in [1..l -> T] OBVIOUS
<1> QED BY <1>1

LEMMA ListIs ==
    ASSUME NEW T, NEW f \in Seq(T)
    PROVE  /\ Len(f) \in Nat /\ DOMAIN f = 1..Len(f) /\ f = [k \in 1..Len(f) |-> f[k]]
           /\ \A k \in 1..Len(f) : f[k] \in T
           /\ f # <<>> => Len(f) # 0 /\ 1 \in 1..Len(f)
<1>1. Len(f) \in Nat /\ DOMAIN f = 1..Len(f) /\ f \in [1..Len(f) -> T]
  BY LenProperties
<1>2. f # <<>> => Len(f) # 0 BY EmptySeq
<1> DEFINE l == Len(f)
<1>3. l \in Nat /\ l # 0 => 1 \in 1..l OBVIOUS
<1> HIDE DEF l
<1>4. f = [k \in 1..Len(f) |-> f[k]] /\ \A k \in 1..Len(f) : f[k] \in T
  BY <1>1
<1> QED BY <1>1, <1>2, <1>3, <1>4 DEF l

LEMMA DataAre ==
    /\ \A k \in Kinds : Data[k] \subseteq Texts
    /\ Data["enum"] = {"E.B"}
<1>1. /\ Data["bool"] = {"true"} /\ Data["int"] = {"1"} /\ Data["string"] = Strings
      /\ Data["path"] = {} /\ Data["enum"] = {"E.B"}
  BY DEF Data
<1>2. {"true", "1", "E.B"} \cup Strings \subseteq Texts BY DEF Texts
<1> QED BY <1>1, <1>2, KindsAre

(* What the parts of a type are. *)
LEMMA PartsAre ==
    ASSUME MaxNesting \in Nat, NEW n \in 0..MaxNesting, NEW t \in TypesTo[n],
           t.kind \in Compounds
    PROVE  /\ Len(t.of) \in Nat /\ DOMAIN t.of = 1..Len(t.of) /\ 1 \in DOMAIN t.of
           /\ \A k \in DOMAIN t.of : t.of[k] \in TypesTo[n - 1]
<1>1. t.of \in Seq(TypesTo[n - 1]) /\ t.of # <<>>
  BY TypesAre, KindsAre DEF Compounds
<1> QED BY <1>1, ListIs

LEMMA AlternativeIs ==
    ASSUME MaxNesting \in Nat, VectorLengths \cup MapLengths \subseteq Nat,
           NEW n \in 0..MaxNesting, NEW t \in TypesTo[n], t.kind = "variant",
           NEW v \in ValuesOfTo[n][t]
    PROVE  /\ t.of[v.alt] \in TypesTo[n - 1] /\ v.alt \in DOMAIN t.of
           /\ v.parts[1] \in ValuesOfTo[n - 1][t.of[v.alt]]
<1>1. t.of \in Seq(TypesTo[n - 1] \cup {Monostate}) /\ n - 1 \in 0..MaxNesting
  BY TypesAre, KindsAre DEF Compounds
<1>2. v.alt \in DOMAIN t.of /\ v.parts[1] \in ValuesOfTo[n - 1][t.of[v.alt]]
  BY ValuesOfAre
<1>3. t.of[v.alt] \in TypesTo[n - 1] \cup {Monostate} BY <1>1, <1>2, ListIs
<1>4. t.of[v.alt] # Monostate BY <1>1, <1>2, NoValueOfMonostate
<1> QED BY <1>2, <1>3, <1>4

Sound(n) ==
    \A t \in TypesTo[n] : \A v \in ValuesOfTo[n][t] :
        v \in ValuesTo[n] /\ AppendTo[n][t][v] \in ElementsTo[n]

LEMMA SoundStep ==
    ASSUME MaxNesting \in Nat, VectorLengths \cup MapLengths \subseteq Nat,
           NEW n \in 0..MaxNesting, n # 0, Sound(n - 1)
    PROVE  Sound(n)
<1> SUFFICES ASSUME NEW t \in TypesTo[n], NEW v \in ValuesOfTo[n][t]
             PROVE  v \in ValuesTo[n] /\ AppendTo[n][t][v] \in ElementsTo[n]
  BY DEF Sound
<1> DEFINE V == ValuesTo[n - 1]
           E == ElementsTo[n - 1]
           single == AppendTo[n - 1]
<1>1. n - 1 \in 0..MaxNesting OBVIOUS
<1>2. \A s \in TypesTo[n - 1] : \A w \in ValuesOfTo[n - 1][s] : w \in V /\ single[s][w] \in E
  BY DEF Sound
<1>3. ValuesTo[n] = ValuesOver(V) /\ ElementsTo[n] = ElementsOver(E)
  BY ValuesToIs, ElementsToIs
<1>4. \A data \in Texts : Datum(data) \in ValuesTo[n]
  BY <1>3 DEF ValuesOver, Datum
<1>5. \A parts \in Seq(V) : Compound(parts) \in ValuesTo[n]
  BY <1>3 DEF ValuesOver, Compound, Texts
<1>6. ASSUME NEW code \in {"a", "e", "r", "v"}, NEW contents \in Seq(Codes),
             NEW parts \in Seq(E)
      PROVE  Container(code, contents, parts) \in ElementsTo[n]
  <2>1. code \in Codes /\ "" \in Texts BY DEF Codes, Texts
  <2> QED BY <1>3, <2>1 DEF ElementsOver, Container
<1>7. CASE t.kind \in Kinds
  <2>1. v = Datum(v.data) /\ v.data \in Texts BY <1>7, ValuesOfAre, DataAre
  <2>2. v \in ValuesTo[n] BY <1>4, <2>1
  <2>3. AppendTo[n][t][v] = AppendBasic(t, v) BY <1>7, <2>2, AppendIs
  <2>4. Code[t.kind] \in Codes BY <1>7, CodesAre
  <2>5. AppendBasic(t, v) \in ElementsTo[n]
    BY <1>3, <2>1, <2>4 DEF ElementsOver, AppendBasic
  <2> QED BY <2>2, <2>3, <2>5
<1>8. CASE t.kind \in {"vector", "map"}
  <2> DEFINE s == t.of[1]
             l == Len(v.parts)
  <2>1. s \in TypesTo[n - 1] BY <1>8, PartsAre DEF Compounds
  <2>2. v = Compound(v.parts) /\ v.parts \in Seq(ValuesOfTo[n - 1][s])
    BY <1>8, ValuesOfAre
  <2>3. l \in Nat /\ DOMAIN v.parts = 1..l /\ v.parts = [k \in 1..l |-> v.parts[k]]
        /\ \A k \in 1..l : v.parts[k] \in ValuesOfTo[n - 1][s]
    BY <2>2, ListIs
  <2> HIDE DEF s, l, V, E, single
  <2>4. \A k \in 1..l : v.parts[k] \in V /\ single[s][v.parts[k]] \in E BY <1>2, <2>1, <2>3
  <2>5. v \in ValuesTo[n]
    <3>1. v.parts \in Seq(V) BY <2>3, <2>4, ListOf
    <3> QED BY <1>5, <2>2, <3>1
  <2>6. AppendTo[n][t][v] = AppendArray(single, t, v) BY <1>8, <2>5, AppendIs DEF single
  <2> DEFINE parts == [k \in DOMAIN v.parts |-> single[s][v.parts[k]]]
  <2>7. parts \in Seq(E)
    <3>1. parts \in [1..l -> E] BY <2>3, <2>4
    <3> QED BY <2>3, <3>1
  <2>8. Signature[s] \in Seq(Codes) BY <1>1, <2>1, SignatureIs
  <2>9. AppendArray(single, t, v) = Container("a", Signature[s], parts)
    BY DEF AppendArray, s
  <2> HIDE DEF parts
  <2> QED BY <1>6, <2>5, <2>6, <2>7, <2>8, <2>9
<1>9. CASE t.kind \in {"pair", "tuple"}
  <2> DEFINE l == Len(t.of)
  <2>1. l \in Nat /\ DOMAIN t.of = 1..l /\ 1 \in 1..l
        /\ \A k \in 1..l : t.of[k] \in TypesTo[n - 1]
    BY <1>9, PartsAre DEF Compounds
  <2> HIDE DEF l
  <2>2. v = Compound(v.parts) /\ v.parts = [k \in 1..l |-> v.parts[k]]
        /\ \A k \in 1..l : v.parts[k] \in ValuesOfTo[n - 1][t.of[k]]
    BY <1>9, <2>1, ValuesOfAre
  <2> HIDE DEF V, E, single
  <2>3. \A k \in 1..l : v.parts[k] \in V /\ single[t.of[k]][v.parts[k]] \in E
    BY <1>2, <2>1, <2>2
  <2>4. v \in ValuesTo[n]
    <3>1. v.parts \in Seq(V) BY <2>1, <2>2, <2>3, ListOf
    <3> QED BY <1>5, <2>2, <3>1
  <2>5. AppendTo[n][t][v] = AppendTuple(single, t, v) BY <1>9, <2>4, AppendIs DEF single
  <2> DEFINE parts == [k \in DOMAIN t.of |-> single[t.of[k]][v.parts[k]]]
  <2>6. parts \in Seq(E)
    <3>1. parts \in [1..l -> E] BY <2>1, <2>3
    <3> QED BY <2>1, <3>1
  <2>7. Signatures(t.of) \in Seq(Codes)
    <3> DEFINE s == [k \in DOMAIN t.of |-> Signature[t.of[k]]]
    <3>1. \A k \in 1..l : Signature[t.of[k]] \in Seq(Codes) BY <1>1, <2>1, SignatureIs
    <3>2. s \in [1..l -> Seq(Codes)] BY <2>1, <3>1
    <3>3. s \in Seq(Seq(Codes)) BY <2>1, <3>2
    <3>4. s # <<>> BY <2>1
    <3> HIDE DEF s
    <3>5. FlattenSeq(s) \in Seq(Codes) BY <3>3, <3>4, FlattenPlaces
    <3> QED BY <3>5 DEF Signatures, s
  <2>8. AppendTuple(single, t, v) = Container(TupleType(t), Signatures(t.of), parts)
        /\ TupleType(t) \in {"e", "r"}
    BY DEF AppendTuple, TupleType
  <2> HIDE DEF parts
  <2> QED BY <1>6, <2>4, <2>5, <2>6, <2>7, <2>8
<1>10. CASE t.kind = "variant"
  <2> DEFINE s == t.of[v.alt]
             w == v.parts[1]
  <2>1. s \in TypesTo[n - 1] /\ w \in ValuesOfTo[n - 1][s] /\ v.alt \in DOMAIN t.of
    BY <1>10, AlternativeIs
  <2>2. v = Alternative(v.alt, w) BY <1>10, ValuesOfAre
  <2>3. v.alt \in Nat
    <3>1. t.of \in Seq(TypesTo[n - 1] \cup {Monostate})
      BY <1>10, TypesAre, KindsAre DEF Compounds
    <3>2. Len(t.of) \in Nat /\ v.alt \in 1..Len(t.of) BY <2>1, <3>1, ListIs
    <3> QED BY <3>2
  <2> HIDE DEF s, w, V, E, single
  <2>4. w \in V /\ single[s][w] \in E BY <1>2, <2>1
  <2>5. v \in ValuesTo[n]
    <3>1. <<w>> \in Seq(V) BY <2>4
    <3> QED BY <1>3, <2>2, <2>3, <3>1 DEF ValuesOver, Alternative, Texts
  <2>6. AppendTo[n][t][v] = AppendVariant(single, t, v) BY <1>10, <2>5, AppendIs DEF single
  <2>7. AppendVariant(single, t, v) = Container("v", Signature[s], <<single[s][w]>>)
    BY DEF AppendVariant, s, w
  <2>8. Signature[s] \in Seq(Codes) /\ <<single[s][w]>> \in Seq(E)
    BY <1>1, <2>1, <2>4, SignatureIs
  <2> QED BY <1>6, <2>5, <2>6, <2>7, <2>8
<1> QED BY <1>7, <1>8, <1>9, <1>10, TypesAre DEF Compounds

(* What is sent is a value, and its element is one. *)
LEMMA AppendedIsElement ==
    ASSUME MaxNesting \in Nat, VectorLengths \cup MapLengths \subseteq Nat
    PROVE  \A n \in 0..MaxNesting : Sound(n)
<1> DEFINE S == {m \in Nat : m <= MaxNesting => Sound(m)}
<1>1. 0 \in S
  <2>1. TypesTo[0] = {} BY TypesToIs
  <2> QED BY <2>1 DEF Sound
<1>2. ASSUME NEW m \in S PROVE m + 1 \in S
  <2> SUFFICES ASSUME m + 1 <= MaxNesting PROVE Sound(m + 1) OBVIOUS
  <2>1. Sound(m) /\ m + 1 \in 0..MaxNesting /\ m + 1 # 0 /\ (m + 1) - 1 = m OBVIOUS
  <2> HIDE DEF S
  <2>2. Sound((m + 1) - 1) BY <2>1
  <2> QED BY <2>1, <2>2, SoundStep
<1>3. S \in SUBSET Nat OBVIOUS
<1> HIDE DEF S
<1>4. \A m \in Nat : m \in S BY <1>1, <1>2, <1>3, SetOfAllNumbers
<1> QED BY <1>4 DEF S

(* The equation of the recursive function in ReadParts has a solution. *)
PartByPart(read, single, t, types, ws) ==
    /\ read[0] = Got(<<>>, ws, FALSE)
    /\ \A k \in 1..Len(types) :
        read[k] = Emplaced(t, ReadNext(single, types[k], read[k - 1]))
    /\ ReadParts(single, t, types, ws) = read[Len(types)]

LEMMA ReadPartByPart ==
    ASSUME NEW single, NEW t, NEW types, NEW ws, Len(types) \in Nat
    PROVE  \E read : PartByPart(read, single, t, types, ws)
<1> DEFINE l == Len(types)
           Level(f, k) == IF k = 0 THEN Got(<<>>, ws, FALSE)
                          ELSE Emplaced(t, ReadNext(single, types[k], f[k - 1]))
           S == {m \in Nat : \E f : f = [k \in 0..m |-> Level(f, k)]}
<1>1. 0 \in S
  <2> DEFINE f == [k \in 0..0 |-> Got(<<>>, ws, FALSE)]
  <2>1. f = [k \in 0..0 |-> Level(f, k)] OBVIOUS
  <2> QED BY <2>1
<1>2. ASSUME NEW m \in S PROVE m + 1 \in S
  <2>1. PICK f : f = [k \in 0..m |-> Level(f, k)] OBVIOUS
  <2> DEFINE g == [k \in 0..m + 1 |-> IF k = m + 1 THEN Level(f, k) ELSE f[k]]
             e == m + 1
  <2>0. m \in Nat OBVIOUS
  <2> HIDE DEF S
  <2>2. \A k \in 0..e : k = 0 \/ (k - 1 \in 0..m /\ k # 0) BY <2>0
  <2>9. \A k \in 0..m : k \in 0..e /\ k # e BY <2>0
  <2>3. \A k \in 0..m : g[k] = f[k]
    <3> HIDE DEF Level, e
    <3>1. \A k \in 0..e : g[k] = IF k = e THEN Level(f, k) ELSE f[k] BY DEF e
    <3> HIDE DEF g
    <3> QED BY <2>9, <3>1
  <2>4. \A k \in 0..m + 1 : Level(g, k) = Level(f, k)
    <3> HIDE DEF g
    <3> QED BY <2>2, <2>3
  <2>5. \A k \in 0..m : f[k] = Level(f, k) BY <2>1
  <2>10. \A k \in 0..m + 1 : g[k] = Level(f, k)
    <3> HIDE DEF Level
    <3>1. \A k \in 0..e : k \in 0..m \/ k = e BY <2>0
    <3>2. \A k \in 0..e : k = e => g[k] = Level(f, k) OBVIOUS
    <3> HIDE DEF g
    <3> QED BY <2>3, <2>5, <3>1, <3>2
  <2> HIDE DEF Level
  <2>6. \A k \in 0..m + 1 : g[k] = Level(g, k)
    <3> HIDE DEF g
    <3> QED BY <2>4, <2>10
  <2>7. g = [k \in 0..m + 1 |-> Level(g, k)] BY <2>6
  <2> HIDE DEF g
  <2>8. m + 1 \in Nat /\ \E h : h = [k \in 0..m + 1 |-> Level(h, k)] BY <2>0, <2>7
  <2> QED BY <2>8 DEF S
<1>3. S \in SUBSET Nat OBVIOUS
<1> HIDE DEF S
<1>4. l \in S BY <1>1, <1>2, <1>3, SetOfAllNumbers
<1>5. \E f : f = [k \in 0..l |-> Level(f, k)] BY <1>4 DEF S
<1> DEFINE read == CHOOSE f : f = [k \in 0..l |-> Level(f, k)]
<1>6. read = [k \in 0..l |-> Level(read, k)] BY <1>5
<1>7. ReadParts(single, t, types, ws) = read[l] BY DEF ReadParts
<1> HIDE DEF read
<1>8. l \in Nat OBVIOUS
<1> HIDE DEF l
<1>9. read[0] = Got(<<>>, ws, FALSE) BY <1>6, <1>8
<1>10. ASSUME NEW k \in 1..l
       PROVE  read[k] = Emplaced(t, ReadNext(single, types[k], read[k - 1]))
  <2>1. k \in 0..l /\ k # 0 BY <1>8
  <2>2. read[k] = Level(read, k) BY <1>6, <2>1
  <2> QED BY <2>1, <2>2
<1> QED BY <1>7, <1>9, <1>10 DEF l, PartByPart

LEMMA GotIs ==
    /\ \A value, rest, lost :
        /\ Got(value, rest, lost).outcome = "read" /\ Got(value, rest, lost).value = value
        /\ Got(value, rest, lost).rest = rest /\ Got(value, rest, lost).lost = lost
    /\ \A outcome : Failed(outcome).outcome = outcome
BY DEF Got, Failed

(* Nothing can be read where nothing is left. *)
LEMMA NothingToRead ==
    ASSUME MaxNesting \in Nat, NEW n \in 0..MaxNesting, NEW t \in TypesTo[n]
    PROVE  ReadTo[n][t][<<>>].outcome # "read"
<1>1. <<>> \in Seq(ElementsTo[n]) OBVIOUS
<1>2. Failed("mistyped").outcome # "read" BY GotIs
<1>3. \A code, contents : ~MayEnter(code, contents, <<>>) BY DEF MayEnter
<1>4. CASE t.kind \in Kinds BY <1>1, <1>2, <1>4, ReadIs DEF ReadBasic
<1>5. CASE t.kind \in {"vector", "map"} BY <1>1, <1>2, <1>3, <1>5, ReadIs DEF ReadArray
<1>6. CASE t.kind \in {"pair", "tuple"} BY <1>1, <1>2, <1>3, <1>6, ReadIs DEF ReadTuple
<1>7. CASE t.kind = "variant" BY <1>1, <1>2, <1>7, ReadIs DEF ReadVariant
<1> QED BY <1>4, <1>5, <1>6, <1>7, TypesAre DEF Compounds

(* The types of which a value may be read with an enumerator for a string.  No
   basic type is one; that it is none is what the proofs need of it. *)
Converts(n, t) == t.kind \notin Kinds /\ t \in ConvertingTo[n]

(* What a read gives when the next element is what was appended for the value v
   of the type s. *)
Reads(n, s, v, t, ws) ==
    LET r == ReadTo[n][t][ws] IN
    /\ r.outcome = "read" => r.rest = Tail(ws)
    /\ r.outcome = "read" /\ ~r.lost =>
        r.value \in ValuesTo[n] /\ AppendTo[n][t][r.value] = ws[1]
    /\ s = t /\ t \in UnambiguousTo[n] =>
        /\ r.outcome = "read" /\ ~r.lost
        /\ Converts(n, t) \/ r.value = v
        /\ t.kind = "pair" /\ t.of[1].kind \in Kinds => r.value.parts[1] = v.parts[1]

ReadsBack(n) ==
    \A s, t \in TypesTo[n] : \A v \in ValuesOfTo[n][s] : \A ws \in Seq(ElementsTo[n]) :
        ws # <<>> /\ ws[1] = AppendTo[n][s][v] => Reads(n, s, v, t, ws)

(* The parts of a container that has been sent: values vs of these types. *)
Sent(n, sTypes, vs, ps) ==
    /\ sTypes \in Seq(TypesTo[n]) /\ ps \in Seq(ElementsTo[n]) /\ Len(ps) = Len(sTypes)
    /\ \A k \in 1..Len(ps) : vs[k] \in ValuesOfTo[n][sTypes[k]]
                             /\ ps[k] = AppendTo[n][sTypes[k]][vs[k]]

(* They are of the types of the receiver, and read back as they were sent; no
   two entries of a map have the same key. *)
Same(n, t, types, sTypes, vs) ==
    /\ types = sTypes
    /\ \A k \in 1..Len(types) : types[k] \in UnambiguousTo[n]
    /\ t.kind = "map" =>
        /\ \A k \in 1..Len(types) : types[k].kind = "pair" /\ types[k].of[1].kind \in Kinds
        /\ \A j, k \in 1..Len(types) : vs[j].parts[1] = vs[k].parts[1] => j = k

(* What has been read after k parts. *)
Partly(n, t, types, sTypes, vs, ps, k, r) ==
    /\ r.outcome = "read" =>
        /\ k <= Len(ps) /\ r.rest \in Seq(ElementsTo[n]) /\ Len(r.rest) = Len(ps) - k
        /\ \A j \in 1..Len(ps) - k : r.rest[j] = ps[k + j]
    /\ r.outcome = "read" /\ ~r.lost =>
        /\ r.value \in Seq(ValuesTo[n]) /\ Len(r.value) = k
        /\ \A j \in 1..k : AppendTo[n][types[j]][r.value[j]] = ps[j]
    /\ Same(n, t, types, sTypes, vs) =>
        /\ r.outcome = "read" /\ ~r.lost
        /\ \A j \in 1..k :
            /\ Converts(n, types[j]) \/ r.value[j] = vs[j]
            /\ t.kind = "map" => r.value[j].parts[1] = vs[j].parts[1]

LEMMA PartlyStep ==
    ASSUME MaxNesting \in Nat, NEW n \in 0..MaxNesting, ReadsBack(n),
           NEW t, NEW types \in Seq(TypesTo[n]), NEW sTypes, NEW vs, NEW ps,
           Sent(n, sTypes, vs, ps), NEW k \in 1..Len(types), NEW r,
           Partly(n, t, types, sTypes, vs, ps, k - 1, r)
    PROVE  Partly(n, t, types, sTypes, vs, ps, k,
                  Emplaced(t, ReadNext(ReadTo[n], types[k], r)))
<1> DEFINE next == ReadTo[n][types[k]][r.rest]
           more == ReadNext(ReadTo[n], types[k], r)
           l == Len(ps)
           L == Len(types)
<1>1. L \in Nat /\ k \in 1..L /\ types[k] \in TypesTo[n] BY ListIs
<1>2. sTypes \in Seq(TypesTo[n]) /\ ps \in Seq(ElementsTo[n]) /\ l \in Nat
      /\ Len(sTypes) = l /\ \A j \in 1..l : ps[j] \in ElementsTo[n] /\ sTypes[j] \in TypesTo[n]
  BY ListIs DEF Sent
<1>3. \A j \in 1..l : /\ vs[j] \in ValuesOfTo[n][sTypes[j]]
                      /\ ps[j] = AppendTo[n][sTypes[j]][vs[j]]
  BY DEF Sent
<1> HIDE DEF l, L, next, more
<1>4. r.outcome = "read" =>
        /\ k - 1 <= l /\ r.rest \in Seq(ElementsTo[n]) /\ Len(r.rest) = l - (k - 1)
        /\ \A j \in 1..l - (k - 1) : r.rest[j] = ps[(k - 1) + j]
  BY DEF Partly, l
<1>5. r.outcome = "read" /\ next.outcome = "read" =>
        /\ k <= l /\ r.rest # <<>> /\ r.rest[1] = ps[k]
  <2> SUFFICES ASSUME r.outcome = "read" /\ next.outcome = "read"
               PROVE  k <= l /\ r.rest # <<>> /\ r.rest[1] = ps[k]
    OBVIOUS
  <2>1. r.rest # <<>> BY <1>1, NothingToRead DEF next
  <2>2. Len(r.rest) # 0 BY <1>4, <2>1, EmptySeq
  <2>3. l - (k - 1) # 0 /\ k - 1 <= l BY <1>4, <2>2
  <2>4. k <= l /\ 1 \in 1..l - (k - 1) /\ (k - 1) + 1 = k BY <1>1, <1>2, <2>3
  <2>5. r.rest[1] = ps[(k - 1) + 1] BY <1>4, <2>4
  <2> QED BY <2>1, <2>4, <2>5
<1>6. r.outcome = "read" /\ r.rest # <<>> /\ k <= l /\ r.rest[1] = ps[k] =>
        Reads(n, sTypes[k], vs[k], types[k], r.rest)
  <2> SUFFICES ASSUME r.outcome = "read", r.rest # <<>>, k <= l, r.rest[1] = ps[k]
               PROVE  Reads(n, sTypes[k], vs[k], types[k], r.rest)
    OBVIOUS
  <2>1. k \in 1..l BY <1>1, <1>2
  <2> QED BY <1>1, <1>2, <1>3, <1>4, <2>1 DEF ReadsBack
<1> DEFINE same == Same(n, t, types, sTypes, vs)
(* The next part of the same types is there. *)
<1>7. same => k <= l /\ r.outcome = "read" /\ r.rest # <<>> /\ r.rest[1] = ps[k]
  <2> SUFFICES ASSUME same
               PROVE  k <= l /\ r.outcome = "read" /\ r.rest # <<>> /\ r.rest[1] = ps[k]
    OBVIOUS
  <2>1. r.outcome = "read" BY DEF Partly
  <2>2. L = l BY <1>2 DEF Same, L
  <2>3. k <= l /\ l - (k - 1) # 0 /\ 1 \in 1..l - (k - 1) /\ (k - 1) + 1 = k BY <1>1, <1>2, <2>2
  <2>4. Len(r.rest) # 0 BY <1>4, <2>1, <2>3
  <2>5. r.rest # <<>> BY <2>4, EmptySeq
  <2>6. r.rest[1] = ps[(k - 1) + 1] BY <1>4, <2>1, <2>3
  <2> QED BY <2>1, <2>3, <2>5, <2>6
<1>8. same => next.outcome = "read" /\ ~next.lost
  <2> SUFFICES ASSUME same PROVE next.outcome = "read" /\ ~next.lost OBVIOUS
  <2>1. Reads(n, sTypes[k], vs[k], types[k], r.rest) BY <1>6, <1>7
  <2>2. sTypes[k] = types[k] /\ types[k] \in UnambiguousTo[n] BY <1>1 DEF Same, L
  <2> QED BY <2>1, <2>2 DEF Reads, next
(* A failure ends it all. *)
<1>9. CASE r.outcome # "read"
  <2>1. more = r BY <1>9 DEF more, ReadNext
  <2>2. Emplaced(t, more) = r BY <1>9, <2>1 DEF Emplaced
  <2> QED BY <1>7, <1>9, <2>1, <2>2 DEF Partly, more
<1>10. CASE r.outcome = "read" /\ next.outcome # "read"
  <2>1. more = next BY <1>10 DEF more, ReadNext, next
  <2>2. Emplaced(t, more) = next BY <1>10, <2>1 DEF Emplaced
  <2> QED BY <1>8, <1>10, <2>1, <2>2 DEF Partly, more
<1>11. CASE r.outcome = "read" /\ next.outcome = "read"
  <2> DEFINE value == Append(r.value, next.value)
             all == Emplaced(t, more)
             known == \E j \in 1..Len(value) - 1 :
                        value[j].parts[1] = value[Len(value)].parts[1]
  <2>1. more = Got(value, next.rest, r.lost \/ next.lost)
    BY <1>11 DEF more, ReadNext, next
  <2>2. k <= l /\ k \in 1..l /\ r.rest # <<>> /\ r.rest[1] = ps[k] BY <1>1, <1>2, <1>5, <1>11
  <2>3. Reads(n, sTypes[k], vs[k], types[k], r.rest) BY <1>6, <1>11, <2>2
  <2>4. next.rest = Tail(r.rest) BY <1>11, <2>3 DEF Reads, next
  <2> DEFINE dropped == t.kind = "map" /\ known
  <2>15. more.outcome = "read" /\ more.value = value /\ more.rest = next.rest
        /\ more.lost = (r.lost \/ next.lost)
    <3> HIDE DEF value
    <3> QED BY <2>1, GotIs
  <2>16. Emplaced(t, more) = IF dropped THEN Got(Front(value), next.rest, TRUE) ELSE more
    <3> HIDE DEF value, next, more
    <3> QED BY <2>15 DEF Emplaced
  <2>5. (dropped => all = Got(Front(value), next.rest, TRUE)) /\ (~dropped => all = more)
    <3> HIDE DEF dropped, value, next, more
    <3> QED BY <2>16
  <2>6. all.outcome = "read" /\ all.rest = next.rest
    <3>1. CASE dropped
      <4> HIDE DEF dropped, value, all
      <4>1. Got(Front(value), next.rest, TRUE).outcome = "read"
            /\ Got(Front(value), next.rest, TRUE).rest = next.rest
        BY DEF Got
      <4> QED BY <2>5, <3>1, <4>1
    <3>2. CASE ~dropped
      <4> HIDE DEF dropped, value, all
      <4> QED BY <2>5, <2>15, <3>2
    <3> QED BY <3>1, <3>2
  <2>7. /\ k <= l /\ all.rest \in Seq(ElementsTo[n]) /\ Len(all.rest) = l - k
        /\ \A j \in 1..l - k : all.rest[j] = ps[k + j]
    <3> DEFINE rest == r.rest
    <3>1. rest \in Seq(ElementsTo[n]) /\ rest # <<>> /\ Len(rest) = l - (k - 1)
          /\ \A j \in 1..l - (k - 1) : rest[j] = ps[(k - 1) + j]
      BY <1>4, <1>11, <2>2
    <3>2. all.rest = Tail(rest) BY <2>4, <2>6
    <3> HIDE DEF rest, all
    <3>3. Tail(rest) \in Seq(ElementsTo[n]) /\ Len(Tail(rest)) = Len(rest) - 1
          /\ \A j \in 1..Len(rest) - 1 : Tail(rest)[j] = rest[j + 1]
      BY <3>1
    <3>4. Len(rest) - 1 = l - k /\ \A j \in 1..l - k : j + 1 \in 1..l - (k - 1)
          /\ (k - 1) + (j + 1) = k + j
      BY <1>1, <1>2, <2>2, <3>1
    <3> QED BY <2>2, <3>1, <3>2, <3>3, <3>4
  <2>8. ~all.lost => all = more /\ ~r.lost /\ ~next.lost /\ all.value = value
    <3> HIDE DEF dropped, value, all
    <3>3. Got(Front(value), next.rest, TRUE).lost = TRUE BY GotIs
    <3>1. dropped => all.lost BY <2>5, <3>3
    <3>2. ~all.lost => all = more BY <2>5, <3>1
    <3> QED BY <2>15, <3>2
  <2>9. ~r.lost /\ ~next.lost =>
        /\ value \in Seq(ValuesTo[n]) /\ Len(value) = k /\ value[k] = next.value
        /\ \A j \in 1..k - 1 : value[j] = r.value[j]
        /\ \A j \in 1..k : AppendTo[n][types[j]][value[j]] = ps[j]
    <3> SUFFICES ASSUME ~r.lost, ~next.lost
                 PROVE  /\ value \in Seq(ValuesTo[n]) /\ Len(value) = k /\ value[k] = next.value
                        /\ \A j \in 1..k - 1 : value[j] = r.value[j]
                        /\ \A j \in 1..k : AppendTo[n][types[j]][value[j]] = ps[j]
      OBVIOUS
    <3> DEFINE before == r.value
               last == next.value
    <3>1. before \in Seq(ValuesTo[n]) /\ Len(before) = k - 1
          /\ \A j \in 1..k - 1 : AppendTo[n][types[j]][before[j]] = ps[j]
      BY <1>11 DEF Partly
    <3>2. last \in ValuesTo[n] /\ AppendTo[n][types[k]][last] = ps[k]
      BY <1>11, <2>2, <2>3 DEF Reads, next
    <3>3. value = Append(before, last) OBVIOUS
    <3> HIDE DEF before, last, value
    <3>4. value \in Seq(ValuesTo[n]) /\ Len(value) = Len(before) + 1
          /\ value[Len(before) + 1] = last /\ \A j \in 1..Len(before) : value[j] = before[j]
      BY <3>1, <3>2, <3>3, AppendProperties
    <3>5. (k - 1) + 1 = k /\ \A j \in 1..k : j = k \/ j \in 1..k - 1 BY <1>1
    <3>6. Len(value) = k /\ value[k] = last /\ \A j \in 1..k - 1 : value[j] = before[j]
      BY <3>1, <3>4, <3>5
    <3> QED BY <3>1, <3>2, <3>4, <3>5, <3>6 DEF before, last
  <2>10. same => /\ ~r.lost /\ ~next.lost
                 /\ \A j \in 1..k :
                    /\ Converts(n, types[j])
                       \/ value[j] = vs[j]
                    /\ t.kind = "map" => value[j].parts[1] = vs[j].parts[1]
    <3> SUFFICES ASSUME same
                 PROVE  /\ ~r.lost /\ ~next.lost
                        /\ \A j \in 1..k :
                            /\ Converts(n, types[j])
                               \/ value[j] = vs[j]
                            /\ t.kind = "map" => value[j].parts[1] = vs[j].parts[1]
      OBVIOUS
    <3>1. ~r.lost /\ ~next.lost BY <1>8 DEF Partly
    <3>2. value[k] = next.value /\ \A j \in 1..k - 1 : value[j] = r.value[j] BY <2>9, <3>1
    <3>3. \A j \in 1..k - 1 :
            /\ Converts(n, types[j]) \/ r.value[j] = vs[j]
            /\ t.kind = "map" => r.value[j].parts[1] = vs[j].parts[1]
      BY DEF Partly
    <3>4. types[k] = sTypes[k] /\ types[k] \in UnambiguousTo[n]
          /\ (t.kind = "map" => types[k].kind = "pair" /\ types[k].of[1].kind \in Kinds)
      BY <1>1 DEF Same, L
    <3>7. Converts(n, types[k]) \/ next.value = vs[k]
      BY <2>3, <3>4 DEF Reads, next
    <3>8. t.kind = "map" => next.value.parts[1] = vs[k].parts[1]
      BY <2>3, <3>4 DEF Reads, next
    <3>5. /\ Converts(n, types[k]) \/ next.value = vs[k]
          /\ t.kind = "map" => next.value.parts[1] = vs[k].parts[1]
      BY <3>7, <3>8
    <3>6. \A j \in 1..k : j = k \/ j \in 1..k - 1 BY <1>1
    <3> HIDE DEF value, same
    <3> QED BY <3>1, <3>2, <3>3, <3>5, <3>6
  <2>11. same => ~all.lost
    <3> SUFFICES ASSUME same, known, t.kind = "map" PROVE FALSE
      <4>1. same => ~r.lost /\ ~next.lost BY <2>10
      <4>2. same /\ ~dropped => ~all.lost
        <5> HIDE DEF dropped, value, all, same
        <5> QED BY <2>5, <2>15, <4>1
      <4> QED BY <4>2
    <3>1. Len(value) = k /\ \A j \in 1..k : value[j].parts[1] = vs[j].parts[1]
      BY <2>9, <2>10
    <3>2. PICK j \in 1..k - 1 : value[j].parts[1] = value[k].parts[1]
      <4> HIDE DEF value
      <4> QED BY <3>1
    <3>3. j \in 1..k /\ j # k /\ j \in 1..L /\ k \in 1..k BY <1>1
    <3>4. vs[j].parts[1] = vs[k].parts[1]
      <4> HIDE DEF value
      <4> QED BY <3>1, <3>2, <3>3
    <3> QED BY <1>1, <3>3, <3>4 DEF Same, L
  <2> HIDE DEF all, value, known
  <2>12. all.outcome = "read" /\ ~all.lost =>
            /\ all.value \in Seq(ValuesTo[n]) /\ Len(all.value) = k
            /\ \A j \in 1..k : AppendTo[n][types[j]][all.value[j]] = ps[j]
    BY <2>8, <2>9
  <2>13. same =>
            /\ all.outcome = "read" /\ ~all.lost
            /\ \A j \in 1..k :
                /\ Converts(n, types[j])
                   \/ all.value[j] = vs[j]
                /\ t.kind = "map" => all.value[j].parts[1] = vs[j].parts[1]
    BY <2>6, <2>8, <2>10, <2>11
  <2>14. Partly(n, t, types, sTypes, vs, ps, k, all)
    BY <2>7, <2>12, <2>13 DEF Partly, l
  <2> QED BY <2>14 DEF all, more
<1> QED BY <1>9, <1>10, <1>11

LEMMA PartsRead ==
    ASSUME MaxNesting \in Nat, NEW n \in 0..MaxNesting, ReadsBack(n),
           NEW t, NEW types \in Seq(TypesTo[n]), NEW sTypes, NEW vs, NEW ps,
           Sent(n, sTypes, vs, ps)
    PROVE  Partly(n, t, types, sTypes, vs, ps, Len(types),
                  ReadParts(ReadTo[n], t, types, ps))
<1>1. Len(types) \in Nat BY ListIs
<1>8. PICK read : PartByPart(read, ReadTo[n], t, types, ps) BY <1>1, ReadPartByPart
<1>2. /\ read[0] = Got(<<>>, ps, FALSE)
      /\ \A k \in 1..Len(types) :
            read[k] = Emplaced(t, ReadNext(ReadTo[n], types[k], read[k - 1]))
      /\ ReadParts(ReadTo[n], t, types, ps) = read[Len(types)]
  BY <1>8 DEF PartByPart
<1> DEFINE l == Len(types)
           So(k) == Partly(n, t, types, sTypes, vs, ps, k, read[k])
           S == {k \in Nat : k <= l => So(k)}
<1>3. So(0)
  <2> DEFINE r == Got(<<>>, ps, FALSE)
             m == Len(ps)
  <2>1. r.outcome = "read" /\ r.value = <<>> /\ r.rest = ps /\ ~r.lost BY DEF Got
  <2>2. ps \in Seq(ElementsTo[n]) /\ m \in Nat BY ListIs DEF Sent
  <2> HIDE DEF r, m
  <2>3. 0 <= m /\ m = m - 0 /\ (\A j \in 1..m - 0 : 0 + j = j) /\ 1..0 = {} BY <2>2
  <2>4. <<>> \in Seq(ValuesTo[n]) /\ Len(<<>>) = 0 OBVIOUS
  <2>5. Partly(n, t, types, sTypes, vs, ps, 0, r)
    BY <2>1, <2>2, <2>3, <2>4 DEF Partly, m
  <2> QED BY <1>2, <2>5 DEF r
<1>4. ASSUME NEW k \in S PROVE k + 1 \in S
  <2> SUFFICES ASSUME k + 1 <= l PROVE So(k + 1) OBVIOUS
  <2>1. k \in Nat /\ So(k) BY <1>1
  <2> DEFINE e == k + 1
  <2> HIDE DEF S
  <2>2. e \in 1..l /\ e - 1 = k BY <1>1, <2>1
  <2>3. So(e - 1) BY <2>1, <2>2
  <2>4. read[e] = Emplaced(t, ReadNext(ReadTo[n], types[e], read[e - 1])) BY <1>2, <2>2
  <2> HIDE DEF e
  <2>5. Partly(n, t, types, sTypes, vs, ps, e,
               Emplaced(t, ReadNext(ReadTo[n], types[e], read[e - 1])))
    BY <2>2, <2>3, PartlyStep
  <2>6. So(e) BY <2>4, <2>5
  <2> QED BY <2>6 DEF e
<1>5. S \in SUBSET Nat /\ 0 \in S BY <1>3
<1>6. l \in S
  <2> HIDE DEF S, l
  <2>1. \A k \in S : k + 1 \in S BY <1>4
  <2> QED BY <1>1, <1>5, <2>1, SetOfAllNumbers DEF l
<1>7. So(l) BY <1>1, <1>6
<1> QED BY <1>2, <1>7

(* A set of numbers that is not empty has the minimum that Min takes. *)
LEMMA MinOf ==
    ASSUME NEW S \in SUBSET Nat, S # {}
    PROVE  Min(S) \in S /\ \A y \in S : Min(S) <= y
<1>1. PICK least \in S : \A y \in S : ~(<<y, least>> \in OpToRel(<, Nat))
  BY WFMin, NatLessThanWellFounded
<1>2. ASSUME NEW y \in S PROVE least <= y
  <2>1. SUFFICES ASSUME y < least PROVE FALSE OBVIOUS
  <2>2. <<y, least>> \in {ss \in Nat \X Nat : ss[1] < ss[2]} BY <2>1
  <2>3. <<y, least>> \in OpToRel(<, Nat) BY <2>2 DEF OpToRel
  <2> QED BY <1>1, <2>3
<1>3. \E x \in S : \A y \in S : x <= y BY <1>2
<1> QED BY <1>3 DEF Min

(* What kind of type an element has been appended for. *)
LEMMA CodeOfAppended ==
    ASSUME MaxNesting \in Nat, NEW n \in 0..MaxNesting, NEW s \in TypesTo[n],
           NEW v \in ValuesTo[n]
    PROVE  LET code == AppendTo[n][s][v].code IN
           /\ code \in {"b", "i", "s", "o"} => s.kind \in Kinds /\ code = Code[s.kind]
           /\ code = "a" <=> s.kind \in {"vector", "map"}
           /\ code = "e" <=> s.kind = "pair"
           /\ code = "r" <=> s.kind = "tuple"
           /\ code = "v" <=> s.kind = "variant"
<1> DEFINE w == AppendTo[n][s][v]
           single == AppendTo[n - 1]
<1>7. AppendBasic(s, v).code = Code[s.kind] BY DEF AppendBasic
<1>8. \A code, contents, parts : Container(code, contents, parts).code = code
  BY DEF Container
<1>1. s.kind \in Kinds => w.code = Code[s.kind]
  BY <1>7, AppendIs
<1>2. s.kind \in Kinds => w.code \in {"b", "i", "s", "o"}
  BY <1>1, CodesAre
<1>3. s.kind \in {"vector", "map"} => w.code = "a"
  <2>1. AppendArray(single, s, v).code = "a" BY <1>8 DEF AppendArray
  <2> QED BY <2>1, AppendIs
<1>4. s.kind \in {"pair", "tuple"} => w.code = IF s.kind = "pair" THEN "e" ELSE "r"
  <2>1. s.kind \in {"pair", "tuple"} => w = AppendTuple(single, s, v) BY AppendIs
  <2>2. AppendTuple(single, s, v).code = IF s.kind = "pair" THEN "e" ELSE "r"
    BY <1>8 DEF AppendTuple, TupleType
  <2> HIDE DEF w, single
  <2> QED BY <2>1, <2>2
<1>5. s.kind = "variant" => w.code = "v"
  <2>1. AppendVariant(single, s, v).code = "v" BY <1>8 DEF AppendVariant
  <2> QED BY <2>1, AppendIs
<1>6. s.kind \in {"bool", "int", "string", "path", "enum"}
                 \cup {"vector", "map", "pair", "tuple"} \cup {"variant"}
  BY TypesAre, KindsAre DEF Compounds
<1> HIDE DEF w
<1> QED BY <1>1, <1>2, <1>3, <1>4, <1>5, <1>6, KindsAre DEF w

LEMMA UnambiguousIs ==
    ASSUME MaxNesting \in Nat, NEW n \in 0..MaxNesting, NEW t \in UnambiguousTo[n]
    PROVE  /\ \A k \in DOMAIN t.of : t.of[k] \in UnambiguousTo[n - 1] \cup {Monostate}
           /\ t.kind = "map" => t.of[1].kind = "pair" /\ t.of[1].of[1].kind \in Kinds
           /\ t.kind = "variant" =>
                \A k, l \in DOMAIN t.of :
                    /\ ~Takes(n, t, l, k)
                    /\ k # l /\ Signature[t.of[k]] = Signature[t.of[l]] =>
                            {t.of[k].kind, t.of[l].kind} = {"enum", "string"}
<1>1. n # 0 BY UnambiguousToIs
<1>2. t \in UnambiguousOver(n, UnambiguousTo[n - 1]) BY <1>1, UnambiguousToIs
<1>3. t \in TypesTo[n] BY <1>2 DEF UnambiguousOver
<1>4. t.kind = "map" => t.of[1].kind = "pair" /\ t.of[1].of[1].kind \in Kinds
  <2> SUFFICES ASSUME t.kind = "map"
               PROVE  t.of[1].kind = "pair" /\ t.of[1].of[1].kind \in Kinds
    OBVIOUS
  <2>1. t.of[1] \in TypesTo[n - 1] /\ n - 1 \in 0..MaxNesting
    BY <1>3, PartsAre, TypesAre DEF Compounds
  <2>2. t.of[1].kind = "pair" BY <1>3, TypesAreLegal, KindsAre DEF IsLegal
  <2>3. IsLegal(t.of[1]) BY <2>1, <2>2, TypesAreLegal, KindsAre
  <2> QED BY <2>2, <2>3 DEF IsLegal, Kinds
<1> QED BY <1>2, <1>4 DEF UnambiguousOver

LEMMA ToldApart ==
    ASSUME MaxNesting \in Nat, NEW n \in 0..MaxNesting, NEW t \in UnambiguousTo[n],
           t.kind = "variant", NEW k \in DOMAIN t.of, NEW l \in DOMAIN t.of, k # l,
           Signature[t.of[k]] = Signature[t.of[l]]
    PROVE  {t.of[k].kind, t.of[l].kind} = {"enum", "string"}
BY UnambiguousIs

LEMMA NotConverting ==
    ASSUME MaxNesting \in Nat, NEW n \in 0..MaxNesting, NEW t \in TypesTo[n],
           t \notin ConvertingTo[n]
    PROVE  /\ \A k \in DOMAIN t.of : t.of[k] \notin ConvertingTo[n - 1]
           /\ t.kind = "variant" =>
                \A j, k \in DOMAIN t.of : ~(t.of[j].kind = "enum" /\ t.of[k].kind = "string")
<1>1. n # 0 BY TypesToIs
<1>2. ConvertingTo[n] = ConvertingOver(n, ConvertingTo[n - 1]) BY <1>1, ConvertingToIs
<1> QED BY <1>2 DEF ConvertingOver

LEMMA MonostateIsNoType ==
    ASSUME MaxNesting \in Nat, NEW n \in 0..MaxNesting
    PROVE  Monostate \notin TypesTo[n]
<1>1. Monostate.kind = "monostate" BY DEF Monostate, Basic
<1> QED BY <1>1, TypesAre, KindsAre DEF Compounds

(* What leaving a container gives, after its parts have been read. *)
LEMMA ContainerRead ==
    ASSUME MaxNesting \in Nat, NEW n \in 0..MaxNesting,
           NEW t, NEW types \in Seq(TypesTo[n]), NEW sTypes, NEW vs, NEW ps,
           Sent(n, sTypes, vs, ps), NEW q, NEW ws,
           Partly(n, t, types, sTypes, vs, ps, Len(types), q)
    PROVE  LET r == ExitContainer(q, ws) IN
           /\ r.outcome = "read" =>
                r.rest = Tail(ws) /\ Len(ps) = Len(types) /\ q.outcome = "read"
                /\ r.lost = q.lost /\ r.value = Compound(q.value)
           /\ Same(n, t, types, sTypes, vs) => r.outcome = "read" /\ ~r.lost
<1> DEFINE r == ExitContainer(q, ws)
           l == Len(types)
           m == Len(ps)
<1>1. l \in Nat /\ m \in Nat BY ListIs DEF Sent
<1> HIDE DEF l, m
<1>2. q.outcome = "read" => l <= m /\ q.rest \in Seq(ElementsTo[n]) /\ Len(q.rest) = m - l
  BY DEF Partly, l, m
<1>3. Failed("mistyped").outcome # "read" BY GotIs
<1>4. r.outcome = "read" => q.outcome = "read" /\ q.rest = <<>>
  BY <1>3 DEF ExitContainer
<1>5. q.outcome = "read" /\ q.rest = <<>> => r = Got(Compound(q.value), Tail(ws), q.lost)
  BY DEF ExitContainer
<1>6. r.outcome = "read" => m = l
  <2>1. SUFFICES ASSUME r.outcome = "read" PROVE m = l OBVIOUS
  <2>2. Len(q.rest) = 0 BY <1>4, <2>1
  <2> HIDE DEF r
  <2> QED BY <1>1, <1>2, <1>4, <2>1, <2>2
<1>7. r.outcome = "read" =>
        r.rest = Tail(ws) /\ r.lost = q.lost /\ r.value = Compound(q.value)
  <2>1. LET got == Got(Compound(q.value), Tail(ws), q.lost) IN
        got.rest = Tail(ws) /\ got.lost = q.lost /\ got.value = Compound(q.value)
    BY DEF Got
  <2> HIDE DEF r
  <2> QED BY <1>4, <1>5, <2>1
<1>8. Same(n, t, types, sTypes, vs) => r.outcome = "read" /\ ~r.lost
  <2> SUFFICES ASSUME Same(n, t, types, sTypes, vs) PROVE r.outcome = "read" /\ ~r.lost
    OBVIOUS
  <2>1. q.outcome = "read" /\ ~q.lost BY DEF Partly
  <2>2. l = m BY DEF Same, Sent, l, m
  <2>3. Len(q.rest) = 0 /\ q.rest \in Seq(ElementsTo[n]) BY <1>1, <1>2, <2>1, <2>2
  <2>4. q.rest = <<>> BY <2>3, EmptySeq
  <2> HIDE DEF r
  <2> QED BY <1>5, <2>1, <2>4, GotIs
<1> HIDE DEF r
<1>9. /\ r.outcome = "read" =>
            r.rest = Tail(ws) /\ Len(ps) = Len(types) /\ q.outcome = "read"
            /\ r.lost = q.lost /\ r.value = Compound(q.value)
      /\ Same(n, t, types, sTypes, vs) => r.outcome = "read" /\ ~r.lost
  BY <1>4, <1>6, <1>7, <1>8 DEF l, m, r
<1> QED BY <1>9 DEF r

(* What the reader of a basic type gives. *)
LEMMA BasicReadsBack ==
    ASSUME MaxNesting \in Nat, VectorLengths \cup MapLengths \subseteq Nat,
           NEW n \in 0..MaxNesting, NEW s \in TypesTo[n], NEW v \in ValuesOfTo[n][s],
           v \in ValuesTo[n], NEW t \in TypesTo[n], t.kind \in Kinds,
           NEW ws \in Seq(ElementsTo[n]), ws # <<>>, ws[1] = AppendTo[n][s][v]
    PROVE  Reads(n, s, v, t, ws)
<1> DEFINE w == ws[1]
           r == ReadTo[n][t][ws]
<1>1. n # 0 /\ ValuesTo[n] = ValuesOver(ValuesTo[n - 1])
      /\ ElementsTo[n] = ElementsOver(ElementsTo[n - 1])
  BY TypesToIs, ValuesToIs, ElementsToIs
<1>2. w \in ElementsTo[n] BY ListIs
<1>3. w.data \in Texts BY <1>1, <1>2 DEF ElementsOver
<1>4. r = ReadBasic(t, ws) BY ReadIs
<1>5. Failed("mistyped").outcome # "read" /\ Failed("badEnum").outcome # "read" BY GotIs
<1>6. w = AppendTo[n][s][v] OBVIOUS
<1> HIDE DEF r, w
<1>7. r.outcome = "read" =>
        w.code = Code[t.kind] /\ r = Got(Datum(w.data), Tail(ws), FALSE)
  BY <1>4, <1>5 DEF ReadBasic, w
<1>8. LET got == Got(Datum(w.data), Tail(ws), FALSE) IN
        got.outcome = "read" /\ got.rest = Tail(ws) /\ ~got.lost /\ got.value = Datum(w.data)
  BY DEF Got
<1>9. w.code = Code[t.kind] => s.kind \in Kinds /\ w = AppendBasic(s, v)
  <2> SUFFICES ASSUME w.code = Code[t.kind] PROVE s.kind \in Kinds /\ w = AppendBasic(s, v)
    OBVIOUS
  <2>1. w.code \in {"b", "i", "s", "o"} BY CodesAre
  <2>2. s.kind \in Kinds BY <1>6, <2>1, CodeOfAppended
  <2> QED BY <1>6, <2>2, AppendIs
<1>10. r.outcome = "read" =>
        r.rest = Tail(ws) /\ r.value \in ValuesTo[n] /\ AppendTo[n][t][r.value] = w
  <2> SUFFICES ASSUME r.outcome = "read"
               PROVE  r.rest = Tail(ws) /\ r.value \in ValuesTo[n]
                      /\ AppendTo[n][t][r.value] = w
    OBVIOUS
  <2>1. r.rest = Tail(ws) /\ r.value = Datum(w.data) BY <1>7, <1>8
  <2>2. Datum(w.data) \in ValuesTo[n] BY <1>1, <1>3 DEF ValuesOver, Datum
  <2>3. AppendTo[n][t][Datum(w.data)] = AppendBasic(t, Datum(w.data)) BY <2>2, AppendIs
  <2>4. w = AppendBasic(s, v) /\ w.code = Code[t.kind] BY <1>7, <1>9
  <2>5. w = [code |-> Code[t.kind], contents |-> <<>>, data |-> w.data, parts |-> <<>>]
    BY <2>4 DEF AppendBasic
  <2>6. AppendBasic(t, Datum(w.data)) = w BY <2>5 DEF AppendBasic, Datum
  <2> QED BY <2>1, <2>2, <2>3, <2>6
<1>11. s = t => r.outcome = "read" /\ ~r.lost /\ r.value = v
  <2> SUFFICES ASSUME s = t PROVE r.outcome = "read" /\ ~r.lost /\ r.value = v OBVIOUS
  <2>1. w = AppendBasic(s, v) BY <1>6, AppendIs
  <2>2. w.code = Code[t.kind] /\ w.data = v.data BY <2>1 DEF AppendBasic
  <2>3. v = Datum(v.data) /\ v.data \in Data[t.kind] BY ValuesOfAre
  <2>4. t.kind = "enum" => w.data \in Enumerators
    BY <2>2, <2>3, DataAre DEF Enumerators
  <2>5. r = Got(Datum(w.data), Tail(ws), FALSE)
    BY <1>4, <2>2, <2>4 DEF ReadBasic, w
  <2> QED BY <1>8, <2>2, <2>3, <2>5
<1>12. t.kind # "pair" BY KindsAre
<1> QED BY <1>10, <1>11, <1>12 DEF Reads, Converts, r, w

(* What is sent as a container and read as one: the element holds the parts, and
   the value that has been read is of parts that give the same element again. *)
LEMMA ArrayReadsBack ==
    ASSUME MaxNesting \in Nat, VectorLengths \cup MapLengths \subseteq Nat,
           NEW n \in 0..MaxNesting, Sound(n - 1), ReadsBack(n - 1),
           NEW s \in TypesTo[n], NEW v \in ValuesOfTo[n][s],
           v \in ValuesTo[n], NEW t \in TypesTo[n], t.kind \in {"vector", "map"},
           NEW ws \in Seq(ElementsTo[n]), ws # <<>>, ws[1] = AppendTo[n][s][v]
    PROVE  Reads(n, s, v, t, ws)
<1> DEFINE w == ws[1]
           r == ReadTo[n][t][ws]
           m == n - 1
           single == AppendTo[m]
           of == t.of[1]
           sOf == s.of[1]
           vs == v.parts
           ps == w.parts
           l == Len(vs)
           types == [k \in DOMAIN ps |-> of]
           sTypes == [k \in DOMAIN ps |-> sOf]
           q == ReadParts(ReadTo[m], t, types, ps)
<1>1. n # 0 /\ m \in 0..MaxNesting /\ ValuesTo[n] = ValuesOver(ValuesTo[m])
  BY TypesToIs, ValuesToIs
<1>2. r = ReadArray(ReadTo[m], t, ws) BY ReadIs
<1>3. Failed("mistyped").outcome # "read" BY GotIs
<1>4. of \in TypesTo[m] /\ t.kind \notin Kinds /\ t.kind \in Compounds /\ 1 \in DOMAIN t.of
  BY PartsAre, KindsAre DEF Compounds
<1>5. w = AppendTo[n][s][v] OBVIOUS
<1> HIDE DEF r, w
<1>7. CASE w.code # "a" \/ w.contents # Signature[of]
  <2>1. ~MayEnter("a", Signature[of], ws) BY <1>7 DEF MayEnter, w
  <2>2. r.outcome # "read" BY <1>2, <1>3, <2>1 DEF ReadArray
  <2>3. s # t
    <3> SUFFICES ASSUME s = t PROVE FALSE OBVIOUS
    <3>1. w = AppendArray(single, t, v) BY <1>5, AppendIs
    <3>2. w.code = "a" /\ w.contents = Signature[of] BY <3>1 DEF AppendArray, Container
    <3> QED BY <1>7, <3>2
  <2> QED BY <2>2, <2>3 DEF Reads, r
<1>8. CASE w.code = "a" /\ w.contents = Signature[of]
  <2>1. s.kind \in {"vector", "map"} BY <1>5, <1>8, CodeOfAppended
  <2>2. w = AppendArray(single, s, v) BY <1>5, <2>1, AppendIs
  <2>3. sOf \in TypesTo[m] BY <2>1, PartsAre DEF Compounds
  <2>4. v = Compound(vs) /\ vs \in Seq(ValuesOfTo[m][sOf]) BY <2>1, ValuesOfAre
  <2>5. l \in Nat /\ DOMAIN vs = 1..l /\ vs = [k \in 1..l |-> vs[k]]
        /\ \A k \in 1..l : vs[k] \in ValuesOfTo[m][sOf]
    BY <2>4, ListIs
  <2>6. w.contents = Signature[sOf] /\ ps = [k \in DOMAIN vs |-> single[sOf][vs[k]]]
        /\ w = Container("a", Signature[sOf], ps)
    BY <2>2 DEF AppendArray, Container
  <2> HIDE DEF of, sOf, vs, l, ps, single
  <2>7. ps = [k \in 1..l |-> ps[k]]
        /\ \A k \in 1..l : ps[k] = single[sOf][vs[k]] /\ ps[k] \in ElementsTo[m]
    <3>1. ps = [k \in 1..l |-> single[sOf][vs[k]]] BY <2>5, <2>6
    <3>2. \A k \in 1..l : single[sOf][vs[k]] \in ElementsTo[m]
      BY <2>3, <2>5 DEF Sound, single
    <3> QED BY <3>1, <3>2
  <2>8. ps \in Seq(ElementsTo[m]) /\ Len(ps) = l /\ DOMAIN ps = 1..l BY <2>5, <2>7, ListOf
  <2>9. /\ types \in Seq(TypesTo[m]) /\ Len(types) = l
        /\ sTypes \in Seq(TypesTo[m]) /\ Len(sTypes) = l
        /\ \A k \in 1..l : types[k] = of /\ sTypes[k] = sOf
    <3>1. types = [k \in 1..l |-> types[k]] /\ sTypes = [k \in 1..l |-> sTypes[k]]
          /\ \A k \in 1..l : types[k] = of /\ sTypes[k] = sOf
      BY <2>8
    <3> HIDE DEF types, sTypes
    <3>2. types \in Seq(TypesTo[m]) /\ Len(types) = l BY <1>4, <2>5, <3>1, ListOf
    <3>3. sTypes \in Seq(TypesTo[m]) /\ Len(sTypes) = l BY <2>3, <2>5, <3>1, ListOf
    <3> QED BY <3>1, <3>2, <3>3
  <2> HIDE DEF types, sTypes
  <2>10. Sent(m, sTypes, vs, ps)
    BY <2>5, <2>7, <2>8, <2>9 DEF Sent, single
  <2>11. Partly(m, t, types, sTypes, vs, ps, Len(types), q)
    BY <1>1, <2>9, <2>10, PartsRead
  <2>12. r = ExitContainer(q, ws)
    <3>1. MayEnter("a", Signature[of], ws) BY <1>8 DEF MayEnter, w
    <3> QED BY <1>2, <3>1 DEF ReadArray, of, types, ps, w
  <2> HIDE DEF q, m
  <2>13. /\ r.outcome = "read" =>
                r.rest = Tail(ws) /\ q.outcome = "read"
                /\ r.lost = q.lost /\ r.value = Compound(q.value)
         /\ Same(m, t, types, sTypes, vs) => r.outcome = "read" /\ ~r.lost
    <3>1. LET e == ExitContainer(q, ws) IN
          /\ e.outcome = "read" =>
                e.rest = Tail(ws) /\ Len(ps) = Len(types) /\ q.outcome = "read"
                /\ e.lost = q.lost /\ e.value = Compound(q.value)
          /\ Same(m, t, types, sTypes, vs) => e.outcome = "read" /\ ~e.lost
      BY <1>1, <2>9, <2>10, <2>11, ContainerRead
    <3> QED BY <2>12, <3>1
  <2>14. r.outcome = "read" /\ ~r.lost =>
            r.value \in ValuesTo[n] /\ AppendTo[n][t][r.value] = w
    <3> SUFFICES ASSUME r.outcome = "read" /\ ~r.lost
                 PROVE  r.value \in ValuesTo[n] /\ AppendTo[n][t][r.value] = w
      OBVIOUS
    <3> DEFINE parts == q.value
    <3>1. r.value = Compound(parts) /\ q.outcome = "read" /\ ~q.lost BY <2>13
    <3>2. parts \in Seq(ValuesTo[m]) /\ Len(parts) = l
          /\ \A j \in 1..l : AppendTo[m][types[j]][parts[j]] = ps[j]
      BY <2>9, <2>11, <3>1 DEF Partly
    <3> HIDE DEF parts
    <3>3. Compound(parts) \in ValuesTo[n] BY <1>1, <3>2 DEF ValuesOver, Compound, Texts
    <3>4. DOMAIN parts = 1..l BY <3>2, ListIs
    <3>5. AppendTo[n][t][Compound(parts)] = AppendArray(single, t, Compound(parts))
      BY <3>3, AppendIs DEF single, m
    <3>6. Compound(parts).parts = parts BY DEF Compound
    <3>7. AppendArray(single, t, Compound(parts)) =
            Container("a", Signature[of], [k \in 1..l |-> single[of][parts[k]]])
      BY <3>4, <3>6 DEF AppendArray, of
    <3>8. [k \in 1..l |-> single[of][parts[k]]] = ps
      BY <2>7, <2>9, <3>2 DEF single
    <3>9. Container("a", Signature[of], ps) = w BY <1>8, <2>6
    <3> QED BY <3>1, <3>3, <3>5, <3>7, <3>8, <3>9
  <2>15. ASSUME s = t, t \in UnambiguousTo[n]
         PROVE  /\ r.outcome = "read" /\ ~r.lost
                /\ t \in ConvertingTo[n] \/ r.value = v
    <3>1. of = sOf BY <2>15 DEF of, sOf
    <3>2. types = sTypes BY <3>1 DEF types, sTypes
    <3>3. of \in UnambiguousTo[m]
          /\ (t.kind = "map" => of.kind = "pair" /\ of.of[1].kind \in Kinds)
      BY <1>1, <1>4, <2>15, UnambiguousIs, MonostateIsNoType DEF of, m
    <3>4. t.kind = "map" =>
            \A j, k \in 1..l : vs[j].parts[1] = vs[k].parts[1] => j = k
      BY <2>5, <2>15, ValuesOfAre DEF vs
    <3>5. Same(m, t, types, sTypes, vs)
      BY <2>9, <3>2, <3>3, <3>4 DEF Same
    <3>6. r.outcome = "read" /\ ~r.lost /\ q.outcome = "read" /\ ~q.lost
          /\ r.value = Compound(q.value)
      BY <2>13, <3>5
    <3>7. ASSUME t \notin ConvertingTo[n] PROVE r.value = v
      <4>1. of \notin ConvertingTo[m] BY <1>4, <3>7, NotConverting DEF of, m
      <4>2. q.value \in Seq(ValuesTo[m]) /\ Len(q.value) = l
        BY <2>9, <2>11, <3>6 DEF Partly
      <4>3. \A j \in 1..l : Converts(m, types[j])
                            \/ q.value[j] = vs[j]
        BY <2>9, <2>11, <3>5 DEF Partly, Converts
      <4>4. \A j \in 1..l : q.value[j] = vs[j] BY <2>9, <4>1, <4>3 DEF Converts
      <4>5. q.value = vs
        <5>1. q.value = [j \in 1..l |-> q.value[j]] BY <4>2, ListIs
        <5> QED BY <2>5, <4>4, <5>1
      <4> QED BY <2>4, <3>6, <4>5
    <3> QED BY <3>6, <3>7
  <2>16. t.kind # "pair" OBVIOUS
  <2> QED BY <1>4, <2>13, <2>14, <2>15, <2>16 DEF Reads, Converts, r, w
<1> QED BY <1>7, <1>8

LEMMA TupleReadsBack ==
    ASSUME MaxNesting \in Nat, VectorLengths \cup MapLengths \subseteq Nat,
           NEW n \in 0..MaxNesting, Sound(n - 1), ReadsBack(n - 1),
           NEW s \in TypesTo[n], NEW v \in ValuesOfTo[n][s],
           v \in ValuesTo[n], NEW t \in TypesTo[n], t.kind \in {"pair", "tuple"},
           NEW ws \in Seq(ElementsTo[n]), ws # <<>>, ws[1] = AppendTo[n][s][v]
    PROVE  Reads(n, s, v, t, ws)
<1> DEFINE w == ws[1]
           r == ReadTo[n][t][ws]
           m == n - 1
           single == AppendTo[m]
           types == t.of
           sTypes == s.of
           vs == v.parts
           ps == w.parts
           l == Len(sTypes)
           q == ReadParts(ReadTo[m], t, types, ps)
<1>1. n # 0 /\ m \in 0..MaxNesting /\ ValuesTo[n] = ValuesOver(ValuesTo[m])
  BY TypesToIs, ValuesToIs
<1>2. r = ReadTuple(ReadTo[m], t, ws) BY ReadIs
<1>3. Failed("mistyped").outcome # "read" BY GotIs
<1>4. types \in Seq(TypesTo[m]) /\ t.kind \notin Kinds /\ t.kind # "variant"
  BY TypesAre, KindsAre DEF Compounds
<1>5. w = AppendTo[n][s][v] OBVIOUS
<1>6. TupleType(t) = IF t.kind = "pair" THEN "e" ELSE "r" BY DEF TupleType
<1> HIDE DEF r, w
<1>7. CASE w.code # TupleType(t) \/ w.contents # Signatures(types)
  <2>1. ~MayEnter(TupleType(t), Signatures(types), ws) BY <1>7 DEF MayEnter, w
  <2>2. r.outcome # "read" BY <1>2, <1>3, <2>1 DEF ReadTuple
  <2>3. s # t
    <3> SUFFICES ASSUME s = t PROVE FALSE OBVIOUS
    <3>1. w = AppendTuple(single, t, v) BY <1>5, AppendIs
    <3>2. w.code = TupleType(t) /\ w.contents = Signatures(types)
      BY <3>1 DEF AppendTuple, Container
    <3> QED BY <1>7, <3>2
  <2> QED BY <2>2, <2>3 DEF Reads, r
<1>8. CASE w.code = TupleType(t) /\ w.contents = Signatures(types)
  <2>1. s.kind = t.kind /\ s.kind \in {"pair", "tuple"}
    <3>1. w.code = "e" => s.kind = "pair" BY <1>5, CodeOfAppended
    <3>2. w.code = "r" => s.kind = "tuple" BY <1>5, CodeOfAppended
    <3> QED BY <1>6, <1>8, <3>1, <3>2
  <2>2. w = AppendTuple(single, s, v) BY <1>5, <2>1, AppendIs
  <2>3. sTypes \in Seq(TypesTo[m]) BY <2>1, TypesAre, KindsAre DEF Compounds
  <2>5. l \in Nat /\ DOMAIN sTypes = 1..l /\ \A k \in 1..l : sTypes[k] \in TypesTo[m]
    BY <2>3, ListIs
  <2>4. v = Compound(vs) /\ vs = [k \in 1..l |-> vs[k]]
        /\ \A k \in 1..l : vs[k] \in ValuesOfTo[m][sTypes[k]]
    <3>1. /\ v = Compound(v.parts) /\ v.parts = [k \in DOMAIN s.of |-> v.parts[k]]
          /\ \A k \in DOMAIN s.of : v.parts[k] \in ValuesOfTo[m][s.of[k]]
      BY <2>1, ValuesOfAre
    <3> HIDE DEF l
    <3> QED BY <2>5, <3>1
  <2>6. w.contents = Signatures(sTypes) /\ TupleType(s) = TupleType(t)
        /\ ps = [k \in DOMAIN sTypes |-> single[sTypes[k]][vs[k]]]
        /\ w = Container(TupleType(s), Signatures(sTypes), ps)
    BY <2>1, <2>2 DEF AppendTuple, Container, TupleType
  <2> HIDE DEF types, sTypes, vs, l, ps, single
  <2>7. ps = [k \in 1..l |-> ps[k]]
        /\ \A k \in 1..l : ps[k] = single[sTypes[k]][vs[k]] /\ ps[k] \in ElementsTo[m]
    <3>1. ps = [k \in 1..l |-> single[sTypes[k]][vs[k]]] BY <2>5, <2>6
    <3>2. \A k \in 1..l : single[sTypes[k]][vs[k]] \in ElementsTo[m]
      BY <2>4, <2>5 DEF Sound, single
    <3> QED BY <3>1, <3>2
  <2>8. ps \in Seq(ElementsTo[m]) /\ Len(ps) = l /\ DOMAIN ps = 1..l BY <2>5, <2>7, ListOf
  <2>10. Sent(m, sTypes, vs, ps)
    BY <2>3, <2>4, <2>7, <2>8 DEF Sent, single, l
  <2>11. Partly(m, t, types, sTypes, vs, ps, Len(types), q)
    BY <1>1, <1>4, <2>10, PartsRead
  <2>12. r = ExitContainer(q, ws)
    <3>1. MayEnter(TupleType(t), Signatures(types), ws) BY <1>8 DEF MayEnter, w
    <3> QED BY <1>2, <3>1 DEF ReadTuple, types, ps, w
  <2> HIDE DEF q, m
  <2>13. /\ r.outcome = "read" =>
                r.rest = Tail(ws) /\ Len(types) = l /\ q.outcome = "read"
                /\ r.lost = q.lost /\ r.value = Compound(q.value)
         /\ Same(m, t, types, sTypes, vs) => r.outcome = "read" /\ ~r.lost
    <3>1. LET e == ExitContainer(q, ws) IN
          /\ e.outcome = "read" =>
                e.rest = Tail(ws) /\ Len(ps) = Len(types) /\ q.outcome = "read"
                /\ e.lost = q.lost /\ e.value = Compound(q.value)
          /\ Same(m, t, types, sTypes, vs) => e.outcome = "read" /\ ~e.lost
      BY <1>1, <1>4, <2>10, <2>11, ContainerRead
    <3> QED BY <2>8, <2>12, <3>1
  <2>14. r.outcome = "read" /\ ~r.lost =>
            r.value \in ValuesTo[n] /\ AppendTo[n][t][r.value] = w
    <3> SUFFICES ASSUME r.outcome = "read" /\ ~r.lost
                 PROVE  r.value \in ValuesTo[n] /\ AppendTo[n][t][r.value] = w
      OBVIOUS
    <3> DEFINE parts == q.value
    <3>1. r.value = Compound(parts) /\ q.outcome = "read" /\ ~q.lost /\ Len(types) = l
      BY <2>13
    <3>2. parts \in Seq(ValuesTo[m])
          /\ \A j \in 1..l : AppendTo[m][types[j]][parts[j]] = ps[j]
      BY <2>11, <3>1 DEF Partly
    <3> HIDE DEF parts
    <3>3. Compound(parts) \in ValuesTo[n] BY <1>1, <3>2 DEF ValuesOver, Compound, Texts
    <3>4. DOMAIN types = 1..l BY <1>4, <3>1, ListIs
    <3>5. AppendTo[n][t][Compound(parts)] = AppendTuple(single, t, Compound(parts))
      BY <3>3, AppendIs DEF single, m
    <3>6. Compound(parts).parts = parts BY DEF Compound
    <3>7. AppendTuple(single, t, Compound(parts)) =
            Container(TupleType(t), Signatures(types),
                      [k \in 1..l |-> single[types[k]][parts[k]]])
      BY <3>4, <3>6 DEF AppendTuple, types
    <3>8. [k \in 1..l |-> single[types[k]][parts[k]]] = ps
      BY <2>7, <3>2 DEF single
    <3>9. Container(TupleType(t), Signatures(types), ps) = w BY <1>8, <2>6
    <3> QED BY <3>1, <3>3, <3>5, <3>7, <3>8, <3>9
  <2>15. ASSUME s = t, t \in UnambiguousTo[n]
         PROVE  /\ r.outcome = "read" /\ ~r.lost
                /\ t \in ConvertingTo[n] \/ r.value = v
                /\ t.kind = "pair" /\ t.of[1].kind \in Kinds =>
                    r.value.parts[1] = v.parts[1]
    <3>1. types = sTypes BY <2>15 DEF types, sTypes
    <3>2. Len(types) = l /\ DOMAIN types = 1..l /\ \A k \in 1..l : types[k] \in TypesTo[m]
      BY <2>5, <3>1 DEF l
    <3>3. \A k \in 1..l : types[k] \in UnambiguousTo[m]
      BY <1>1, <2>15, <3>2, UnambiguousIs, MonostateIsNoType DEF types, m
    <3>4. t.kind # "map" OBVIOUS
    <3>5. Same(m, t, types, sTypes, vs)
      BY <3>1, <3>2, <3>3, <3>4 DEF Same
    <3>6. r.outcome = "read" /\ ~r.lost /\ q.outcome = "read" /\ ~q.lost
          /\ r.value = Compound(q.value)
      BY <2>13, <3>5
    <3>8. \A j \in 1..l : Converts(m, types[j])
                          \/ q.value[j] = vs[j]
      BY <2>11, <3>2, <3>5 DEF Partly, Converts
    <3>7. ASSUME t \notin ConvertingTo[n] PROVE r.value = v
      <4>1. \A k \in 1..l : types[k] \notin ConvertingTo[m]
        BY <3>2, <3>7, NotConverting DEF types, m
      <4>2. q.value \in Seq(ValuesTo[m]) /\ Len(q.value) = l
        BY <2>11, <3>2, <3>6 DEF Partly
      <4>4. \A j \in 1..l : q.value[j] = vs[j] BY <3>8, <4>1 DEF Converts
      <4>5. q.value = vs
        <5>1. q.value = [j \in 1..l |-> q.value[j]] BY <4>2, ListIs
        <5> QED BY <2>4, <4>4, <5>1
      <4> QED BY <2>4, <3>6, <4>5
    <3>9. t.of[1].kind \in Kinds => r.value.parts[1] = v.parts[1]
      <4>1. 1 \in 1..l
        <5>1. t.of # <<>> BY <1>4, TypesAre
        <5>2. 1 \in 1..Len(types) BY <1>4, <5>1, ListIs DEF types
        <5> QED BY <3>2, <5>2
      <4>2. types[1].kind \in Kinds => q.value[1] = vs[1] BY <3>8, <4>1 DEF Converts
      <4>3. Compound(q.value).parts = q.value BY DEF Compound
      <4> QED BY <3>6, <4>2, <4>3 DEF types, vs
    <3> QED BY <3>6, <3>7, <3>9
  <2> QED BY <1>4, <2>13, <2>14, <2>15 DEF Reads, Converts, r, w
<1> QED BY <1>7, <1>8

LEMMA AlternativesAre ==
    ASSUME MaxNesting \in Nat, NEW n \in 0..MaxNesting, NEW t \in TypesTo[n],
           t.kind = "variant", NEW k \in DOMAIN t.of
    PROVE  /\ k \in Nat /\ t.of[k] \in TypesTo[n - 1] \cup {Monostate}
           /\ t.of[k] # Monostate => t.of[k] \in TypesTo[n - 1]
           /\ t.of[k].kind # "monostate" => t.of[k] \in TypesTo[n - 1]
           /\ Signature[t.of[k]] # <<>> => t.of[k] \in TypesTo[n - 1]
<1>1. n - 1 \in 0..MaxNesting /\ t.of \in Seq(TypesTo[n - 1] \cup {Monostate})
  BY TypesAre, KindsAre DEF Compounds
<1>2. k \in 1..Len(t.of) /\ Len(t.of) \in Nat /\ t.of[k] \in TypesTo[n - 1] \cup {Monostate}
  BY <1>1, ListIs
<1>3. Monostate.kind = "monostate" BY DEF Monostate, Basic
<1>4. Signature[Monostate] = <<>> BY SignatureIs
<1> QED BY <1>2, <1>3, <1>4

(* What a string is converted to. *)
LEMMA ConvertIs ==
    ASSUME MaxNesting \in Nat, NEW n \in 0..MaxNesting, NEW t \in TypesTo[n] \cup {Monostate},
           NEW data \in Texts
    PROVE  /\ t.kind = "enum" =>
                ConvertTo[n][t][data] = {Datum(d) : d \in {data} \cap Enumerators}
           /\ t.kind \notin {"enum", "variant"} => ConvertTo[n][t][data] = {}
           /\ t.kind = "variant" =>
                LET able == {k \in DOMAIN t.of : ConvertTo[n - 1][t.of[k]][data] # {}}
                    strings == {k \in DOMAIN t.of : t.of[k].kind = "string"}
                IN ConvertTo[n][t][data] =
                    IF able # {}
                    THEN {Alternative(Min(able), v) :
                            v \in ConvertTo[n - 1][t.of[Min(able)]][data]}
                    ELSE {Alternative(k, Datum(data)) : k \in strings}
<1>1. Monostate.kind = "monostate" BY DEF Monostate, Basic
<1>2. CASE n = 0
  <2>1. t = Monostate BY <1>2, TypesToIs
  <2>2. ConvertTo[n] = [x \in {Monostate} |-> [d \in Texts |-> {}]] BY <1>2, ConvertToIs
  <2> QED BY <1>1, <2>1, <2>2
<1>3. CASE n # 0
  <2> DEFINE Able(x, d) == {k \in DOMAIN x.of : ConvertTo[n - 1][x.of[k]][d] # {}}
             Strs(x) == {k \in DOMAIN x.of : x.of[k].kind = "string"}
             Body(x, d) ==
                CASE x.kind = "enum" -> {Datum(e) : e \in {d} \cap Enumerators}
                  [] x.kind = "variant" /\ Able(x, d) # {} ->
                        {Alternative(Min(Able(x, d)), v) :
                            v \in ConvertTo[n - 1][x.of[Min(Able(x, d))]][d]}
                  [] x.kind = "variant" /\ Able(x, d) = {} ->
                        {Alternative(k, Datum(d)) : k \in Strs(x)}
                  [] OTHER -> {}
  <2>1. ConvertTo[n] = [x \in TypesTo[n] \cup {Monostate} |-> [d \in Texts |-> Body(x, d)]]
    BY <1>3, ConvertToIs DEF ConvertOver
  <2> HIDE DEF Body
  <2>2. ConvertTo[n][t][data] = Body(t, data) BY <2>1
  <2>3. t.kind \notin {"enum", "variant"} => Body(t, data) = {} BY DEF Body
  <2>4. t.kind = "enum" => Body(t, data) = {Datum(d) : d \in {data} \cap Enumerators}
    BY DEF Body
  <2>5. t.kind = "variant" =>
            Body(t, data) = IF Able(t, data) # {}
                            THEN {Alternative(Min(Able(t, data)), v) :
                                    v \in ConvertTo[n - 1][t.of[Min(Able(t, data))]][data]}
                            ELSE {Alternative(k, Datum(data)) : k \in Strs(t)}
    BY DEF Body
  <2> QED BY <2>2, <2>3, <2>4, <2>5
<1> QED BY <1>2, <1>3

(* A string that has been sent as an enumerator or a string, read as a variant. *)
LEMMA StringReadsBack ==
    ASSUME MaxNesting \in Nat, VectorLengths \cup MapLengths \subseteq Nat,
           NEW n \in 0..MaxNesting, NEW t \in TypesTo[n], t.kind = "variant",
           NEW a \in TypesTo[n - 1], a.kind \in {"string", "enum"},
           NEW x \in ValuesOfTo[n - 1][a], x \in ValuesTo[n - 1],
           NEW ws \in Seq(ElementsTo[n]),
           ws[1] = Container("v", <<"s">>, <<AppendTo[n - 1][a][x]>>)
    PROVE  LET r == ReadConverted(ConvertTo[n][t][ws[1].parts[1].data], t, ws) IN
           /\ r.outcome = "read" => r.rest = Tail(ws)
           /\ r.outcome = "read" /\ ~r.lost =>
                r.value \in ValuesTo[n] /\ AppendTo[n][t][r.value] = ws[1]
           /\ \A k \in DOMAIN t.of : t \in UnambiguousTo[n] /\ t.of[k] = a =>
                r.outcome = "read" /\ ~r.lost
           /\ \A k \in DOMAIN t.of :
                t \in UnambiguousTo[n] /\ t \notin ConvertingTo[n] /\ t.of[k] = a =>
                    r.value = Alternative(k, x)
<1> DEFINE m == n - 1
           w == ws[1]
           y == AppendTo[m][a][x]
           data == w.parts[1].data
           Converted(k) == ConvertTo[m][t.of[k]][data]
           able == {k \in DOMAIN t.of : Converted(k) # {}}
           values == ConvertTo[n][t][data]
           u == CHOOSE u \in values : TRUE
           j == u.alt
           z == u.parts[1]
           b == t.of[j]
           r == ReadConverted(values, t, ws)
           got == Got(u, Tail(ws), b.kind = "variant")
<1>1. n # 0 /\ m \in 0..MaxNesting /\ ValuesTo[n] = ValuesOver(ValuesTo[m])
  BY TypesToIs, ValuesToIs, TypesAre
<1>2. m # 0 /\ ValuesTo[m] = ValuesOver(ValuesTo[m - 1])
  <2>1. m # 0 BY <1>1, TypesToIs
  <2> QED BY <1>1, <2>1, ValuesToIs
<1>3. Failed("badEnum").outcome # "read" BY GotIs
<1>4. r = IF values = {} THEN Failed("badEnum") ELSE got BY DEF ReadConverted
<1>5. a.kind \in Kinds /\ Code[a.kind] = "s" BY KindsAre, CodesAre
<1>6. y = AppendBasic(a, x) BY <1>1, <1>5, AppendIs
<1>11. w = Container("v", <<"s">>, <<y>>) OBVIOUS
<1>7. w.parts[1] = y
  <2> HIDE DEF w, y
  <2>1. w.parts = <<y>> BY <1>11 DEF Container
  <2> QED BY <2>1
<1>8. data = x.data
  <2>1. y.data = x.data BY <1>6 DEF AppendBasic
  <2> QED BY <1>7, <2>1
<1>9. x = Datum(data) /\ data \in Data[a.kind] /\ data \in Texts
  <2>1. x = Datum(x.data) /\ x.data \in Data[a.kind] BY <1>1, <1>5, ValuesOfAre
  <2> QED BY <1>5, <1>8, <2>1, DataAre
<1>10. y = [code |-> "s", contents |-> <<>>, data |-> data, parts |-> <<>>]
  BY <1>5, <1>6, <1>8 DEF AppendBasic
<1> HIDE DEF m, w, y, data
<1>12. got.outcome = "read" /\ got.rest = Tail(ws) /\ (got.lost <=> b.kind = "variant")
       /\ got.value = u
  <2> HIDE DEF b, u
  <2> QED BY DEF Got
<1>13. \A k \in DOMAIN t.of : k \in Nat /\ t.of[k] \in TypesTo[m] \cup {Monostate}
  BY AlternativesAre DEF m
<1> HIDE DEF r, got, u
(* The alternatives that the string can be converted to. *)
<1>14. \A k \in able : t.of[k].kind \in {"enum", "variant"}
  <2> SUFFICES ASSUME NEW k \in able PROVE t.of[k].kind \in {"enum", "variant"} OBVIOUS
  <2> QED BY <1>1, <1>9, <1>13, ConvertIs
<1>15. \A k \in DOMAIN t.of : t.of[k].kind = "enum" =>
            Converted(k) = {Datum(d) : d \in {data} \cap Enumerators}
  BY <1>1, <1>9, <1>13, ConvertIs
<1>16. values = IF able # {} THEN {Alternative(Min(able), v) : v \in Converted(Min(able))}
                ELSE {Alternative(k, Datum(data)) :
                        k \in {l \in DOMAIN t.of : t.of[l].kind = "string"}}
  BY <1>9, ConvertIs DEF m
<1> HIDE DEF values, able
<1>17. able # {} => Min(able) \in able /\ \A k \in able : Min(able) <= k
  <2>1. able \in SUBSET Nat BY <1>13 DEF able
  <2> QED BY <2>1, MinOf
<1>18. \A k \in able : k \in DOMAIN t.of /\ Converted(k) # {} BY DEF able
<1> HIDE DEF Converted
<1>19. values # {} =>
        /\ u = Alternative(j, z) /\ j \in DOMAIN t.of
        /\ able # {} => j = Min(able) /\ z \in Converted(j)
        /\ able = {} => b.kind = "string" /\ z = Datum(data)
  <2> SUFFICES ASSUME values # {}
               PROVE  /\ u = Alternative(j, z) /\ j \in DOMAIN t.of
                      /\ able # {} => j = Min(able) /\ z \in Converted(j)
                      /\ able = {} => b.kind = "string" /\ z = Datum(data)
    OBVIOUS
  <2>1. u \in values BY DEF u
  <2>2. CASE able # {}
    <3>1. PICK v \in Converted(Min(able)) : u = Alternative(Min(able), v) BY <1>16, <2>1, <2>2
    <3>2. j = Min(able) /\ z = v BY <3>1 DEF Alternative
    <3> QED BY <1>17, <1>18, <2>2, <3>1, <3>2
  <2>3. CASE able = {}
    <3>1. PICK k \in DOMAIN t.of : t.of[k].kind = "string" /\ u = Alternative(k, Datum(data))
      BY <1>16, <2>1, <2>3
    <3>2. j = k /\ z = Datum(data) BY <3>1 DEF Alternative
    <3> QED BY <2>3, <3>1, <3>2
  <2> QED BY <2>2, <2>3
<1> HIDE DEF j, z
<1>20. values # {} /\ b.kind # "variant" => b.kind \in {"enum", "string"} /\ z = Datum(data)
  <2> SUFFICES ASSUME values # {}, b.kind # "variant", able # {}
               PROVE  b.kind \in {"enum", "string"} /\ z = Datum(data)
    BY <1>19
  <2>1. j \in able /\ z \in Converted(j) BY <1>17, <1>19
  <2>2. b.kind = "enum" BY <1>14, <2>1
  <2> QED BY <1>15, <1>19, <2>1, <2>2
<1>21. r.outcome = "read" => values # {} /\ r = got BY <1>3, <1>4
<1>22. r.outcome = "read" /\ ~r.lost =>
        r.value \in ValuesTo[n] /\ AppendTo[n][t][r.value] = w
  <2> SUFFICES ASSUME r.outcome = "read" /\ ~r.lost
               PROVE  r.value \in ValuesTo[n] /\ AppendTo[n][t][r.value] = w
    OBVIOUS
  <2>1. r.value = u /\ u = Alternative(j, z) /\ z = Datum(data) /\ b.kind \in {"enum", "string"}
        /\ j \in DOMAIN t.of /\ j \in Nat
    BY <1>12, <1>13, <1>19, <1>20, <1>21
  <2>2. b \in TypesTo[m] BY <2>1, AlternativesAre DEF m
  <2>3. z \in ValuesTo[m] BY <1>2, <1>9, <2>1 DEF ValuesOver, Datum
  <2>4. u \in ValuesTo[n]
    <3>1. <<z>> \in Seq(ValuesTo[m])
      <4> DEFINE V == ValuesTo[m]
      <4>1. z \in V BY <2>3
      <4> HIDE DEF V
      <4>2. <<z>> \in Seq(V) BY <4>1
      <4> QED BY <4>2 DEF V
    <3> QED BY <1>1, <2>1, <3>1 DEF ValuesOver, Alternative, Texts
  <2>5. AppendTo[n][t][u] = AppendVariant(AppendTo[m], t, u) BY <2>4, AppendIs DEF m
  <2>6. u.alt = j /\ u.parts[1] = z BY DEF j, z
  <2> HIDE DEF b
  <2>7. AppendVariant(AppendTo[m], t, u) = Container("v", Signature[b], <<AppendTo[m][b][z]>>)
    BY <2>6 DEF AppendVariant, b
  <2>8. Signature[b] = <<"s">> BY <1>1, <2>1, <2>2, SignatureIs
  <2>9. AppendTo[m][b][z] = y
    <3>1. b.kind \in Kinds /\ Code[b.kind] = "s" BY <2>1, KindsAre, CodesAre
    <3>2. AppendTo[m][b][z] = AppendBasic(b, z) BY <1>1, <2>2, <2>3, <3>1, AppendIs
    <3> QED BY <1>10, <2>1, <3>1, <3>2 DEF AppendBasic, Datum
  <2> QED BY <1>11, <2>1, <2>4, <2>5, <2>7, <2>8, <2>9
(* The alternative that was sent, k: it is found, and none takes the string. *)
<1>23. ASSUME NEW k \in DOMAIN t.of, t.of[k] = a, a.kind = "enum"
       PROVE  k \in able
  <2>1. data \in Enumerators BY <1>9, <1>23, DataAre DEF Enumerators
  <2>2. Datum(data) \in Converted(k) BY <1>15, <1>23, <2>1
  <2> QED BY <2>2 DEF able
<1>24. ASSUME NEW k \in DOMAIN t.of, t.of[k] = a PROVE r.outcome = "read"
  <2>1. values # {}
    <3>1. CASE able # {}
      <4>1. Converted(Min(able)) # {} BY <1>17, <1>18, <3>1
      <4> QED BY <1>16, <3>1, <4>1
    <3>2. CASE able = {}
      <4>1. a.kind = "string" BY <1>23, <1>24, <3>2
      <4>2. Alternative(k, Datum(data)) \in values BY <1>16, <1>24, <3>2, <4>1
      <4> QED BY <4>2
    <3> QED BY <3>1, <3>2
  <2> QED BY <1>4, <1>12, <2>1
<1>25. ASSUME NEW k \in DOMAIN t.of, t \in UnambiguousTo[n], t.of[k] = a
       PROVE  r.outcome = "read" /\ ~r.lost
  <2>1. r.outcome = "read" /\ values # {} /\ r = got BY <1>21, <1>24, <1>25
  <2>2. ASSUME b.kind = "variant" PROVE FALSE
    <3>1. j \in able /\ j = Min(able) /\ Converted(j) # {}
      BY <1>17, <1>18, <1>19, <2>1, <2>2
    <3>2. j \in DOMAIN t.of /\ j \in Nat /\ k \in Nat BY <1>13, <1>18, <3>1
    <3>3. ~Takes(n, t, j, k) BY <1>25, <3>2, UnambiguousIs
    <3>4. \E d \in Texts : ConvertTo[n - 1][t.of[j]][d] # {}
      BY <1>9, <3>1 DEF Converted, m
    <3>5. a.kind = "enum" => j < k
      <4> SUFFICES ASSUME a.kind = "enum" PROVE j < k OBVIOUS
      <4>1. j <= k BY <1>17, <1>23, <1>25, <3>1
      <4>2. j # k BY <1>25, <2>2
      <4> QED BY <3>2, <4>1, <4>2
    <3> QED BY <1>25, <2>2, <3>3, <3>4, <3>5 DEF Takes
  <2> QED BY <1>12, <2>1, <2>2
<1>26. ASSUME NEW k \in DOMAIN t.of, t \in UnambiguousTo[n], t \notin ConvertingTo[n],
              t.of[k] = a
       PROVE  r.value = Alternative(k, x)
  <2>1. r.outcome = "read" /\ values # {} /\ r = got /\ b.kind # "variant"
    BY <1>12, <1>21, <1>25, <1>26
  <2>2. b.kind \in {"enum", "string"} /\ z = x /\ j \in DOMAIN t.of BY <1>9, <1>19, <1>20, <2>1
  <2>3. b.kind = a.kind
    <3>1. ~(b.kind = "enum" /\ a.kind = "string") /\ ~(a.kind = "enum" /\ b.kind = "string")
      BY <1>26, <2>2, NotConverting
    <3> QED BY <2>2, <3>1
  <2>4. j = k
    <3> SUFFICES ASSUME j # k PROVE FALSE OBVIOUS
    <3>1. b \in TypesTo[m] BY <2>2, AlternativesAre DEF m
    <3>2. Signature[b] = Signature[a]
      <4>1. Signature[b] = <<"s">> BY <1>1, <2>2, <3>1, SignatureIs
      <4>2. Signature[a] = <<"s">> BY <1>1, SignatureIs DEF m
      <4> QED BY <4>1, <4>2
    <3>3. \A i, l \in DOMAIN t.of :
            i # l /\ Signature[t.of[i]] = Signature[t.of[l]] =>
                {t.of[i].kind, t.of[l].kind} = {"enum", "string"}
      BY <1>26, UnambiguousIs
    <3>4. {b.kind, a.kind} = {"enum", "string"} BY <1>26, <2>2, <3>2, <3>3
    <3> QED BY <2>3, <3>4
  <2> QED BY <1>12, <1>19, <2>1, <2>2, <2>4
<1>27. /\ r.outcome = "read" => r.rest = Tail(ws)
       /\ r.outcome = "read" /\ ~r.lost =>
            r.value \in ValuesTo[n] /\ AppendTo[n][t][r.value] = w
       /\ \A k \in DOMAIN t.of : t \in UnambiguousTo[n] /\ t.of[k] = a =>
            r.outcome = "read" /\ ~r.lost
       /\ \A k \in DOMAIN t.of :
            t \in UnambiguousTo[n] /\ t \notin ConvertingTo[n] /\ t.of[k] = a =>
                r.value = Alternative(k, x)
  BY <1>12, <1>21, <1>22, <1>25, <1>26
<1> QED BY <1>27 DEF r, values, w, data

LEMMA VariantReadsBack ==
    ASSUME MaxNesting \in Nat, VectorLengths \cup MapLengths \subseteq Nat,
           NEW n \in 0..MaxNesting, Sound(n - 1), ReadsBack(n - 1),
           NEW s \in TypesTo[n], NEW v \in ValuesOfTo[n][s],
           v \in ValuesTo[n], NEW t \in TypesTo[n], t.kind = "variant",
           NEW ws \in Seq(ElementsTo[n]), ws # <<>>, ws[1] = AppendTo[n][s][v]
    PROVE  Reads(n, s, v, t, ws)
<1> DEFINE w == ws[1]
           r == ReadTo[n][t][ws]
           m == n - 1
           single == AppendTo[m]
           match == {k \in DOMAIN t.of : MayEnter("v", Signature[t.of[k]], ws)}
           a == s.of[v.alt]
           x == v.parts[1]
           y == single[a][x]
<1>1. n # 0 /\ m \in 0..MaxNesting /\ ValuesTo[n] = ValuesOver(ValuesTo[m])
  BY TypesToIs, ValuesToIs
<1>2. r = ReadVariant(ReadTo[m], ConvertTo[n][t], t, ws) BY ReadIs
<1>3. Failed("mistyped").outcome # "read" BY GotIs
<1>4. t.kind \notin Kinds /\ t.kind # "pair" BY KindsAre
<1>5. w = AppendTo[n][s][v] OBVIOUS
<1>6. ws[1].code = w.code /\ w = ws[1] OBVIOUS
<1> HIDE DEF r, w
<1>7. CASE w.code # "v"
  <2>1. r.outcome # "read" BY <1>2, <1>3, <1>6, <1>7 DEF ReadVariant
  <2>2. s # t BY <1>5, <1>7, CodeOfAppended
  <2> QED BY <2>1, <2>2 DEF Reads, r
<1>8. CASE w.code = "v"
  <2>1. s.kind = "variant" BY <1>5, <1>8, CodeOfAppended
  <2>2. w = AppendVariant(single, s, v) BY <1>5, <2>1, AppendIs
  <2>3. a \in TypesTo[m] /\ v.alt \in DOMAIN s.of /\ x \in ValuesOfTo[m][a]
        /\ v = Alternative(v.alt, x)
    BY <2>1, AlternativeIs, ValuesOfAre
  <2>4. w = Container("v", Signature[a], <<y>>) BY <2>2 DEF AppendVariant
  <2> HIDE DEF m, single, a, x, match
  <2>5. x \in ValuesTo[m] /\ y \in ElementsTo[m] BY <2>3 DEF Sound, m, single
  <2> HIDE DEF y
  <2>6. w.contents = Signature[a] /\ w.parts = <<y>> BY <2>4 DEF Container
  <2>7. match = {k \in DOMAIN t.of : Signature[t.of[k]] = Signature[a]}
    BY <1>6, <1>8, <2>6 DEF match, MayEnter
  <2>8. Signature[a] # <<>> BY <1>1, <2>3, SignatureIs
  <2>9. s = t => v.alt \in match BY <2>3, <2>7 DEF a
  <2>10. r = IF match = {} THEN SkipUnmatched(t, ws)
             ELSE ReadAlternative(ReadTo[m], ConvertTo[n][t], t, Min(match), ws)
    BY <1>2, <1>6, <1>8 DEF ReadVariant, match
  <2>11. CASE match = {}
    <3>1. r = Got(Default[t], Tail(ws), TRUE) BY <2>10, <2>11 DEF SkipUnmatched
    <3>2. LET got == Got(Default[t], Tail(ws), TRUE) IN got.lost /\ got.rest = Tail(ws)
      BY DEF Got
    <3>3. r.lost /\ r.rest = Tail(ws) BY <3>1, <3>2
    <3> QED BY <2>9, <2>11, <3>3 DEF Reads, r
  <2>12. CASE match # {}
    <3> DEFINE k == Min(match)
               b == t.of[k]
               got == ReadTo[m][b][<<y>>]
               all == Got(Alternative(k, got.value), Tail(ws), got.lost)
    <3>1. k \in match
      <4>1. match \in SUBSET Nat BY <2>7, AlternativesAre
      <4> QED BY <2>12, <4>1, MinOf
    <3>2. k \in Nat /\ k \in DOMAIN t.of /\ Signature[b] = Signature[a]
      BY <2>7, <3>1, AlternativesAre
    <3>3. b \in TypesTo[m] BY <2>8, <3>2, AlternativesAre DEF m
    <3>4. r = ReadAlternative(ReadTo[m], ConvertTo[n][t], t, k, ws) BY <2>10, <2>12
    <3> HIDE DEF k
    <3>5. CASE b.kind \in {"enum", "string"}
      <4>1. Signature[a] = <<"s">> /\ a.kind \in {"string", "enum"}
        BY <1>1, <2>3, <3>2, <3>3, <3>5, SignatureIs
      <4> DEFINE e == ReadConverted(ConvertTo[n][t][ws[1].parts[1].data], t, ws)
      <4>2. r = e BY <3>4, <3>5 DEF ReadAlternative
      <4> HIDE DEF e
      <4>3. ws[1] = Container("v", <<"s">>, <<AppendTo[m][a][x]>>)
        BY <1>6, <2>4, <4>1 DEF y, single
      <4>4. /\ e.outcome = "read" => e.rest = Tail(ws)
            /\ e.outcome = "read" /\ ~e.lost =>
                e.value \in ValuesTo[n] /\ AppendTo[n][t][e.value] = ws[1]
            /\ \A j \in DOMAIN t.of : t \in UnambiguousTo[n] /\ t.of[j] = a =>
                e.outcome = "read" /\ ~e.lost
            /\ \A j \in DOMAIN t.of :
                t \in UnambiguousTo[n] /\ t \notin ConvertingTo[n] /\ t.of[j] = a =>
                    e.value = Alternative(j, x)
        BY <2>3, <2>5, <4>1, <4>3, StringReadsBack DEF m, e
      <4>5. /\ r.outcome = "read" => r.rest = Tail(ws)
            /\ r.outcome = "read" /\ ~r.lost =>
                r.value \in ValuesTo[n] /\ AppendTo[n][t][r.value] = w
            /\ \A j \in DOMAIN t.of : t \in UnambiguousTo[n] /\ t.of[j] = a =>
                r.outcome = "read" /\ ~r.lost
            /\ \A j \in DOMAIN t.of :
                t \in UnambiguousTo[n] /\ t \notin ConvertingTo[n] /\ t.of[j] = a =>
                    r.value = Alternative(j, x)
        BY <1>6, <4>2, <4>4
      <4>6. s = t => v.alt \in DOMAIN t.of /\ t.of[v.alt] = a BY <2>3 DEF a
      <4> QED BY <1>4, <2>3, <4>5, <4>6 DEF Reads, Converts, r, w
    <3>6. CASE b.kind \notin {"enum", "string"}
      <4>1. r = IF got.outcome = "read" THEN all ELSE got
        BY <1>6, <2>6, <3>4, <3>6 DEF ReadAlternative
      <4>2. <<y>> \in Seq(ElementsTo[m]) /\ <<y>> # <<>> /\ <<y>>[1] = AppendTo[m][a][x]
        <5> DEFINE E == ElementsTo[m]
        <5>1. y \in E /\ y = AppendTo[m][a][x] BY <2>5 DEF y, single
        <5> HIDE DEF E
        <5>2. <<y>> \in Seq(E) /\ <<y>> # <<>> /\ <<y>>[1] = y BY <5>1
        <5> QED BY <5>1, <5>2 DEF E
      <4>3. Reads(m, a, x, b, <<y>>) BY <2>3, <3>3, <4>2 DEF ReadsBack, m
      <4>4. got.outcome = "read" /\ ~got.lost =>
                got.value \in ValuesTo[m] /\ AppendTo[m][b][got.value] = y
        BY <4>2, <4>3 DEF Reads
      <4> HIDE DEF got
      <4>5. all.outcome = "read" /\ all.rest = Tail(ws) /\ all.lost = got.lost
            /\ all.value = Alternative(k, got.value)
        BY DEF Got
      <4> HIDE DEF all
      <4>6. r.outcome = "read" =>
                got.outcome = "read" /\ r.rest = Tail(ws) /\ r.lost = got.lost
                /\ r.value = Alternative(k, got.value)
        BY <4>1, <4>5
      <4>7. r.outcome = "read" /\ ~r.lost =>
                r.value \in ValuesTo[n] /\ AppendTo[n][t][r.value] = w
        <5> SUFFICES ASSUME r.outcome = "read" /\ ~r.lost
                     PROVE  r.value \in ValuesTo[n] /\ AppendTo[n][t][r.value] = w
          OBVIOUS
        <5> DEFINE z == got.value
                   u == Alternative(k, z)
        <5>1. z \in ValuesTo[m] /\ AppendTo[m][b][z] = y BY <4>4, <4>6
        <5> HIDE DEF z
        <5>2. u \in ValuesTo[n]
          <6> DEFINE V == ValuesTo[m]
          <6>1. z \in V BY <5>1
          <6> HIDE DEF V
          <6>2. <<z>> \in Seq(V) BY <6>1
          <6> QED BY <1>1, <3>2, <6>2 DEF ValuesOver, Alternative, Texts, V
        <5>3. AppendTo[n][t][u] = AppendVariant(AppendTo[m], t, u) BY <5>2, AppendIs DEF m
        <5>4. u.alt = k /\ u.parts[1] = z BY DEF Alternative
        <5>5. AppendVariant(AppendTo[m], t, u) = Container("v", Signature[b], <<y>>)
          BY <5>1, <5>4 DEF AppendVariant
        <5>6. r.value = u BY <4>6 DEF z
        <5> HIDE DEF u
        <5> QED BY <2>4, <3>2, <5>2, <5>3, <5>5, <5>6
      <4>8. ASSUME s = t, t \in UnambiguousTo[n]
            PROVE  /\ r.outcome = "read" /\ ~r.lost
                   /\ t \in ConvertingTo[n] \/ r.value = v
        <5>1. v.alt \in DOMAIN t.of /\ t.of[v.alt] = a /\ v.alt \in match
          BY <2>3, <2>9, <4>8 DEF a
        <5>2. k = v.alt
          <6> SUFFICES ASSUME k # v.alt PROVE FALSE OBVIOUS
          <6>1. {b.kind, a.kind} = {"enum", "string"} BY <3>1, <3>2, <4>8, <5>1, ToldApart
          <6> QED BY <3>6, <6>1
        <5>3. b = a BY <5>1, <5>2
        <5>4. a \in UnambiguousTo[m]
          <6>1. t.of[v.alt] \in UnambiguousTo[m] \cup {Monostate}
            BY <4>8, <5>1, UnambiguousIs DEF m
          <6> QED BY <1>1, <2>3, <5>1, <6>1, MonostateIsNoType
        <5>5. got.outcome = "read" /\ ~got.lost /\ (a \in ConvertingTo[m] \/ got.value = x)
          BY <4>3, <5>3, <5>4 DEF Reads, Converts, got
        <5>6. r = all BY <4>1, <5>5
        <5>7. r.outcome = "read" /\ ~r.lost /\ r.value = Alternative(v.alt, got.value)
          BY <4>5, <5>2, <5>5, <5>6
        <5>8. t \in ConvertingTo[n] \/ got.value = x
          <6>1. t \notin ConvertingTo[n] => a \notin ConvertingTo[m]
            BY <5>1, NotConverting DEF m
          <6> QED BY <5>5, <6>1
        <5> QED BY <2>3, <5>7, <5>8
      <4> QED BY <1>4, <4>6, <4>7, <4>8 DEF Reads, Converts, r, w
    <3> QED BY <3>5, <3>6
  <2> QED BY <2>11, <2>12
<1> QED BY <1>7, <1>8

(* Whatever is sent is read back, at every level. *)
LEMMA EverythingReadsBack ==
    ASSUME MaxNesting \in Nat, VectorLengths \cup MapLengths \subseteq Nat
    PROVE  \A n \in 0..MaxNesting : ReadsBack(n)
<1> DEFINE S == {m \in Nat : m <= MaxNesting => ReadsBack(m)}
<1>1. 0 \in S
  <2>1. TypesTo[0] = {} BY TypesToIs
  <2> QED BY <2>1 DEF ReadsBack
<1>2. ASSUME NEW m \in S PROVE m + 1 \in S
  <2> SUFFICES ASSUME m + 1 <= MaxNesting PROVE ReadsBack(m + 1) OBVIOUS
  <2> DEFINE n == m + 1
  <2>1. ReadsBack(m) /\ n \in 0..MaxNesting /\ n - 1 = m /\ m \in 0..MaxNesting OBVIOUS
  <2>2. Sound(m) /\ Sound(n) BY <2>1, AppendedIsElement
  <2> HIDE DEF S, n
  <2> SUFFICES ASSUME NEW s \in TypesTo[n], NEW t \in TypesTo[n], NEW v \in ValuesOfTo[n][s],
                      NEW ws \in Seq(ElementsTo[n]), ws # <<>>, ws[1] = AppendTo[n][s][v]
               PROVE  Reads(n, s, v, t, ws)
    BY DEF ReadsBack, n
  <2>3. v \in ValuesTo[n] BY <2>2 DEF Sound
  <2>4. Sound(n - 1) /\ ReadsBack(n - 1) BY <2>1, <2>2
  <2>5. CASE t.kind \in Kinds BY <2>1, <2>3, <2>5, BasicReadsBack
  <2>6. CASE t.kind \in {"vector", "map"} BY <2>1, <2>3, <2>4, <2>6, ArrayReadsBack
  <2>7. CASE t.kind \in {"pair", "tuple"} BY <2>1, <2>3, <2>4, <2>7, TupleReadsBack
  <2>8. CASE t.kind = "variant" BY <2>1, <2>3, <2>4, <2>8, VariantReadsBack
  <2> QED BY <2>1, <2>5, <2>6, <2>7, <2>8, TypesAre DEF Compounds
<1>3. S \in SUBSET Nat OBVIOUS
<1> HIDE DEF S
<1>4. \A m \in Nat : m \in S BY <1>1, <1>2, <1>3, SetOfAllNumbers
<1> QED BY <1>4 DEF S

(* What is appended for a value that is sent is an element. *)
LEMMA WrittenIsElement ==
    ASSUME MaxNesting \in Nat, VectorLengths \cup MapLengths \subseteq Nat,
           NEW s \in Types, NEW v \in ValuesOf[s]
    PROVE  AppendSingle[s][v] \in ElementsTo[MaxNesting]
<1>1. MaxNesting \in 0..MaxNesting OBVIOUS
<1>2. Sound(MaxNesting) BY <1>1, AppendedIsElement
<1> QED BY <1>2 DEF Sound, Types, ValuesOf, AppendSingle

(* What a receiver reads of the element that was appended for the value v of the
   type s, whatever its own type t is: the element is what it took from the
   message, and what its value would be sent as if nothing was lost; and if the
   types are the same and unambiguous, it succeeds and reads v, unless v is of
   variants that convert strings to enumerators (read_single). *)
THEOREM ReadsWhatWasWritten ==
    ASSUME MaxNesting \in Nat, VectorLengths \cup MapLengths \subseteq Nat,
           NEW s \in CompleteTypes, NEW v \in ValuesOf[s], NEW t \in CompleteTypes,
           NEW ws \in Seq(ElementsTo[MaxNesting]), ws # <<>>, ws[1] = AppendSingle[s][v]
    PROVE  LET r == ReadSingle[t][ws] IN
           /\ r.outcome = "read" => r.rest = Tail(ws)
           /\ r.outcome = "read" /\ ~r.lost => AppendSingle[t][r.value] = ws[1]
           /\ s = t /\ t \in Unambiguous =>
                /\ r.outcome = "read" /\ ~r.lost
                /\ t \in Converting \/ r.value = v
<1>1. MaxNesting \in 0..MaxNesting OBVIOUS
<1>2. ReadsBack(MaxNesting) BY <1>1, EverythingReadsBack
<1>3. Reads(MaxNesting, s, v, t, ws)
  BY <1>2 DEF ReadsBack, CompleteTypes, Types, ValuesOf, AppendSingle
<1> QED BY <1>3 DEF Reads, Converts, AppendSingle, ReadSingle, Converting, Unambiguous
=============================================================================
