------------------------ MODULE CommandBufferProofs ------------------------
(***************************************************************************)
(* Theorems about CommandBuffer: the text never outgrows the buffer, and   *)
(* lines are run as CommandStream promises.  They hold for every size of   *)
(* the buffer and all lengths of commands.  What is in the buffer, its     *)
(* size and its lines, is added up from the beginning of the text, so the  *)
(* lemmas about them are proved by induction over it.                      *)
(***************************************************************************)
EXTENDS CommandBuffer, RingLemmas

Text == Seq(Command \cup {Newline})

(***************************************************************************)
(* Induction over the beginnings of a text.                                *)
(***************************************************************************)
LEMMA UpTo ==
  ASSUME NEW n \in Nat, NEW T, 0 \in T, \A i \in 0 .. n - 1 : i \in T => i + 1 \in T
  PROVE  \A i \in 0 .. n : i \in T
<1> DEFINE U == {i \in Nat : i <= n => i \in T}
<1>1. 0 \in U
  OBVIOUS
<1>2. ASSUME NEW i \in Nat, i \in U PROVE i + 1 \in U
  <2>1. CASE i + 1 <= n
    <3>1. i \in 0 .. n - 1 /\ i \in T
      BY <1>2, <2>1
    <3> QED
      BY <3>1
  <2>2. CASE ~(i + 1 <= n)
    BY <2>2
  <2> QED
    BY <2>1, <2>2
<1>3. Nat \subseteq U
  BY <1>1, <1>2, Induction
<1> QED
  BY <1>3

(***************************************************************************)
(* One text behind another.                                                *)
(***************************************************************************)
LEMMA Joined ==
  ASSUME NEW S, NEW a \in Seq(S), NEW b \in Seq(S)
  PROVE  /\ a \o b \in Seq(S)
         /\ Len(a) \in Nat /\ Len(b) \in Nat
         /\ Len(a \o b) = Len(a) + Len(b)
         /\ \A i \in 1 .. Len(a) : i \in 1 .. Len(a \o b) /\ (a \o b)[i] = a[i]
         /\ \A i \in 1 .. Len(b) : Len(a) + i \in 1 .. Len(a \o b) /\ (a \o b)[Len(a) + i] = b[i]
  OBVIOUS

(***************************************************************************)
(* How two sequences are one.                                              *)
(***************************************************************************)
IsJoined(c, a, b) ==
    /\ Len(a) \in Nat /\ Len(b) \in Nat
    /\ Len(c) = Len(a) + Len(b)
    /\ \A i \in 1 .. Len(a) : i \in 1 .. Len(c) /\ c[i] = a[i]
    /\ \A i \in 1 .. Len(b) : Len(a) + i \in 1 .. Len(c) /\ c[Len(a) + i] = b[i]

(***************************************************************************)
(* Joining two sequences joins them so.                                    *)
(***************************************************************************)
LEMMA Join ==
  ASSUME NEW S, NEW a \in Seq(S), NEW b \in Seq(S)
  PROVE  a \o b \in Seq(S) /\ IsJoined(a \o b, a, b)
  BY Joined DEF IsJoined

(***************************************************************************)
(* Sequences with the same elements are the same.                          *)
(***************************************************************************)
LEMMA Same ==
  ASSUME NEW S, NEW a \in Seq(S), NEW b \in Seq(S), Len(a) = Len(b),
         \A i \in 1 .. Len(a) : a[i] = b[i]
  PROVE  a = b
  OBVIOUS

(***************************************************************************)
(* Texts behind each other can be taken together either way.               *)
(***************************************************************************)
LEMMA Regrouped ==
  ASSUME NEW a \in Text, NEW b \in Text, NEW c \in Text
  PROVE  (a \o b) \o c = a \o (b \o c)
  BY DEF Text

(***************************************************************************)
(* Two sequences of one, as one.                                           *)
(***************************************************************************)
LEMMA Two ==
  ASSUME NEW S, NEW e \in S, NEW f \in S
  PROVE  <<e>> \o <<f>> = <<e, f>>
<1> DEFINE a == <<e>>
           b == <<f>>
           ab == a \o b
           two == <<e, f>>
<1>1. a \in Seq(S) /\ Len(a) = 1 /\ a[1] = e /\ b \in Seq(S) /\ Len(b) = 1 /\ b[1] = f
  OBVIOUS
<1>2. two \in Seq(S) /\ Len(two) = 2 /\ two[1] = e /\ two[2] = f
  OBVIOUS
<1> HIDE DEF a, b, two
<1>3. ab \in Seq(S) /\ IsJoined(ab, a, b)
  BY <1>1, Join
<1> HIDE DEF ab
<1>4. Len(ab) = 2 /\ ab[1] = e /\ ab[2] = f
  BY <1>1, <1>3 DEF IsJoined
<1>5. \A i \in 1 .. Len(ab) : ab[i] = two[i]
  BY <1>2, <1>4
<1>6. ab = two
  BY <1>2, <1>3, <1>4, <1>5, Same
<1> QED
  BY <1>6 DEF ab, a, b, two

(***************************************************************************)
(* Three in one.                                                           *)
(***************************************************************************)
LEMMA Three ==
  ASSUME NEW S, NEW e \in S, NEW f \in S, NEW g \in S
  PROVE  (<<e>> \o <<f>>) \o <<g>> = <<e, f, g>>
<1> DEFINE a == <<e, f>>
           b == <<g>>
           ab == a \o b
           three == <<e, f, g>>
<1>1. /\ a \in Seq(S) /\ Len(a) = 2 /\ a[1] = e /\ a[2] = f
      /\ b \in Seq(S) /\ Len(b) = 1 /\ b[1] = g
  OBVIOUS
<1>2. three \in Seq(S) /\ Len(three) = 3 /\ three[1] = e /\ three[2] = f /\ three[3] = g
  OBVIOUS
<1>3. a = <<e>> \o <<f>>
  BY Two
<1> HIDE DEF a, b, three
<1>4. ab \in Seq(S) /\ IsJoined(ab, a, b)
  BY <1>1, Join
<1> HIDE DEF ab
<1>5. Len(ab) = 3 /\ ab[1] = e /\ ab[2] = f /\ ab[3] = g
  BY <1>1, <1>4 DEF IsJoined
<1>6. \A i \in 1 .. Len(ab) : ab[i] = three[i]
  BY <1>2, <1>5
<1>7. ab = three
  BY <1>2, <1>4, <1>5, <1>6, Same
<1> QED
  BY <1>3, <1>7 DEF ab, b, three

-----------------------------------------------------------------------------
(***************************************************************************)
(* The size of a text.                                                     *)
(***************************************************************************)
LEMMA ByteNumbers == ASSUME NEW c \in Command \cup {Newline} PROVE Bytes(c) \in Nat
  BY CommandBufferAssumption DEF Bytes, Newline

(***************************************************************************)
(* It is the sum of the bytes.                                             *)
(***************************************************************************)
LEMMA SizeSteps ==
  ASSUME NEW text \in Text
  PROVE  /\ SizeTo(text)[0] = 0
         /\ \A i \in 1 .. Len(text) : SizeTo(text)[i] = SizeTo(text)[i - 1] + Bytes(text[i])
<1> DEFINE n == Len(text)
           c == [i \in 0 .. n - 1 |-> Bytes(text[i + 1])]
<1>1. n \in Nat
  BY DEF Text
<1>3. \A i \in 1 .. n : c[i - 1] = Bytes(text[i])
  BY <1>1
<1> HIDE DEF c, n
<1>2. PICK g : IsSum(g, 0, 0 + n, 0, c)
  BY <1>1, SumExists
<1>4. g = [i \in 0 .. n |-> IF i = 0 THEN 0 ELSE g[i - 1] + Bytes(text[i])]
  <2>1. g = [i \in 0 .. n |-> IF i = 0 THEN 0 ELSE g[i - 1] + c[i - 1]]
    BY <1>1, <1>2 DEF IsSum
  <2>2. [i \in 0 .. n |-> IF i = 0 THEN 0 ELSE g[i - 1] + c[i - 1]]
        = [i \in 0 .. n |-> IF i = 0 THEN 0 ELSE g[i - 1] + Bytes(text[i])]
    BY <1>1, <1>3
  <2> QED
    BY <2>1, <2>2
<1>5. SizeTo(text) = [i \in 0 .. n |-> IF i = 0 THEN 0 ELSE SizeTo(text)[i - 1] + Bytes(text[i])]
  BY <1>4 DEF SizeTo, n
<1> QED
  BY <1>1, <1>5 DEF n

(***************************************************************************)
(* A size is a number.                                                     *)
(***************************************************************************)
LEMMA SizeNumbers ==
  ASSUME NEW text \in Text
  PROVE  Size(text) \in Nat /\ \A i \in 0 .. Len(text) : SizeTo(text)[i] \in Nat
<1> DEFINE n == Len(text)
           T == {i \in Nat : SizeTo(text)[i] \in Nat}
<1>1. n \in Nat /\ \A i \in 1 .. n : text[i] \in Command \cup {Newline}
  BY DEF Text
<1>2. 0 \in T
  BY SizeSteps
<1>3. ASSUME NEW i \in 0 .. n - 1, i \in T PROVE i + 1 \in T
  <2>1. i + 1 \in 1 .. n /\ (i + 1) - 1 = i
    BY <1>1
  <2>2. SizeTo(text)[i + 1] = SizeTo(text)[i] + Bytes(text[i + 1])
    BY <2>1, SizeSteps
  <2>3. Bytes(text[i + 1]) \in Nat
    BY <1>1, <2>1, ByteNumbers
  <2> QED
    BY <1>3, <2>2, <2>3
<1>4. \A i \in 0 .. n : i \in T
  BY <1>1, <1>2, <1>3, UpTo
<1> QED
  BY <1>1, <1>4 DEF Size

(***************************************************************************)
(* A text's beginnings have the same sizes whatever is behind them.        *)
(***************************************************************************)
LEMMA SizeOfStart ==
  ASSUME NEW a \in Text, NEW b \in Text
  PROVE  \A i \in 0 .. Len(a) : SizeTo(a \o b)[i] = SizeTo(a)[i]
<1> DEFINE n == Len(a)
           ab == a \o b
           T == {i \in Nat : SizeTo(ab)[i] = SizeTo(a)[i]}
<1>1. n \in Nat /\ ab \in Text /\ \A i \in 1 .. n : i \in 1 .. Len(ab) /\ ab[i] = a[i]
  BY Joined DEF Text
<1> HIDE DEF ab
<1>2. 0 \in T
  BY <1>1, SizeSteps
<1>3. ASSUME NEW i \in 0 .. n - 1, i \in T PROVE i + 1 \in T
  <2>1. i + 1 \in 1 .. n /\ (i + 1) - 1 = i
    BY <1>1
  <2>2. /\ SizeTo(ab)[i + 1] = SizeTo(ab)[i] + Bytes(ab[i + 1])
        /\ SizeTo(a)[i + 1] = SizeTo(a)[i] + Bytes(a[i + 1])
    BY <1>1, <2>1, SizeSteps
  <2> QED
    BY <1>1, <1>3, <2>1, <2>2
<1>4. \A i \in 0 .. n : i \in T
  <2> HIDE DEF T
  <2> QED
    BY <1>1, <1>2, <1>3, UpTo
<1> QED
  BY <1>4 DEF ab

(***************************************************************************)
(* The size of two texts is the sum of theirs.                             *)
(***************************************************************************)
LEMMA SizeJoined ==
  ASSUME NEW a \in Text, NEW b \in Text
  PROVE  Size(a \o b) = Size(a) + Size(b)
<1> DEFINE k == Len(a)
           n == Len(b)
           ab == a \o b
           T == {i \in Nat : SizeTo(ab)[k + i] = Size(a) + SizeTo(b)[i]}
<1>1. /\ k \in Nat /\ n \in Nat /\ ab \in Text /\ Len(ab) = k + n
      /\ \A i \in 1 .. n : k + i \in 1 .. Len(ab) /\ ab[k + i] = b[i]
      /\ \A i \in 1 .. n : b[i] \in Command \cup {Newline}
  BY Joined DEF Text
<1>2. SizeTo(ab)[k] = Size(a)
  BY <1>1, SizeOfStart DEF Size
<1> HIDE DEF ab
<1>3. Size(a) \in Nat /\ SizeTo(b)[0] = 0
  BY SizeNumbers, SizeSteps
<1>4. 0 \in T
  BY <1>1, <1>2, <1>3
<1>5. ASSUME NEW i \in 0 .. n - 1, i \in T PROVE i + 1 \in T
  <2>1. /\ i + 1 \in 1 .. n /\ (i + 1) - 1 = i
        /\ k + (i + 1) \in 1 .. Len(ab) /\ (k + (i + 1)) - 1 = k + i
    BY <1>1
  <2>2. /\ SizeTo(ab)[k + (i + 1)] = SizeTo(ab)[k + i] + Bytes(ab[k + (i + 1)])
        /\ SizeTo(b)[i + 1] = SizeTo(b)[i] + Bytes(b[i + 1])
    BY <1>1, <2>1, SizeSteps
  <2>3. ab[k + (i + 1)] = b[i + 1] /\ Bytes(b[i + 1]) \in Nat /\ SizeTo(b)[i] \in Nat
    BY <1>1, <2>1, ByteNumbers, SizeNumbers
  <2> QED
    BY <1>3, <1>5, <2>2, <2>3
<1>6. n \in T
  <2> HIDE DEF T
  <2>1. \A i \in 0 .. n : i \in T
    BY <1>1, <1>4, <1>5, UpTo
  <2> QED
    BY <1>1, <2>1
<1> QED
  BY <1>1, <1>6 DEF ab, Size

-----------------------------------------------------------------------------
(***************************************************************************)
(* The lines of a text.                                                    *)
(***************************************************************************)
IsLines(g, text, n) ==
    g = [i \in 0 .. n |-> IF i = 0 THEN <<>> ELSE WithNext(g[i - 1], text, i)]

(***************************************************************************)
(* The lines of a text can be told one element at a time.                  *)
(***************************************************************************)
LEMMA LinesExist == ASSUME NEW text, NEW n \in Nat PROVE \E g : IsLines(g, text, n)
<1> DEFINE T == {k \in Nat : \E g : IsLines(g, text, k)}
<1>1. 0 \in T
  <2> DEFINE g == [i \in 0 .. 0 |-> << >>]
  <2>1. \A i \in 0 .. 0 : i = 0
    OBVIOUS
  <2>2. IsLines(g, text, 0)
    BY <2>1 DEF IsLines
  <2> HIDE DEF g
  <2> QED
    BY <2>2
<1>2. ASSUME NEW k \in Nat, k \in T PROVE k + 1 \in T
  <2>1. PICK g : IsLines(g, text, k)
    BY <1>2
  <2> DEFINE h == [i \in 0 .. k + 1 |-> IF i = 0 THEN <<>> ELSE WithNext(g[i - 1], text, i)]
  <2>2. \A i \in 0 .. k : g[i] = IF i = 0 THEN <<>> ELSE WithNext(g[i - 1], text, i)
    BY <2>1 DEF IsLines
  <2>3. \A i \in 0 .. k : h[i] = g[i]
    BY <2>2
  <2>4. h = [i \in 0 .. k + 1 |-> IF i = 0 THEN <<>> ELSE WithNext(h[i - 1], text, i)]
    <3>1. ASSUME NEW i \in 0 .. k + 1, i # 0 PROVE i - 1 \in 0 .. k
      BY <3>1
    <3> QED
      BY <2>3, <3>1
  <2>5. IsLines(h, text, k + 1)
    BY <2>4 DEF IsLines
  <2> QED
    BY <2>5
<1> QED
  BY <1>1, <1>2, Induction

(***************************************************************************)
(* They come from the text one by one.                                     *)
(***************************************************************************)
LEMMA LinesSteps ==
  ASSUME NEW text \in Text
  PROVE  /\ LinesTo(text)[0] = << >>
         /\ \A i \in 1 .. Len(text) : LinesTo(text)[i] = WithNext(LinesTo(text)[i - 1], text, i)
<1> DEFINE n == Len(text)
<1>1. n \in Nat
  BY DEF Text
<1>2. PICK g : IsLines(g, text, n)
  BY <1>1, LinesExist
<1>3. IsLines(LinesTo(text), text, n)
  BY <1>2 DEF LinesTo, IsLines
<1> HIDE DEF n
<1> QED
  BY <1>1, <1>3 DEF IsLines, n

(***************************************************************************)
(* One step of them.                                                       *)
(***************************************************************************)
LEMMA NextLines ==
  ASSUME NEW lines, NEW text, NEW i \in Nat
  PROVE  /\ text[i] = Newline => WithNext(lines, text, i) = lines
         /\ text[i] # Newline /\ i > 1 /\ text[i - 1] # Newline
              => WithNext(lines, text, i) = Extended(lines, text[i])
         /\ text[i] # Newline /\ ~(i > 1 /\ text[i - 1] # Newline)
              => WithNext(lines, text, i) = Append(lines, <<text[i]>>)
  BY DEF WithNext

Lines == Seq(Seq(Command))

(***************************************************************************)
(* A line is a command longer.                                             *)
(***************************************************************************)
LEMMA ExtendedParts ==
  ASSUME NEW lines \in Lines, lines # << >>, NEW c \in Command
  PROVE  /\ Len(lines) \in Nat /\ Len(lines) >= 1 /\ lines[Len(lines)] \in Seq(Command)
         /\ Extended(lines, c) \in Lines /\ Len(Extended(lines, c)) = Len(lines)
         /\ Extended(lines, c) # << >>
         /\ \A i \in 1 .. Len(lines) : i # Len(lines) => Extended(lines, c)[i] = lines[i]
         /\ Extended(lines, c)[Len(lines)] = Append(lines[Len(lines)], c)
<1> DEFINE n == Len(lines)
           last == Append(lines[n], c)
<1>1. n \in Nat /\ n >= 1 /\ lines[n] \in Seq(Command)
  BY DEF Lines
<1>2. last \in Seq(Command)
  BY <1>1
<1>3. Extended(lines, c) = [lines EXCEPT ![n] = last]
  BY DEF Extended
<1> HIDE DEF last
<1>4. [lines EXCEPT ![n] = last] \in Lines /\ Len([lines EXCEPT ![n] = last]) = n
  BY <1>1, <1>2 DEF Lines
<1>5. /\ \A i \in 1 .. n : i # n => [lines EXCEPT ![n] = last][i] = lines[i]
      /\ [lines EXCEPT ![n] = last][n] = last
  BY <1>1 DEF Lines
<1>6. Extended(lines, c) # << >>
  BY <1>1, <1>3, <1>4
<1> QED
  BY <1>1, <1>3, <1>4, <1>5, <1>6 DEF last

(***************************************************************************)
(* Lines are sequences of commands, and there is one after a command.      *)
(***************************************************************************)
LEMMA LinesType ==
  ASSUME NEW text \in Text
  PROVE  /\ LinesOf(text) \in Lines
         /\ \A i \in 0 .. Len(text) : LinesTo(text)[i] \in Lines
         /\ \A i \in 1 .. Len(text) : text[i] # Newline => LinesTo(text)[i] # << >>
<1> DEFINE n == Len(text)
           T == {i \in Nat : /\ LinesTo(text)[i] \in Lines
                             /\ i > 0 /\ text[i] # Newline => LinesTo(text)[i] # << >>}
<1>1. n \in Nat /\ \A i \in 1 .. n : text[i] \in Command \cup {Newline}
  BY DEF Text
<1>2. 0 \in T
  <2>1. << >> \in Lines
    BY DEF Lines
  <2>2. LinesTo(text)[0] = << >>
    BY LinesSteps
  <2> QED
    BY <2>1, <2>2
<1>3. ASSUME NEW i \in 0 .. n - 1, i \in T PROVE i + 1 \in T
  <2> DEFINE before == LinesTo(text)[i]
             after == LinesTo(text)[i + 1]
             c == text[i + 1]
  <2>1. i + 1 \in 1 .. n /\ (i + 1) - 1 = i /\ i \in Nat /\ i + 1 \in Nat /\ (i + 1 > 1 <=> i > 0)
    BY <1>1
  <2>2. after = WithNext(before, text, i + 1)
    BY <2>1, LinesSteps
  <2>3. before \in Lines /\ c \in Command \cup {Newline}
    BY <1>1, <1>3, <2>1
  <2>4. /\ c = Newline => after = before
        /\ c # Newline /\ i > 0 /\ text[i] # Newline => after = Extended(before, c)
        /\ c # Newline /\ ~(i > 0 /\ text[i] # Newline) => after = Append(before, <<c>>)
    BY <2>1, <2>2, NextLines
  <2>5. i > 0 /\ text[i] # Newline => before # << >>
    BY <1>3
  <2> HIDE DEF before, after, c
  <2>6. after \in Lines /\ (c # Newline => after # << >>)
    <3>1. CASE c = Newline
      BY <2>3, <2>4, <3>1
    <3>2. CASE c # Newline /\ i > 0 /\ text[i] # Newline
      BY <2>3, <2>4, <2>5, <3>2, ExtendedParts
    <3>3. CASE c # Newline /\ ~(i > 0 /\ text[i] # Newline)
      <4>1. <<c>> \in Seq(Command) /\ before \in Seq(Seq(Command))
        BY <2>3, <3>3 DEF Lines
      <4> DEFINE one == <<c>>
      <4> HIDE DEF one
      <4>2. /\ Append(before, one) \in Seq(Seq(Command))
            /\ Len(Append(before, one)) = Len(before) + 1 /\ Len(before) \in Nat
        BY <4>1, Appended DEF one
      <4>3. Append(before, one) # << >>
        BY <4>2
      <4> QED
        BY <2>4, <3>3, <4>2, <4>3 DEF Lines, one
    <3> QED
      BY <3>1, <3>2, <3>3
  <2> QED
    BY <2>1, <2>6 DEF after, c
<1>4. \A i \in 0 .. n : i \in T
  <2> HIDE DEF T
  <2> QED
    BY <1>1, <1>2, <1>3, UpTo
<1>5. \A i \in 0 .. n : LinesTo(text)[i] \in Lines
  BY <1>4
<1>6. \A i \in 1 .. n : text[i] # Newline => LinesTo(text)[i] # << >>
  <2> SUFFICES ASSUME NEW i \in 1 .. n, text[i] # Newline PROVE LinesTo(text)[i] # << >>
    OBVIOUS
  <2>1. i \in 0 .. n /\ i > 0
    BY <1>1
  <2> QED
    BY <1>4, <2>1
<1> QED
  BY <1>1, <1>5, <1>6 DEF LinesOf

(***************************************************************************)
(* A text's beginnings have the same lines whatever is behind them.        *)
(***************************************************************************)
LEMMA LinesOfStart ==
  ASSUME NEW a \in Text, NEW b \in Text
  PROVE  \A i \in 0 .. Len(a) : LinesTo(a \o b)[i] = LinesTo(a)[i]
<1> DEFINE n == Len(a)
           ab == a \o b
           T == {i \in Nat : LinesTo(ab)[i] = LinesTo(a)[i]}
<1>1. n \in Nat /\ ab \in Text /\ \A i \in 1 .. n : i \in 1 .. Len(ab) /\ ab[i] = a[i]
  BY Joined DEF Text
<1> HIDE DEF ab
<1>2. 0 \in T
  BY <1>1, LinesSteps
<1>3. ASSUME NEW i \in 0 .. n - 1, i \in T PROVE i + 1 \in T
  <2>1. i + 1 \in 1 .. n /\ (i + 1) - 1 = i /\ (i + 1 > 1 => i \in 1 .. n)
    BY <1>1
  <2>2. /\ LinesTo(ab)[i + 1] = WithNext(LinesTo(ab)[i], ab, i + 1)
        /\ LinesTo(a)[i + 1] = WithNext(LinesTo(a)[i], a, i + 1)
    BY <1>1, <2>1, LinesSteps
  <2>3. \A lines : WithNext(lines, ab, i + 1) = WithNext(lines, a, i + 1)
    BY <1>1, <2>1 DEF WithNext
  <2> QED
    BY <1>1, <1>3, <2>1, <2>2, <2>3
<1> QED
  <2> HIDE DEF T
  <2>1. \A i \in 0 .. n : i \in T
    BY <1>1, <1>2, <1>3, UpTo
  <2> QED
    BY <2>1 DEF ab, T

(***************************************************************************)
(* Sequences behind each other and one more element.                       *)
(***************************************************************************)
LEMMA AppendJoined ==
  ASSUME NEW x \in Lines, NEW y \in Lines, NEW e \in Seq(Command)
  PROVE  Append(x \o y, e) = x \o Append(y, e)
<1> DEFINE S == Seq(Command)
<1>1. x \in Seq(S) /\ y \in Seq(S) /\ e \in S
  BY DEF Lines
<1> HIDE DEF S
<1> QED
  BY <1>1

(***************************************************************************)
(* Lines behind others, the last one a command longer.                     *)
(***************************************************************************)
LEMMA ExtendedJoined ==
  ASSUME NEW x \in Lines, NEW y \in Lines, y # << >>, NEW c \in Command
  PROVE  Extended(x \o y, c) = x \o Extended(y, c)
<1> DEFINE xy == x \o y
           e == Extended(y, c)
           left == Extended(xy, c)
           right == x \o e
           k == Len(x)
           n == Len(y)
<1>1. /\ xy \in Lines /\ k \in Nat /\ n \in Nat /\ Len(xy) = k + n
      /\ \A i \in 1 .. k : i \in 1 .. k + n /\ xy[i] = x[i]
      /\ \A i \in 1 .. n : k + i \in 1 .. k + n /\ xy[k + i] = y[i]
  <2>1. xy \in Lines /\ IsJoined(xy, x, y)
    BY Join DEF Lines
  <2> HIDE DEF xy
  <2> QED
    BY <2>1 DEF IsJoined
<1>2. /\ e \in Lines /\ Len(e) = n /\ n >= 1 /\ e[n] = Append(y[n], c)
      /\ \A i \in 1 .. n : i # n => e[i] = y[i]
  BY ExtendedParts
<1> HIDE DEF xy, e
<1>3. xy # << >>
  BY <1>1, <1>2
<1>4. /\ left \in Lines /\ Len(left) = k + n /\ left[k + n] = Append(xy[k + n], c)
      /\ \A i \in 1 .. k + n : i # k + n => left[i] = xy[i]
  <2>1. /\ left \in Lines /\ Len(left) = Len(xy) /\ left[Len(xy)] = Append(xy[Len(xy)], c)
        /\ \A i \in 1 .. Len(xy) : i # Len(xy) => left[i] = xy[i]
    BY <1>1, <1>3, ExtendedParts
  <2> QED
    BY <1>1, <2>1
<1>5. /\ right \in Lines /\ Len(right) = k + n
      /\ \A i \in 1 .. k : right[i] = x[i]
      /\ \A i \in 1 .. n : right[k + i] = e[i]
  <2>1. /\ right \in Lines /\ Len(right) = Len(x) + Len(e)
        /\ \A i \in 1 .. Len(x) : right[i] = x[i]
        /\ \A i \in 1 .. Len(e) : right[Len(x) + i] = e[i]
    <3>1. x \in Seq(Seq(Command)) /\ e \in Seq(Seq(Command)) /\ Lines = Seq(Seq(Command))
      BY <1>2 DEF Lines
    <3> QED
      BY <3>1, Joined
  <2> QED
    BY <1>2, <2>1
<1> HIDE DEF left, right
<1>6. ASSUME NEW i \in 1 .. k + n PROVE left[i] = right[i]
  <2>1. CASE i \in 1 .. k
    BY <1>1, <1>2, <1>4, <1>5, <2>1
  <2>2. CASE i \notin 1 .. k
    <3> DEFINE j == i - k
    <3>1. j \in 1 .. n /\ k + j = i /\ (j = n <=> i = k + n)
      BY <1>1, <2>2
    <3> HIDE DEF j
    <3>2. xy[i] = y[j] /\ right[i] = e[j]
      BY <1>1, <1>5, <3>1
    <3>3. CASE j = n
      BY <1>2, <1>4, <3>1, <3>2, <3>3
    <3>4. CASE j # n
      BY <1>2, <1>4, <3>1, <3>2, <3>4
    <3> QED
      BY <3>3, <3>4
  <2> QED
    BY <2>1, <2>2
<1>7. left = right
  BY <1>4, <1>5, <1>6, Same DEF Lines
<1> QED
  BY <1>7 DEF left, right, xy, e

(***************************************************************************)
(* The lines of two texts are those of the first and then those of the     *)
(* second, unless the first lacks the end of its last line.                *)
(***************************************************************************)
LEMMA LinesJoined ==
  ASSUME NEW a \in Text, NEW b \in Text, Unended(a) => b = << >> \/ b[1] = Newline
  PROVE  LinesOf(a \o b) = LinesOf(a) \o LinesOf(b)
<1> DEFINE k == Len(a)
           n == Len(b)
           ab == a \o b
           x == LinesOf(a)
           T == {i \in Nat : LinesTo(ab)[k + i] = x \o LinesTo(b)[i]}
<1>1. /\ k \in Nat /\ n \in Nat /\ ab \in Text /\ Len(ab) = k + n
      /\ \A i \in 1 .. k : i \in 1 .. Len(ab) /\ ab[i] = a[i]
      /\ \A i \in 1 .. n : k + i \in 1 .. Len(ab) /\ ab[k + i] = b[i]
      /\ \A i \in 1 .. n : b[i] \in Command \cup {Newline}
  BY Joined DEF Text
<1>2. LinesTo(ab)[k] = x
  BY <1>1, LinesOfStart DEF LinesOf
<1>3. x \in Lines /\ LinesTo(b)[0] = << >>
  BY LinesType, LinesSteps
<1>4. x \o << >> = x
  BY <1>3 DEF Lines
<1>5. n >= 1 /\ k >= 1 /\ a[k] # Newline => b[1] = Newline
  BY <1>1 DEF Unended, Text
<1> HIDE DEF ab, x
<1>6. 0 \in T
  <2>1. k + 0 = k
    BY <1>1
  <2> QED
    BY <1>2, <1>3, <1>4, <2>1
<1>7. ASSUME NEW i \in 0 .. n - 1, i \in T PROVE i + 1 \in T
  <2> DEFINE y == LinesTo(b)[i]
             c == b[i + 1]
             place == k + (i + 1)
  <2>1. /\ i + 1 \in 1 .. n /\ (i + 1) - 1 = i /\ i \in Nat /\ i + 1 \in Nat
        /\ place \in 1 .. Len(ab) /\ place - 1 = k + i /\ place \in Nat
        /\ (place > 1 <=> i > 0 \/ k >= 1) /\ (i > 0 => i \in 1 .. n) /\ (i + 1 > 1 <=> i > 0)
    BY <1>1
  <2>2. /\ LinesTo(ab)[place] = WithNext(x \o y, ab, place)
        /\ LinesTo(b)[i + 1] = WithNext(y, b, i + 1)
    <3>1. LinesTo(ab)[place] = WithNext(LinesTo(ab)[place - 1], ab, place)
      BY <1>1, <2>1, LinesSteps
    <3>2. LinesTo(ab)[place - 1] = x \o y
      BY <1>7, <2>1
    <3>3. LinesTo(b)[i + 1] = WithNext(LinesTo(b)[(i + 1) - 1], b, i + 1)
      BY <2>1, LinesSteps
    <3> QED
      BY <2>1, <3>1, <3>2, <3>3
  <2>3. ab[place] = c /\ c \in Command \cup {Newline} /\ y \in Lines
    <3>1. ab[place] = c /\ c \in Command \cup {Newline}
      BY <1>1, <2>1
    <3>2. i \in 0 .. n
      BY <1>1
    <3> QED
      BY <3>1, <3>2, LinesType
  <2>4. /\ i > 0 => ab[k + i] = b[i]
        /\ i = 0 /\ k >= 1 => ab[k + i] = a[k]
    <3>1. i > 0 => ab[k + i] = b[i]
      BY <1>1, <2>1
    <3>2. i = 0 /\ k >= 1 => k + i = k /\ k \in 1 .. k
      BY <1>1
    <3> QED
      BY <1>1, <3>1, <3>2
  <2>5. i > 0 /\ b[i] # Newline => y # << >>
    BY <2>1, LinesType
  <2> HIDE DEF y, c, place
  <2>6. /\ c = Newline => LinesTo(ab)[place] = x \o y /\ LinesTo(b)[i + 1] = y
        /\ c # Newline /\ i > 0 /\ b[i] # Newline
             => LinesTo(ab)[place] = Extended(x \o y, c) /\ LinesTo(b)[i + 1] = Extended(y, c)
        /\ c # Newline /\ ~(i > 0 /\ b[i] # Newline)
             => LinesTo(ab)[place] = Append(x \o y, <<c>>) /\ LinesTo(b)[i + 1] = Append(y, <<c>>)
    <3>1. /\ WithNext(x \o y, ab, place)
               = IF c = Newline THEN x \o y
                 ELSE IF place > 1 /\ ab[k + i] # Newline THEN Extended(x \o y, c)
                 ELSE Append(x \o y, <<c>>)
          /\ WithNext(y, b, i + 1)
               = IF c = Newline THEN y
                 ELSE IF i > 0 /\ b[i] # Newline THEN Extended(y, c) ELSE Append(y, <<c>>)
      BY <2>1, <2>3 DEF WithNext, c
    <3>2. c # Newline => (place > 1 /\ ab[k + i] # Newline <=> i > 0 /\ b[i] # Newline)
      <4>1. CASE i > 0
        BY <2>1, <2>4, <4>1
      <4>2. CASE i = 0
        BY <1>1, <1>5, <2>1, <2>4, <4>2 DEF c
      <4> QED
        BY <2>1, <4>1, <4>2
    <3> QED
      BY <2>2, <3>1, <3>2
  <2>7. LinesTo(ab)[place] = x \o LinesTo(b)[i + 1]
    <3>1. CASE c = Newline
      BY <2>6, <3>1
    <3>2. CASE c # Newline /\ i > 0 /\ b[i] # Newline
      <4>1. Extended(x \o y, c) = x \o Extended(y, c)
        BY <1>3, <2>3, <2>5, <3>2, ExtendedJoined
      <4> QED
        BY <2>6, <3>2, <4>1
    <3>3. CASE c # Newline /\ ~(i > 0 /\ b[i] # Newline)
      <4>1. <<c>> \in Seq(Command)
        BY <2>3, <3>3
      <4> DEFINE one == <<c>>
      <4>2. one \in Seq(Command) /\ LinesTo(ab)[place] = Append(x \o y, one)
            /\ LinesTo(b)[i + 1] = Append(y, one)
        BY <2>6, <3>3, <4>1
      <4> HIDE DEF one
      <4>3. Append(x \o y, one) = x \o Append(y, one)
        BY Zenon, <1>3, <2>3, <4>2, AppendJoined
      <4> QED
        BY <4>2, <4>3
    <3> QED
      BY <3>1, <3>2, <3>3
  <2> QED
    BY <2>1, <2>7 DEF place
<1>8. n \in T
  <2> HIDE DEF T
  <2>1. \A i \in 0 .. n : i \in T
    BY <1>1, <1>6, <1>7, UpTo
  <2> QED
    BY <1>1, <2>1
<1> QED
  BY <1>1, <1>8 DEF ab, x, LinesOf

(***************************************************************************)
(* A text of newlines has no lines.                                        *)
(***************************************************************************)
LEMMA LinesOfNewlines ==
  ASSUME NEW text \in Text, \A i \in 1 .. Len(text) : text[i] = Newline
  PROVE  LinesOf(text) = << >>
<1> DEFINE n == Len(text)
           T == {i \in Nat : LinesTo(text)[i] = << >>}
<1>1. n \in Nat
  BY DEF Text
<1>2. 0 \in T
  BY LinesSteps
<1>3. ASSUME NEW i \in 0 .. n - 1, i \in T PROVE i + 1 \in T
  <2>1. i + 1 \in 1 .. n /\ (i + 1) - 1 = i /\ i + 1 \in Nat
    BY <1>1
  <2>2. LinesTo(text)[i + 1] = WithNext(LinesTo(text)[i], text, i + 1)
    BY <2>1, LinesSteps
  <2>3. LinesTo(text)[i + 1] = LinesTo(text)[i]
    BY <2>1, <2>2, NextLines
  <2> QED
    BY <1>3, <2>1, <2>3
<1>4. n \in T
  <2> HIDE DEF T
  <2>1. \A i \in 0 .. n : i \in T
    BY <1>1, <1>2, <1>3, UpTo
  <2> QED
    BY <1>1, <2>1
<1> QED
  BY <1>4 DEF LinesOf

(***************************************************************************)
(* A text without newlines is one line.                                    *)
(***************************************************************************)
LEMMA LinesOfOne ==
  ASSUME NEW text \in Seq(Command), text # << >>
  PROVE  LinesOf(text) = <<text>>
<1> DEFINE n == Len(text)
           T == {i \in Nat : i >= 1 => LinesTo(text)[i] = <<SubSeq(text, 1, i)>>}
<1>1. n \in Nat /\ n >= 1 /\ text \in Text /\ \A i \in 1 .. n : text[i] \in Command
  BY DEF Text
<1>2. \A c \in Command : c # Newline
  BY CommandBufferAssumption DEF Newline
<1>3. 0 \in T
  OBVIOUS
<1>4. ASSUME NEW i \in 0 .. n - 1, i \in T PROVE i + 1 \in T
  <2> DEFINE c == text[i + 1]
             start == SubSeq(text, 1, i)
             next == SubSeq(text, 1, i + 1)
  <2>1. i + 1 \in 1 .. n /\ (i + 1) - 1 = i /\ i \in Nat /\ i + 1 \in Nat /\ (i + 1 > 1 <=> i > 0)
        /\ (i > 0 => i \in 1 .. n)
    BY <1>1
  <2>2. LinesTo(text)[i + 1] = WithNext(LinesTo(text)[i], text, i + 1)
    BY <1>1, <2>1, LinesSteps
  <2>3. c \in Command /\ c # Newline /\ (i > 0 => text[i] # Newline)
    BY <1>1, <1>2, <2>1
  <2>4. start \in Seq(Command) /\ next = Append(start, c)
    BY <1>1, <2>1
  <2>5. /\ i > 0 => LinesTo(text)[i + 1] = Extended(LinesTo(text)[i], c)
        /\ ~(i > 0) => LinesTo(text)[i + 1] = Append(LinesTo(text)[i], <<c>>)
    BY <2>1, <2>2, <2>3, NextLines
  <2>6. LinesTo(text)[i + 1] = <<next>>
    <3>1. CASE i > 0
      <4>1. LinesTo(text)[i] = <<start>>
        BY <1>4, <2>1, <3>1
      <4> HIDE DEF start, next, c
      <4>2. Extended(<<start>>, c) = <<Append(start, c)>>
        BY DEF Extended
      <4> QED
        BY <2>4, <2>5, <3>1, <4>1, <4>2
    <3>2. CASE ~(i > 0)
      <4>1. LinesTo(text)[i] = << >> /\ start = << >>
        BY <1>1, <2>1, <3>2, LinesSteps
      <4> HIDE DEF start, next, c
      <4>2. Append(<< >>, <<c>>) = <<<<c>>>> /\ Append(<< >>, c) = <<c>>
        OBVIOUS
      <4> QED
        BY <2>4, <2>5, <3>2, <4>1, <4>2
    <3> QED
      BY <3>1, <3>2
  <2> QED
    BY <2>1, <2>6
<1>5. n \in T
  <2> HIDE DEF T
  <2>1. \A i \in 0 .. n : i \in T
    BY <1>1, <1>3, <1>4, UpTo
  <2> QED
    BY <1>1, <2>1
<1>6. SubSeq(text, 1, n) = text
  BY <1>1
<1> QED
  BY <1>1, <1>5, <1>6 DEF LinesOf

-----------------------------------------------------------------------------
(***************************************************************************)
(* Taking the first line.                                                  *)
(***************************************************************************)
LEMMA FirstLineParts ==
  ASSUME NEW text \in Text
  PROVE  /\ FirstLine(text) \in Seq(Command)
         /\ Len(FirstLine(text)) \in 0 .. Len(text)
         /\ \A i \in 1 .. Len(FirstLine(text)) : FirstLine(text)[i] = text[i]
         /\ Len(FirstLine(text)) < Len(text) => text[Len(FirstLine(text)) + 1] = Newline
<1> DEFINE n == Len(text)
           ends == {i \in 1 .. n : text[i] = Newline}
<1>1. /\ n \in Nat /\ text \in Seq(Command \cup {Newline})
      /\ \A i \in 1 .. n : text[i] \in Command \cup {Newline}
  BY DEF Text
<1>2. CASE ends = {}
  <2>1. FirstLine(text) = text
    BY <1>2 DEF FirstLine
  <2>2. \A i \in 1 .. n : text[i] \in Command
    BY <1>1, <1>2
  <2>3. text \in Seq(Command)
    BY <1>1, <2>2
  <2> QED
    BY <1>1, <2>1, <2>3
<1>3. CASE ends # {}
  <2> DEFINE k == CHOOSE i \in ends : \A j \in ends : i <= j
  <2>1. k \in ends /\ \A j \in ends : k <= j
    <3>1. ends \subseteq Nat
      BY <1>1
    <3>2. \E i \in ends : \A j \in ends : i <= j
      BY <1>3, <3>1, Least
    <3> HIDE DEF ends
    <3> QED
      BY <3>2
  <2>2. FirstLine(text) = SubSeq(text, 1, k - 1)
    BY <1>3 DEF FirstLine
  <2> HIDE DEF k
  <2>3. k \in 1 .. n /\ text[k] = Newline /\ \A i \in 1 .. k - 1 : i \in 1 .. n /\ text[i] # Newline
    BY <1>1, <2>1
  <2>4. \A i \in 1 .. k - 1 : text[i] \in Command
    BY <1>1, <2>3
  <2> DEFINE first == SubSeq(text, 1, k - 1)
  <2>5. Len(first) = k - 1 /\ \A i \in 1 .. k - 1 : first[i] = text[i]
    BY <1>1, <2>3
  <2>6. first \in Seq(Command)
    BY <1>1, <2>3, <2>4
  <2> HIDE DEF first
  <2>7. FirstLine(text) = first
    BY <2>2 DEF first
  <2> QED
    BY <1>1, <2>3, <2>5, <2>6, <2>7
<1> QED
  BY <1>2, <1>3

(***************************************************************************)
(* What is left begins behind newlines.                                    *)
(***************************************************************************)
LEMMA RemainingParts ==
  ASSUME NEW text \in Text
  PROVE  \E m \in Len(FirstLine(text)) .. Len(text) :
            /\ Remaining(text) = SubSeq(text, m + 1, Len(text))
            /\ \A i \in Len(FirstLine(text)) + 1 .. m : text[i] = Newline
            /\ m < Len(text) => text[m + 1] # Newline
<1> DEFINE n == Len(text)
           f == Len(FirstLine(text))
           after == {i \in f + 1 .. n : text[i] # Newline}
<1>1. n \in Nat /\ f \in 0 .. n
  BY FirstLineParts DEF Text
<1>2. CASE after = {}
  <2>1. Remaining(text) = << >>
    BY <1>2 DEF Remaining
  <2>2. SubSeq(text, n + 1, n) = << >>
    BY <1>1 DEF Text
  <2>3. n \in f .. n /\ \A i \in f + 1 .. n : text[i] = Newline
    BY <1>1, <1>2
  <2> HIDE DEF f, after
  <2> QED
    BY <1>1, <2>1, <2>2, <2>3 DEF f
<1>3. CASE after # {}
  <2> DEFINE k == CHOOSE i \in after : \A j \in after : i <= j
             m == k - 1
  <2>1. k \in after /\ \A j \in after : k <= j
    <3>1. after \subseteq Nat
      BY <1>1
    <3>2. \E i \in after : \A j \in after : i <= j
      BY <1>3, <3>1, Least
    <3> HIDE DEF after
    <3> QED
      BY <3>2
  <2>2. Remaining(text) = SubSeq(text, k, n)
    BY <1>3 DEF Remaining
  <2> HIDE DEF k, f
  <2>3. /\ m \in f .. n /\ m < n /\ m + 1 = k /\ text[k] # Newline
        /\ \A i \in f + 1 .. m : text[i] = Newline
    BY <1>1, <2>1
  <2> HIDE DEF m, after
  <2> QED
    BY <2>2, <2>3 DEF f
<1> QED
  BY <1>2, <1>3

(***************************************************************************)
(* A text is its first line, newlines and what is left.                    *)
(***************************************************************************)
LEMMA TextParts ==
  ASSUME NEW text \in Text
  PROVE  /\ FirstLine(text) \in Seq(Command) /\ FirstLine(text) \in Text
         /\ Remaining(text) \in Text
         /\ Remaining(text) # << >> => Remaining(text)[1] # Newline
         /\ \E ends \in Text :
               /\ \A i \in 1 .. Len(ends) : ends[i] = Newline
               /\ ends = << >> => Remaining(text) = << >>
               /\ text = (FirstLine(text) \o ends) \o Remaining(text)
<1> DEFINE n == Len(text)
           first == FirstLine(text)
           f == Len(first)
           rest == Remaining(text)
<1>1. /\ n \in Nat /\ text \in Seq(Command \cup {Newline})
      /\ \A i \in 1 .. n : text[i] \in Command \cup {Newline}
  BY DEF Text
<1>2. /\ first \in Seq(Command) /\ first \in Text /\ f \in 0 .. n
      /\ \A i \in 1 .. f : first[i] = text[i]
      /\ f < n => text[f + 1] = Newline
  BY FirstLineParts DEF Text
<1>3. PICK m \in f .. n : /\ rest = SubSeq(text, m + 1, n)
                          /\ \A i \in f + 1 .. m : text[i] = Newline
                          /\ m < n => text[m + 1] # Newline
  BY RemainingParts
<1> DEFINE ends == SubSeq(text, f + 1, m)
<1> HIDE DEF first, rest
<1>4. /\ rest \in Text /\ Len(rest) = n - m
      /\ \A i \in 1 .. n - m : m + i \in 1 .. n /\ rest[i] = text[m + i]
  <2>1. CASE m = n
    <3>1. rest = << >>
      BY <1>1, <1>3, <2>1
    <3> QED
      BY <1>1, <2>1, <3>1 DEF Text
  <2>2. CASE m # n
    <3>1. m + 1 \in 1 .. n /\ m \in Nat /\ m < n
      BY <1>1, <1>2, <1>3, <2>2
    <3>2. /\ SubSeq(text, m + 1, n) \in Seq(Command \cup {Newline})
          /\ Len(SubSeq(text, m + 1, n)) = n - m
      BY <1>1, <3>1
    <3>3. \A i \in 1 .. n - m : m + i \in 1 .. n /\ SubSeq(text, m + 1, n)[i] = text[m + i]
      BY <1>1, <3>1
    <3> QED
      BY <1>3, <3>2, <3>3 DEF Text
  <2> QED
    BY <2>1, <2>2
<1>5. rest # << >> => rest[1] # Newline
  <2> SUFFICES ASSUME rest # << >> PROVE rest[1] # Newline
    OBVIOUS
  <2>1. 1 \in 1 .. n - m /\ m < n
    BY <1>1, <1>2, <1>3, <1>4 DEF Text
  <2> QED
    BY <1>3, <1>4, <2>1
<1>6. /\ ends \in Text /\ Len(ends) = m - f
      /\ \A i \in 1 .. m - f : f + i \in 1 .. n /\ ends[i] = text[f + i]
  <2>1. CASE m = f
    <3>1. ends = << >>
      BY <1>1, <1>2, <2>1
    <3> QED
      BY <1>1, <1>2, <2>1, <3>1 DEF Text
  <2>2. CASE m # f
    <3>1. f + 1 \in 1 .. n /\ m \in 1 .. n /\ f < m
      BY <1>1, <1>2, <1>3, <2>2
    <3>2. ends \in Seq(Command \cup {Newline}) /\ Len(ends) = m - f
      BY <1>1, <3>1
    <3>3. \A i \in 1 .. m - f : f + i \in 1 .. n /\ ends[i] = text[f + i]
      BY <1>1, <3>1
    <3> QED
      BY <3>2, <3>3 DEF Text
  <2> QED
    BY <2>1, <2>2
<1> HIDE DEF ends
<1>7. \A i \in 1 .. Len(ends) : ends[i] = Newline
  <2> SUFFICES ASSUME NEW i \in 1 .. m - f PROVE ends[i] = Newline
    BY <1>6
  <2>1. f + i \in f + 1 .. m
    BY <1>1, <1>2, <1>3
  <2> QED
    BY <1>3, <1>6, <2>1
<1>8. ends = << >> => rest = << >>
  <2> SUFFICES ASSUME ends = << >> PROVE rest = << >>
    OBVIOUS
  <2>1. m = f
    BY <1>1, <1>2, <1>3, <1>6
  <2>2. ~(m < n)
    BY <1>2, <1>3, <2>1
  <2>3. Len(rest) = 0
    BY <1>1, <1>2, <1>3, <1>4, <2>2
  <2> QED
    BY <1>4, <2>3 DEF Text
<1>9. text = (first \o ends) \o rest
  <2> DEFINE fe == first \o ends
             all == fe \o rest
  <2>1. /\ fe \in Text /\ Len(fe) = m
        /\ \A i \in 1 .. f : fe[i] = first[i]
        /\ \A i \in 1 .. m - f : fe[f + i] = ends[i]
    <3>1. Len(first) + Len(ends) = m
      BY <1>1, <1>2, <1>3, <1>6
    <3> QED
      <4>1. /\ fe \in Text /\ Len(fe) = Len(first) + Len(ends)
            /\ \A i \in 1 .. Len(first) : fe[i] = first[i]
            /\ \A i \in 1 .. Len(ends) : fe[Len(first) + i] = ends[i]
        <5>1. fe \in Text /\ IsJoined(fe, first, ends)
          BY <1>2, <1>6, Join DEF Text
        <5> HIDE DEF fe
        <5> QED
          BY <5>1 DEF IsJoined
      <4> HIDE DEF fe
      <4> QED
        BY <1>6, <3>1, <4>1
  <2>2. \A i \in 1 .. m : fe[i] = text[i]
    <3> SUFFICES ASSUME NEW i \in 1 .. m PROVE fe[i] = text[i]
      OBVIOUS
    <3>1. CASE i \in 1 .. f
      BY <1>2, <2>1, <3>1
    <3>2. CASE i \notin 1 .. f
      <4> DEFINE j == i - f
      <4>1. j \in 1 .. m - f /\ f + j = i
        BY <1>1, <1>2, <1>3, <3>2
      <4> HIDE DEF j, fe
      <4> QED
        BY <1>6, <2>1, <4>1
    <3> QED
      BY <3>1, <3>2
  <2> HIDE DEF fe
  <2>3. /\ all \in Text /\ Len(all) = n
        /\ \A i \in 1 .. m : all[i] = fe[i]
        /\ \A i \in 1 .. n - m : all[m + i] = rest[i]
    <3>1. Len(fe) + Len(rest) = n
      BY <1>1, <1>2, <1>3, <1>4, <2>1
    <3> QED
      <4>1. all \in Text /\ IsJoined(all, fe, rest)
        BY <1>4, <2>1, Join DEF Text
      <4> HIDE DEF all
      <4> QED
        BY <1>4, <2>1, <3>1, <4>1 DEF IsJoined
  <2> HIDE DEF all
  <2>4. \A i \in 1 .. n : all[i] = text[i]
    <3> SUFFICES ASSUME NEW i \in 1 .. n PROVE all[i] = text[i]
      OBVIOUS
    <3>1. CASE i \in 1 .. m
      BY <2>2, <2>3, <3>1
    <3>2. CASE i \notin 1 .. m
      <4> DEFINE j == i - m
      <4>1. j \in 1 .. n - m /\ m + j = i
        BY <1>1, <1>2, <1>3, <3>2
      <4> HIDE DEF j
      <4> QED
        BY <1>4, <2>3, <4>1
    <3> QED
      BY <3>1, <3>2
  <2>5. all = text
    BY <1>1, <2>3, <2>4, Same DEF Text
  <2> QED
    BY <2>5 DEF all, fe
<1> QED
  BY <1>2, <1>4, <1>5, <1>6, <1>7, <1>8, <1>9 DEF first, rest

(***************************************************************************)
(* Two texts: where they are open, and what the first line is then.        *)
(***************************************************************************)
LEMMA UnendedJoined ==
  ASSUME NEW a \in Text, NEW b \in Text
  PROVE  /\ b = << >> => (Unended(a \o b) <=> Unended(a))
         /\ b # << >> => (Unended(a \o b) <=> Unended(b))
<1>1. /\ Len(a) \in Nat /\ Len(b) \in Nat /\ Len(a \o b) = Len(a) + Len(b)
      /\ \A i \in 1 .. Len(b) : (a \o b)[Len(a) + i] = b[i]
  BY Joined DEF Text
<1>2. CASE b = << >>
  BY <1>2 DEF Text
<1>3. CASE b # << >>
  <2>1. Len(b) \in 1 .. Len(b) /\ Len(b) >= 1
    BY <1>1, <1>3 DEF Text
  <2> DEFINE ab == a \o b
  <2>2. Len(ab) = Len(a) + Len(b) /\ ab[Len(ab)] = b[Len(b)] /\ ab \in Text
    BY <1>1, <2>1, Joined DEF Text
  <2> HIDE DEF ab
  <2>3. ab # << >>
    BY <1>1, <2>1, <2>2
  <2>4. Unended(ab) <=> Unended(b)
    BY <1>3, <2>2, <2>3 DEF Unended
  <2> QED
    BY <1>3, <2>4 DEF ab
<1> QED
  BY <1>2, <1>3

(***************************************************************************)
(* A sequence behind one element.                                          *)
(***************************************************************************)
LEMMA OneMore ==
  ASSUME NEW S, NEW e \in S, NEW s \in Seq(S)
  PROVE  /\ <<e>> \o s \in Seq(S) /\ <<e>> \o s # << >>
         /\ Len(<<e>> \o s) = 1 + Len(s) /\ Len(s) \in Nat
         /\ Head(<<e>> \o s) = e /\ Tail(<<e>> \o s) = s
<1> DEFINE one == <<e>>
           all == one \o s
<1>1. one \in Seq(S) /\ Len(one) = 1 /\ one[1] = e
  OBVIOUS
<1> HIDE DEF one
<1>2. /\ all \in Seq(S) /\ Len(s) \in Nat /\ Len(all) = 1 + Len(s)
      /\ all[1] = e /\ \A i \in 1 .. Len(s) : all[1 + i] = s[i]
  <2>1. /\ all \in Seq(S) /\ Len(s) \in Nat /\ Len(all) = Len(one) + Len(s)
        /\ \A i \in 1 .. Len(one) : all[i] = one[i]
        /\ \A i \in 1 .. Len(s) : all[Len(one) + i] = s[i]
    <3>1. all \in Seq(S) /\ IsJoined(all, one, s)
      BY <1>1, Join
    <3> HIDE DEF all
    <3> QED
      BY <3>1 DEF IsJoined
  <2>2. 1 \in 1 .. 1
    OBVIOUS
  <2> HIDE DEF all
  <2> QED
    BY <1>1, <2>1, <2>2
<1> HIDE DEF all
<1>3. all # << >>
  BY <1>2
<1>4. /\ Tail(all) \in Seq(S) /\ Len(Tail(all)) = Len(s) /\ Head(all) = e
      /\ \A i \in 1 .. Len(s) : Tail(all)[i] = all[i + 1]
  BY <1>2, <1>3, Shortened
<1>5. \A i \in 1 .. Len(s) : Tail(all)[i] = s[i]
  BY <1>2, <1>4
<1>6. Tail(all) = s
  BY <1>2, <1>4, <1>5, Same
<1> QED
  BY <1>2, <1>3, <1>4, <1>6 DEF all, one

(***************************************************************************)
(* The first line is the first of the lines, and the others are those of   *)
(* what is left.                                                           *)
(***************************************************************************)
LEMMA LinesTaken ==
  ASSUME NEW text \in Text
  PROVE  /\ FirstLine(text) # << >>
               => LinesOf(text) = <<FirstLine(text)>> \o LinesOf(Remaining(text))
         /\ FirstLine(text) = << >> => LinesOf(text) = LinesOf(Remaining(text))
         /\ Remaining(text) # << >> => (Unended(Remaining(text)) <=> Unended(text))
         /\ FirstLine(text) = << >> /\ Remaining(text) = << >> => ~Unended(text)
<1> DEFINE first == FirstLine(text)
           rest == Remaining(text)
<1>1. /\ first \in Seq(Command) /\ first \in Text /\ rest \in Text
      /\ rest # << >> => rest[1] # Newline
  BY TextParts
<1>2. PICK ends \in Text : /\ \A i \in 1 .. Len(ends) : ends[i] = Newline
                           /\ ends = << >> => rest = << >>
                           /\ text = (first \o ends) \o rest
  BY TextParts
<1> DEFINE begin == first \o ends
<1> HIDE DEF first, rest
<1>3. begin \in Text /\ text = begin \o rest
  BY <1>1, <1>2, Joined DEF Text
<1>4. ends # << >> => ends[1] = Newline /\ ends[Len(ends)] = Newline
  <2> SUFFICES ASSUME ends # << >> PROVE ends[1] = Newline /\ ends[Len(ends)] = Newline
    OBVIOUS
  <2>1. 1 \in 1 .. Len(ends) /\ Len(ends) \in 1 .. Len(ends)
    BY <1>2 DEF Text
  <2> QED
    BY <1>2, <2>1
<1>5. ~Unended(ends)
  BY <1>4 DEF Unended
<1>6. ends # << >> => ~Unended(begin)
  BY <1>1, <1>2, <1>5, UnendedJoined
<1>7. LinesOf(begin) = LinesOf(first) \o LinesOf(ends)
  BY <1>1, <1>2, <1>4, LinesJoined
<1>8. LinesOf(ends) = << >>
  BY <1>2, LinesOfNewlines
<1>9. LinesOf(begin) = LinesOf(first)
  <2>1. LinesOf(first) \in Seq(Seq(Command))
    BY <1>1, LinesType DEF Lines
  <2> HIDE DEF begin
  <2> QED
    BY <1>7, <1>8, <2>1
<1> HIDE DEF begin
<1>10. LinesOf(text) = LinesOf(first) \o LinesOf(rest)
  <2>1. Unended(begin) => rest = << >> \/ rest[1] = Newline
    BY <1>2, <1>6
  <2> QED
    BY <1>1, <1>3, <1>9, <2>1, LinesJoined
<1>11. first # << >> => LinesOf(text) = <<first>> \o LinesOf(rest)
  BY <1>1, <1>10, LinesOfOne
<1>12. first = << >> => LinesOf(text) = LinesOf(rest)
  <2> SUFFICES ASSUME first = << >> PROVE LinesOf(text) = LinesOf(rest)
    OBVIOUS
  <2>1. LinesOf(first) = << >>
    <3>1. \A i \in 1 .. Len(first) : first[i] = Newline
      OBVIOUS
    <3> QED
      BY <1>1, <3>1, LinesOfNewlines
  <2>2. LinesOf(rest) \in Seq(Seq(Command))
    BY <1>1, LinesType DEF Lines
  <2> QED
    BY <1>10, <2>1, <2>2
<1>13. rest # << >> => (Unended(rest) <=> Unended(text))
  BY <1>1, <1>3, UnendedJoined
<1>14. first = << >> /\ rest = << >> => ~Unended(text)
  <2> SUFFICES ASSUME first = << >>, rest = << >> PROVE ~Unended(text)
    OBVIOUS
  <2>1. Unended(text) <=> Unended(begin)
    BY <1>1, <1>3, UnendedJoined
  <2>2. ends # << >> => ~Unended(begin)
    BY <1>6
  <2>3. ends = << >> => ~Unended(begin)
    <3>1. ends = << >> => begin = << >>
      BY DEF begin
    <3> QED
      BY <3>1 DEF Unended
  <2> QED
    BY <2>1, <2>2, <2>3
<1> QED
  BY <1>11, <1>12, <1>13, <1>14 DEF first, rest

(***************************************************************************)
(* A text that begins with a command has a line.                           *)
(***************************************************************************)
LEMMA LinesBegun ==
  ASSUME NEW text \in Text, text # << >>, text[1] # Newline
  PROVE  FirstLine(text) # << >> /\ Len(LinesOf(text)) \in Nat /\ Len(LinesOf(text)) >= 1
<1>1. FirstLine(text) # << >>
  <2> SUFFICES ASSUME FirstLine(text) = << >> PROVE FALSE
    OBVIOUS
  <2> DEFINE first == FirstLine(text)
  <2>1. Len(first) = 0
    OBVIOUS
  <2>2. Len(first) < Len(text) => text[Len(first) + 1] = Newline
    BY FirstLineParts
  <2>3. 0 < Len(text)
    BY DEF Text
  <2> HIDE DEF first
  <2> QED
    BY <2>1, <2>2, <2>3
<1>2. LinesOf(text) = <<FirstLine(text)>> \o LinesOf(Remaining(text))
  BY <1>1, LinesTaken
<1>3. FirstLine(text) \in Seq(Command) /\ LinesOf(Remaining(text)) \in Seq(Seq(Command))
  BY TextParts, LinesType DEF Lines
<1>4. /\ Len(<<FirstLine(text)>> \o LinesOf(Remaining(text))) = 1 + Len(LinesOf(Remaining(text)))
      /\ Len(LinesOf(Remaining(text))) \in Nat
  BY <1>3, OneMore
<1> QED
  BY <1>1, <1>2, <1>4

-----------------------------------------------------------------------------
(***************************************************************************)
(* Adding text.                                                            *)
(***************************************************************************)
LEMMA OneText ==
  ASSUME NEW c \in Command \cup {Newline}
  PROVE  <<c>> \in Text /\ Len(<<c>>) = 1 /\ <<c>>[1] = c /\ <<c>> # << >>
  BY DEF Text

(***************************************************************************)
(* A command goes to the last line if that has no end, else to a new one.  *)
(***************************************************************************)
LEMMA CommandAdded ==
  ASSUME NEW text \in Text, NEW c \in Command
  PROVE  /\ text \o <<c>> \in Text
         /\ Unended(text \o <<c>>)
         /\ Unended(text) => LinesOf(text \o <<c>>) = Extended(LinesOf(text), c)
         /\ ~Unended(text) => LinesOf(text \o <<c>>) = Append(LinesOf(text), <<c>>)
<1> DEFINE one == <<c>>
           all == text \o one
           n == Len(text)
<1>1. one \in Text /\ Len(one) = 1 /\ one[1] = c /\ one # << >> /\ c # Newline
  BY OneText, CommandBufferAssumption DEF Newline
<1> HIDE DEF one
<1>2. /\ all \in Text /\ n \in Nat /\ Len(all) = n + 1 /\ all[n + 1] = c
      /\ \A i \in 1 .. n : all[i] = text[i]
  BY <1>1, Joined DEF Text
<1>3. Unended(one)
  BY <1>1 DEF Unended
<1>4. Unended(all)
  BY <1>1, <1>3, UnendedJoined
<1>5. LinesTo(all)[n] = LinesOf(text)
  BY <1>1, <1>2, LinesOfStart DEF LinesOf
<1>6. LinesOf(all) = LinesTo(all)[n + 1]
  BY <1>2 DEF LinesOf
<1> HIDE DEF all
<1>7. LinesTo(all)[n + 1] = WithNext(LinesTo(all)[n], all, n + 1)
  <2>1. n + 1 \in 1 .. Len(all) /\ (n + 1) - 1 = n
    BY <1>2
  <2> QED
    BY <1>2, <2>1, LinesSteps
<1>8. n + 1 > 1 /\ all[(n + 1) - 1] # Newline <=> Unended(text)
  <2>1. CASE n = 0
    <3>1. text = << >>
      BY <2>1 DEF Text
    <3> QED
      BY <2>1, <3>1 DEF Unended
  <2>2. CASE n # 0
    <3>1. n \in 1 .. n /\ (n + 1) - 1 = n /\ n + 1 > 1 /\ text # << >>
      BY <1>2, <2>2
    <3>2. all[n] = text[n]
      BY <1>2, <3>1
    <3> QED
      BY <3>1, <3>2 DEF Unended
  <2> QED
    BY <2>1, <2>2
<1>9. n + 1 \in Nat
  BY <1>2
<1>10. /\ Unended(text) => WithNext(LinesTo(all)[n], all, n + 1) = Extended(LinesTo(all)[n], c)
       /\ ~Unended(text) => WithNext(LinesTo(all)[n], all, n + 1) = Append(LinesTo(all)[n], <<c>>)
  BY <1>1, <1>2, <1>8, <1>9, NextLines
<1> QED
  BY <1>2, <1>4, <1>5, <1>6, <1>7, <1>10 DEF all, one

(***************************************************************************)
(* A newline only ends the last line.                                      *)
(***************************************************************************)
LEMMA NewlineAdded ==
  ASSUME NEW text \in Text
  PROVE  /\ text \o <<Newline>> \in Text
         /\ ~Unended(text \o <<Newline>>)
         /\ LinesOf(text \o <<Newline>>) = LinesOf(text)
<1> DEFINE one == <<Newline>>
           all == text \o one
<1>1. one \in Text /\ Len(one) = 1 /\ one[1] = Newline /\ one # << >>
  BY OneText
<1> HIDE DEF one
<1>2. all \in Text
  BY <1>1, Joined DEF Text
<1>3. ~Unended(one)
  BY <1>1 DEF Unended
<1>4. ~Unended(all)
  BY <1>1, <1>3, UnendedJoined
<1>5. LinesOf(all) = LinesOf(text) \o LinesOf(one)
  BY <1>1, LinesJoined
<1>6. LinesOf(one) = << >>
  <2>1. \A i \in 1 .. Len(one) : one[i] = Newline
    BY <1>1
  <2> QED
    BY <1>1, <2>1, LinesOfNewlines
<1>7. LinesOf(text) \in Seq(Seq(Command))
  BY LinesType DEF Lines
<1> HIDE DEF all
<1>8. LinesOf(all) = LinesOf(text)
  BY <1>5, <1>6, <1>7
<1> QED
  BY <1>2, <1>4, <1>8 DEF all, one

(***************************************************************************)
(* A line with its end is a command and a newline.                         *)
(***************************************************************************)
LEMMA TwoAdded ==
  ASSUME NEW text \in Text, NEW c \in Command
  PROVE  /\ <<c, Newline>> \in Text
         /\ text \o <<c, Newline>> = (text \o <<c>>) \o <<Newline>>
<1>1. <<c, Newline>> \in Text /\ <<c, Newline>> = <<c>> \o <<Newline>>
  BY DEF Text
<1> DEFINE x == <<c>>
           y == <<Newline>>
<1>2. x \in Text /\ y \in Text
  BY OneText
<1> HIDE DEF x, y
<1>3. text \o (x \o y) = (text \o x) \o y
  BY Zenon, <1>2, Regrouped
<1> QED
  BY <1>1, <1>3 DEF x, y

(***************************************************************************)
(* The two lines of a script are the first lines of the buffer.            *)
(***************************************************************************)
LEMMA ScriptInserted ==
  ASSUME NEW text \in Text, NEW a \in Command, NEW b \in Command
  PROVE  /\ <<a, Newline, b>> \in Text
         /\ (<<a, Newline, b>> \o <<Newline>>) \o text \in Text
         /\ Unended((<<a, Newline, b>> \o <<Newline>>) \o text) <=> Unended(text)
         /\ LinesOf((<<a, Newline, b>> \o <<Newline>>) \o text)
              = <<<<a>>, <<b>>>> \o LinesOf(text)
<1> DEFINE script == <<a, Newline, b>>
           x == <<a>>
           y == <<b>>
           nl == <<Newline>>
           s == script \o nl
           xn == x \o nl
           yn == y \o nl
<1>1. /\ x \in Text /\ y \in Text /\ nl \in Text /\ script \in Text
      /\ x \in Seq(Command) /\ y \in Seq(Command) /\ x # << >> /\ y # << >>
  BY OneText DEF Text
<1>2. script = xn \o y
  <2>1. a \in Command \cup {Newline} /\ b \in Command \cup {Newline}
        /\ Newline \in Command \cup {Newline}
    OBVIOUS
  <2> QED
    BY Zenon, <2>1, Three
<1>3. /\ xn \in Text /\ ~Unended(xn) /\ LinesOf(xn) = LinesOf(x)
      /\ yn \in Text /\ ~Unended(yn) /\ LinesOf(yn) = LinesOf(y)
  BY <1>1, NewlineAdded
<1>4. LinesOf(x) = <<x>> /\ LinesOf(y) = <<y>>
  BY <1>1, LinesOfOne
<1> HIDE DEF script, x, y, nl
<1>5. s = xn \o yn
  <2> HIDE DEF xn
  <2>1. (xn \o y) \o nl = xn \o (y \o nl)
    <3>1. xn \in Text /\ y \in Text /\ nl \in Text
      BY <1>1, <1>3
    <3> QED
      BY <3>1, Regrouped
  <2> QED
    BY <1>2, <2>1
<1> HIDE DEF xn, yn
<1>6. LinesOf(s) = <<x>> \o <<y>>
  <2>1. LinesOf(xn \o yn) = LinesOf(xn) \o LinesOf(yn)
    BY <1>3, LinesJoined
  <2> QED
    BY Zenon, <1>3, <1>4, <1>5, <2>1
<1>7. <<x>> \o <<y>> = <<x, y>>
  BY Zenon, <1>1, Two
<1>8. s \in Text /\ ~Unended(s)
  <2>1. Unended(yn) <=> Unended(xn \o yn)
    <3>1. CASE yn = << >>
      BY <1>3, <3>1, UnendedJoined DEF Unended
    <3>2. CASE yn # << >>
      BY <1>3, <3>2, UnendedJoined
    <3> QED
      BY <3>1, <3>2
  <2> QED
    BY <1>3, <1>5, <2>1, Joined DEF Text
<1> HIDE DEF s
<1>9. LinesOf(s \o text) = LinesOf(s) \o LinesOf(text)
  BY <1>8, LinesJoined
<1>10. s \o text \in Text
  BY <1>8, Joined DEF Text
<1>11. Unended(s \o text) <=> Unended(text)
  <2>1. CASE text = << >>
    BY <1>8, <2>1, UnendedJoined DEF Unended
  <2>2. CASE text # << >>
    BY <1>8, <2>2, UnendedJoined
  <2> QED
    BY <2>1, <2>2
<1>12. LinesOf(s \o text) = <<x, y>> \o LinesOf(text)
  BY <1>6, <1>7, <1>9
<1> QED
  BY <1>1, <1>10, <1>11, <1>12 DEF s, script, nl, x, y

-----------------------------------------------------------------------------
(***************************************************************************)
(* What the buffer can hold.                                               *)
(***************************************************************************)
Held(text) == text \in Text /\ Size(text) <= MAX_CMD_BUFFER

(***************************************************************************)
(* Text only goes in if there is room.                                     *)
(***************************************************************************)
LEMMA AddHeld ==
  ASSUME NEW text, Held(text), NEW added \in Text
  PROVE  Held(Cbuf_AddText(text, added))
<1>1. text \in Text /\ Size(text) \in Nat /\ Size(added) \in Nat /\ MAX_CMD_BUFFER \in Nat
  BY SizeNumbers, CommandBufferAssumption DEF Held
<1>2. CASE Fits(text, added)
  <2>1. text \o added \in Text
    BY <1>1, Joined DEF Text
  <2>2. Size(text \o added) <= MAX_CMD_BUFFER
    BY <1>1, <1>2, SizeJoined DEF Fits
  <2> QED
    BY <1>2, <2>1, <2>2 DEF Held, Cbuf_AddText
<1>3. CASE ~Fits(text, added)
  BY <1>3 DEF Cbuf_AddText
<1> QED
  BY <1>2, <1>3

(***************************************************************************)
(* A script and its newline only go in if there is room for both.          *)
(***************************************************************************)
LEMMA InsertHeld ==
  ASSUME NEW text, Held(text), NEW added \in Text
  PROVE  Held(Cbuf_InsertText(text, added))
<1>1. text \in Text /\ Size(text) \in Nat /\ Size(added) \in Nat /\ MAX_CMD_BUFFER \in Nat
  BY SizeNumbers, CommandBufferAssumption DEF Held
<1>2. CASE FitsBefore(text, added)
  <2> DEFINE nl == <<Newline>>
             begin == added \o nl
  <2>1. nl \in Text
    BY OneText
  <2>2. Size(nl) = 1
    <3>1. Len(nl) = 1 /\ nl[1] = Newline
      BY OneText
    <3> HIDE DEF nl
    <3>2. 1 \in 1 .. Len(nl) /\ 1 - 1 = 0
      BY <3>1
    <3>3. SizeTo(nl)[1] = SizeTo(nl)[0] + Bytes(nl[1]) /\ SizeTo(nl)[0] = 0
      BY <2>1, <3>2, SizeSteps
    <3> QED
      BY <3>1, <3>3 DEF Size, Bytes
  <2> HIDE DEF nl
  <2>3. begin \in Text /\ Size(begin) = Size(added) + 1
    BY <2>1, <2>2, Joined, SizeJoined DEF Text
  <2> HIDE DEF begin
  <2>4. begin \o text \in Text
    BY <1>1, <2>3, Joined DEF Text
  <2>5. Size(begin \o text) = Size(begin) + Size(text)
    BY <1>1, <2>3, SizeJoined
  <2>6. Size(begin \o text) <= MAX_CMD_BUFFER
    BY <1>1, <1>2, <2>3, <2>5 DEF FitsBefore
  <2>7. Cbuf_InsertText(text, added) = begin \o text
    BY <1>2 DEF Cbuf_InsertText, begin, nl
  <2> QED
    BY <2>4, <2>6, <2>7 DEF Held
<1>3. CASE ~FitsBefore(text, added)
  BY <1>3 DEF Cbuf_InsertText
<1> QED
  BY <1>2, <1>3

(***************************************************************************)
(* What is left is not larger.                                             *)
(***************************************************************************)
LEMMA RestHeld ==
  ASSUME NEW text, Held(text)
  PROVE  Held(Remaining(text))
<1> DEFINE first == FirstLine(text)
           rest == Remaining(text)
<1>1. text \in Text /\ first \in Text /\ rest \in Text
  BY TextParts DEF Held
<1>2. PICK ends \in Text : text = (first \o ends) \o rest
  BY <1>1, TextParts
<1> DEFINE begin == first \o ends
<1> HIDE DEF first, rest
<1>3. begin \in Text
  BY <1>1, <1>2, Joined DEF Text
<1> HIDE DEF begin
<1>4. text = begin \o rest
  BY <1>2 DEF begin
<1>5. Size(text) = Size(begin) + Size(rest)
  BY <1>1, <1>3, <1>4, SizeJoined
<1>6. Size(begin) \in Nat /\ Size(rest) \in Nat /\ Size(text) \in Nat /\ MAX_CMD_BUFFER \in Nat
  BY <1>1, <1>3, SizeNumbers, CommandBufferAssumption
<1>7. Size(rest) <= MAX_CMD_BUFFER
  BY <1>5, <1>6 DEF Held
<1> QED
  BY <1>1, <1>7 DEF Held, rest

-----------------------------------------------------------------------------
(***************************************************************************)
(* What a call is of.                                                      *)
(***************************************************************************)
Calls == {"execute", "command"}

(***************************************************************************)
(* TypeOK, taken apart.                                                    *)
(***************************************************************************)
LEMMA Types ==
  TypeOK <=> /\ Held(cmd_text) /\ cmd_wait \in 0 .. MaxWait /\ phase \in 1 .. 6
             /\ calls \in Seq(Calls) /\ ran \in Seq(Command)
             /\ reported \in 0 .. 2 /\ failed \in BOOLEAN
<1>1. Len(Phases) = 6
  BY DEF Phases
<1> QED
  BY <1>1 DEF TypeOK, Held, Text, Calls

(***************************************************************************)
(* Nothing is in the buffer at first.                                      *)
(***************************************************************************)
LEMMA Empty ==
  /\ << >> \in Text /\ Size(<< >>) = 0 /\ LinesOf(<< >>) = << >> /\ ~Unended(<< >>)
  /\ << >> \in Seq(Command)
<1> DEFINE e == << >>
<1>1. e \in Text /\ e \in Seq(Command) /\ Len(e) = 0
  BY DEF Text
<1>2. ~Unended(e)
  BY DEF Unended
<1> HIDE DEF e
<1>3. Size(e) = 0 /\ LinesOf(e) = << >>
  BY <1>1, SizeSteps, LinesSteps DEF Size, LinesOf
<1> QED
  BY <1>1, <1>2, <1>3 DEF e

(***************************************************************************)
(* TypeOK holds at first.                                                  *)
(***************************************************************************)
LEMMA InitType == ASSUME Init PROVE TypeOK
<1>1. 0 <= MAX_CMD_BUFFER /\ MaxWait \in Nat
  BY CommandBufferAssumption
<1>2. Held(cmd_text)
  BY <1>1, Empty DEF Init, Held
<1>3. calls \in Seq(Calls) /\ ran \in Seq(Command)
  BY Empty DEF Init
<1>4. cmd_wait \in 0 .. MaxWait /\ phase \in 1 .. 6 /\ reported \in 0 .. 2
  BY <1>1 DEF Init
<1>5. failed \in BOOLEAN
  BY DEF Init
<1> QED
  BY <1>2, <1>3, <1>4, <1>5, Types

(***************************************************************************)
(* Every step keeps TypeOK.                                                *)
(***************************************************************************)
LEMMA TypeKept == ASSUME TypeOK, [Next]_vars PROVE TypeOK'
<1>1. /\ Held(cmd_text) /\ cmd_wait \in 0 .. MaxWait /\ phase \in 1 .. 6
      /\ calls \in Seq(Calls) /\ ran \in Seq(Command)
      /\ reported \in 0 .. 2 /\ failed \in BOOLEAN /\ MaxWait \in Nat
  BY Types, CommandBufferAssumption
<1>2. /\ << >> \in Seq(Command) /\ << >> \in Seq(Calls) /\ Held(<< >>) /\ Len(Phases) = 6
      /\ calls # << >> => Tail(calls) \in Seq(Calls)
      /\ Call("command") \in Seq(Calls) /\ Call("execute") \in Seq(Calls)
  <2>1. Call("command") \in Seq(Calls) /\ Call("execute") \in Seq(Calls)
    <3>1. "command" \in Calls /\ "execute" \in Calls
      BY DEF Calls
    <3> QED
      BY <1>1, <3>1, OneMore DEF Call
  <2>2. Held(<< >>)
    BY Empty, CommandBufferAssumption DEF Held
  <2> QED
    BY <1>1, <2>1, <2>2 DEF Phases
<1>3. SUFFICES /\ Held(cmd_text') /\ cmd_wait' \in 0 .. MaxWait /\ phase' \in 1 .. 6
               /\ calls' \in Seq(Calls) /\ ran' \in Seq(Command)
               /\ reported' \in 0 .. 2 /\ failed' \in BOOLEAN
  BY <1>2 DEF TypeOK, Held, Text, Calls
<1>4. \A c \in Command : <<c>> \in Text /\ <<c, Newline>> \in Text /\ <<Newline>> \in Text
  BY OneText, TwoAdded, Empty
<1>5. \A a, b \in Command : <<a, Newline, b>> \in Text
  BY ScriptInserted, Empty
<1>6. ASSUME NEW c \in Command, ConsoleEvent(c) PROVE Held(cmd_text') /\ reported' \in 0 .. 2
  <2> DEFINE x == <<c>>
             nl == <<Newline>>
  <2>1. x \in Text /\ nl \in Text
    BY <1>4
  <2> HIDE DEF x, nl
  <2>2. Held(Cbuf_AddText(Cbuf_AddText(cmd_text, x), nl))
    BY <1>1, <2>1, AddHeld
  <2>3. cmd_text' = Cbuf_AddText(Cbuf_AddText(cmd_text, x), nl) /\ reported' \in 0 .. 2
    BY <1>6 DEF ConsoleEvent, Output, x, nl
  <2> QED
    BY <2>2, <2>3
<1>7. ASSUME NEW c \in Command, AddLine(c) PROVE Held(cmd_text') /\ reported' \in 0 .. 2
  <2> DEFINE x == <<c, Newline>>
  <2>1. x \in Text
    BY <1>4
  <2>2. cmd_text' = Cbuf_AddText(cmd_text, x) /\ reported' \in 0 .. 2
    BY <1>7 DEF AddLine, Output
  <2> HIDE DEF x
  <2> QED
    BY <1>1, <2>1, <2>2, AddHeld
<1>8. ASSUME NEW a \in Command, NEW b \in Command, InsertScript(a, b)
      PROVE  Held(cmd_text') /\ reported' \in 0 .. 2
  <2> DEFINE x == <<a, Newline, b>>
  <2>1. x \in Text
    BY <1>5
  <2>2. cmd_text' = Cbuf_InsertText(cmd_text, x) /\ reported' \in 0 .. 2
    BY <1>8 DEF InsertScript, Output
  <2> HIDE DEF x
  <2> QED
    BY <1>1, <2>1, <2>2, InsertHeld
<1>9. ASSUME Cbuf_Execute
      PROVE  Held(cmd_text') /\ ran' \in Seq(Command) /\ reported' \in 0 .. 2
  BY <1>1, <1>9, RestHeld, TextParts DEF Cbuf_Execute, Held, Output
<1>10. Quiet => ran' \in Seq(Command) /\ reported' \in 0 .. 2 /\ failed' \in BOOLEAN
  <2>1. Quiet => ran' = << >> /\ reported' = 0
    BY DEF Quiet, Output
  <2>2. Quiet => failed' \in BOOLEAN
    BY DEF Quiet, Output
  <2> QED
    BY <1>2, <2>1, <2>2
<1>11. CASE \E c \in Command : ConsoleEvent(c)
  BY <1>1, <1>2, <1>6, <1>11 DEF ConsoleEvent, Output
<1>12. CASE \E c \in Command : AddLine(c)
  BY <1>1, <1>2, <1>7, <1>12 DEF AddLine, Output
<1>13. CASE \E a, b \in Command : InsertScript(a, b)
  BY <1>1, <1>2, <1>8, <1>13 DEF InsertScript, Output
<1>14. CASE ExecuteNow \/ ExecuteBuffer
  <2>1. /\ cmd_wait' \in {0, cmd_wait} /\ cmd_text' = cmd_text /\ phase' = phase
        /\ calls' \in Seq(Calls)
    BY <1>2, <1>14 DEF ExecuteNow, ExecuteBuffer
  <2>2. Quiet
    BY <1>14 DEF ExecuteNow, ExecuteBuffer
  <2> QED
    BY <1>1, <1>2, <1>10, <2>1, <2>2
<1>15. CASE Cbuf_Execute
  BY <1>1, <1>2, <1>9, <1>15 DEF Cbuf_Execute, Output
<1>16. CASE \E n \in 0 .. MaxWait : Cmd_Wait_f(n)
  <2>1. cmd_wait' \in 0 .. MaxWait /\ cmd_text' = cmd_text /\ phase' = phase /\ calls' = calls
    BY <1>16 DEF Cmd_Wait_f
  <2>2. Quiet
    BY <1>16 DEF Cmd_Wait_f
  <2> QED
    BY <1>1, <1>10, <2>1, <2>2
<1>17. CASE ExecuteReturns \/ CommandReturns
  <2>1. /\ cmd_wait' = cmd_wait /\ cmd_text' = cmd_text /\ phase' = phase
        /\ calls # << >> /\ calls' = Tail(calls)
    BY <1>17 DEF ExecuteReturns, CommandReturns, InCommand
  <2>2. Quiet
    BY <1>17 DEF ExecuteReturns, CommandReturns
  <2> QED
    BY <1>1, <1>2, <1>10, <2>1, <2>2
<1>18. CASE Com_Error
  BY <1>1, <1>2, <1>18 DEF Com_Error, Output
<1>19. CASE Com_Frame
  <2>1. /\ phase' = IF phase = 6 THEN 1 ELSE phase + 1
        /\ cmd_wait' = IF phase = 6 /\ cmd_wait > 0 THEN cmd_wait - 1 ELSE cmd_wait
        /\ calls' \in {Call("execute"), calls} /\ cmd_text' = cmd_text
    BY <1>2, <1>19 DEF Com_Frame
  <2>2. Quiet
    BY <1>19 DEF Com_Frame
  <2> QED
    BY <1>1, <1>2, <1>10, <2>1, <2>2
<1>20. CASE UNCHANGED vars
  BY <1>1, <1>20 DEF vars
<1> QED
  BY <1>11, <1>12, <1>13, <1>14, <1>15, <1>16, <1>17, <1>18, <1>19, <1>20 DEF Next

(***************************************************************************)
(* The text never outgrows the buffer.                                     *)
(***************************************************************************)
THEOREM TypeCorrect == Spec => []TypeOK
  BY InitType, TypeKept, PTL DEF Spec

-----------------------------------------------------------------------------
(***************************************************************************)
(* A command that is added, by itself or with its end, is given to the     *)
(* stream.                                                                 *)
(***************************************************************************)
LEMMA Given ==
  ASSUME cmd_text \in Text, NEW c \in Command
  PROVE  /\ cmd_text' = cmd_text \o <<c>>
              => LinesOf(cmd_text') = Stream!Lengthened(c) /\ Unended(cmd_text')
         /\ cmd_text' = (cmd_text \o <<c>>) \o <<Newline>>
              => LinesOf(cmd_text') = Stream!Lengthened(c) /\ ~Unended(cmd_text')
<1> DEFINE x == <<c>>
           nl == <<Newline>>
           t == cmd_text \o x
           tn == t \o nl
<1>1. /\ t \in Text /\ Unended(t)
      /\ Unended(cmd_text) => LinesOf(t) = Extended(LinesOf(cmd_text), c)
      /\ ~Unended(cmd_text) => LinesOf(t) = Append(LinesOf(cmd_text), x)
  BY CommandAdded
<1>2. Stream!Lengthened(c) = IF Unended(cmd_text) THEN Extended(LinesOf(cmd_text), c)
                             ELSE Append(LinesOf(cmd_text), x)
  BY DEF Stream!Lengthened, Extended
<1> HIDE DEF t, x
<1>3. LinesOf(t) = Stream!Lengthened(c)
  BY <1>1, <1>2
<1>4. tn \in Text /\ ~Unended(tn) /\ LinesOf(tn) = LinesOf(t)
  BY <1>1, NewlineAdded
<1> HIDE DEF tn
<1>5. cmd_text' = t => LinesOf(cmd_text') = Stream!Lengthened(c) /\ Unended(cmd_text')
  BY <1>1, <1>3
<1>6. cmd_text' = tn => LinesOf(cmd_text') = Stream!Lengthened(c) /\ ~Unended(cmd_text')
  BY <1>3, <1>4
<1> QED
  BY <1>5, <1>6 DEF t, tn, x, nl

(***************************************************************************)
(* A console line is given, or some of it is lost.                         *)
(***************************************************************************)
LEMMA ConsoleStep ==
  ASSUME cmd_text \in Text, NEW c \in Command, ConsoleEvent(c)
  PROVE  Stream!Give(c) \/ Stream!Lose
<1> DEFINE x == <<c>>
           nl == <<Newline>>
           t == cmd_text \o x
           typed == Cbuf_AddText(cmd_text, x)
<1>1. /\ cmd_text' = Cbuf_AddText(typed, nl)
      /\ reported' = (IF Fits(cmd_text, x) THEN 0 ELSE 1) + (IF Fits(typed, nl) THEN 0 ELSE 1)
      /\ calls' = calls /\ cmd_wait' = cmd_wait /\ ran' = << >> /\ failed' = FALSE
  BY DEF ConsoleEvent, Output
<1>2. InCommand' = InCommand
  BY <1>1 DEF InCommand
<1>3. /\ cmd_text' = t => LinesOf(cmd_text') = Stream!Lengthened(c) /\ Unended(cmd_text')
      /\ cmd_text' = t \o nl => LinesOf(cmd_text') = Stream!Lengthened(c) /\ ~Unended(cmd_text')
  BY Given
<1>4. /\ Fits(cmd_text, x) => typed = t
      /\ ~Fits(cmd_text, x) => typed = cmd_text
      /\ Fits(typed, nl) => cmd_text' = typed \o nl
      /\ ~Fits(typed, nl) => cmd_text' = typed
  BY <1>1 DEF Cbuf_AddText
<1>5. cmd_text' = cmd_text \o nl => LinesOf(cmd_text') = LinesOf(cmd_text) /\ ~Unended(cmd_text')
  BY NewlineAdded
<1> HIDE DEF x, nl, t, typed
<1>6. CASE Fits(cmd_text, x) /\ Fits(typed, nl)
  <2>1. reported' = 0 /\ cmd_text' = t \o nl
    BY <1>1, <1>4, <1>6
  <2> QED
    BY <1>1, <1>2, <1>3, <2>1 DEF Stream!Give
<1>7. CASE Fits(cmd_text, x) /\ ~Fits(typed, nl)
  <2>1. reported' = 1 /\ cmd_text' = t
    BY <1>1, <1>4, <1>7
  <2> QED
    BY <1>1, <1>2, <1>3, <2>1 DEF Stream!Give
<1>8. CASE ~Fits(cmd_text, x) /\ Fits(typed, nl)
  <2>1. reported' = 1 /\ cmd_text' = cmd_text \o nl
    BY <1>1, <1>4, <1>8
  <2> QED
    BY <1>1, <1>2, <1>5, <2>1 DEF Stream!Lose
<1>9. CASE ~Fits(cmd_text, x) /\ ~Fits(typed, nl)
  <2>1. reported' = 2 /\ cmd_text' = cmd_text
    BY <1>1, <1>4, <1>9
  <2> QED
    BY <1>1, <1>2, <2>1 DEF Stream!Lose
<1> QED
  BY <1>6, <1>7, <1>8, <1>9

(***************************************************************************)
(* So is a whole line.                                                     *)
(***************************************************************************)
LEMMA LineStep ==
  ASSUME cmd_text \in Text, NEW c \in Command, AddLine(c)
  PROVE  Stream!Give(c) \/ Stream!Lose
<1> DEFINE x == <<c, Newline>>
<1>1. /\ cmd_text' = Cbuf_AddText(cmd_text, x)
      /\ reported' = IF Fits(cmd_text, x) THEN 0 ELSE 1
      /\ calls' = calls /\ cmd_wait' = cmd_wait /\ ran' = << >> /\ failed' = FALSE
  BY DEF AddLine, Output
<1>2. InCommand' = InCommand
  BY <1>1 DEF InCommand
<1>3. cmd_text \o x = (cmd_text \o <<c>>) \o <<Newline>>
  BY TwoAdded
<1>4. cmd_text' = cmd_text \o x => LinesOf(cmd_text') = Stream!Lengthened(c) /\ ~Unended(cmd_text')
  BY <1>3, Given
<1> HIDE DEF x
<1>5. CASE Fits(cmd_text, x)
  <2>1. reported' = 0 /\ cmd_text' = cmd_text \o x
    BY <1>1, <1>5 DEF Cbuf_AddText
  <2> QED
    BY <1>1, <1>2, <1>4, <2>1 DEF Stream!Give
<1>6. CASE ~Fits(cmd_text, x)
  <2>1. reported' = 1 /\ cmd_text' = cmd_text
    BY <1>1, <1>6 DEF Cbuf_AddText
  <2> QED
    BY <1>1, <1>2, <2>1 DEF Stream!Lose
<1> QED
  BY <1>5, <1>6

(***************************************************************************)
(* A script is inserted as a whole, or lost as a whole.                    *)
(***************************************************************************)
LEMMA ScriptStep ==
  ASSUME cmd_text \in Text, NEW a \in Command, NEW b \in Command, InsertScript(a, b)
  PROVE  Stream!Insert(<<<<a>>, <<b>>>>) \/ Stream!Lose
<1> DEFINE x == <<a, Newline, b>>
           t == (x \o <<Newline>>) \o cmd_text
<1>1. /\ cmd_text' = Cbuf_InsertText(cmd_text, x)
      /\ reported' = IF FitsBefore(cmd_text, x) THEN 0 ELSE 1
      /\ calls' = calls /\ cmd_wait' = cmd_wait /\ ran' = << >> /\ failed' = FALSE
  BY DEF InsertScript, Output
<1>2. InCommand' = InCommand
  BY <1>1 DEF InCommand
<1>3. /\ LinesOf(t) = <<<<a>>, <<b>>>> \o LinesOf(cmd_text)
      /\ Unended(t) <=> Unended(cmd_text)
  BY ScriptInserted
<1>4. /\ FitsBefore(cmd_text, x) => cmd_text' = t
      /\ ~FitsBefore(cmd_text, x) => cmd_text' = cmd_text
  BY <1>1 DEF Cbuf_InsertText
<1> HIDE DEF x, t
<1>5. CASE FitsBefore(cmd_text, x)
  <2>1. reported' = 0 /\ cmd_text' = t
    BY <1>1, <1>4, <1>5
  <2>2. Unended(cmd_text') = Unended(cmd_text)
    BY <1>3, <2>1 DEF Unended
  <2> QED
    BY <1>1, <1>2, <1>3, <2>1, <2>2 DEF Stream!Insert
<1>6. CASE ~FitsBefore(cmd_text, x)
  <2>1. reported' = 1 /\ cmd_text' = cmd_text
    BY <1>1, <1>4, <1>6
  <2> QED
    BY <1>1, <1>2, <2>1 DEF Stream!Lose
<1> QED
  BY <1>5, <1>6

(***************************************************************************)
(* Taking a line is running the first one, unless it is empty.             *)
(***************************************************************************)
LEMMA RunStep ==
  ASSUME cmd_text \in Text, calls \in Seq(Calls), Cbuf_Execute
  PROVE  Stream!Run \/ Stream!Proceed
<1> DEFINE first == FirstLine(cmd_text)
           rest == Remaining(cmd_text)
<1>1. /\ ~InCommand /\ cmd_wait = 0 /\ cmd_text' = rest
      /\ calls' = (IF first = << >> THEN calls ELSE Call("command"))
      /\ ran' = first /\ reported' = 0 /\ failed' = FALSE /\ cmd_wait' = cmd_wait
  BY DEF Cbuf_Execute, Output, InCommand
<1>2. /\ first \in Seq(Command) /\ rest \in Text
      /\ rest # << >> => rest[1] # Newline
  BY TextParts
<1>3. LinesOf(rest) \in Seq(Seq(Command))
  BY <1>2, LinesType DEF Lines
<1>4. /\ first # << >> => LinesOf(cmd_text) = <<first>> \o LinesOf(rest)
      /\ first = << >> => LinesOf(cmd_text) = LinesOf(rest)
      /\ rest # << >> => (Unended(rest) <=> Unended(cmd_text))
      /\ first = << >> /\ rest = << >> => ~Unended(cmd_text)
  BY LinesTaken
<1>5. rest # << >> => Len(LinesOf(rest)) >= 1
  BY <1>2, LinesBegun
<1>6. rest = << >> => Len(LinesOf(rest)) = 0 /\ ~Unended(rest)
  BY Empty
<1> HIDE DEF first, rest
<1>7. CASE first # << >>
  <2> DEFINE lines == <<first>> \o LinesOf(rest)
  <2>1. /\ lines # << >> /\ Len(lines) = 1 + Len(LinesOf(rest)) /\ Len(LinesOf(rest)) \in Nat
        /\ Head(lines) = first /\ Tail(lines) = LinesOf(rest)
    BY <1>2, <1>3, OneMore
  <2> HIDE DEF lines
  <2>2. LinesOf(cmd_text) = lines
    BY <1>4, <1>7 DEF lines
  <2>3. Unended(rest) <=> Unended(cmd_text) /\ Len(lines) > 1
    <3>1. CASE rest = << >>
      BY <1>6, <2>1, <3>1
    <3>2. CASE rest # << >>
      BY <1>4, <1>5, <2>1, <3>2
    <3> QED
      BY <3>1, <3>2
  <2>4. Unended(cmd_text') = (Unended(cmd_text) /\ Len(LinesOf(cmd_text)) > 1)
    BY <1>1, <2>2, <2>3 DEF Unended
  <2>5. InCommand' = TRUE
    <3>1. calls' = Call("command") /\ "command" \in Calls
      BY <1>1, <1>7 DEF Calls
    <3>2. calls' # << >> /\ Head(calls') = "command"
      BY <3>1, OneMore DEF Call
    <3> QED
      BY <3>2 DEF InCommand
  <2>6. Stream!Run
    BY <1>1, <2>1, <2>2, <2>4, <2>5 DEF Stream!Run
  <2> QED
    BY <2>6
<1>8. CASE first = << >>
  <2>1. LinesOf(cmd_text') = LinesOf(cmd_text)
    BY <1>1, <1>4, <1>8
  <2>2. Unended(rest) <=> Unended(cmd_text)
    BY <1>4, <1>6, <1>8
  <2>3. Unended(cmd_text') = Unended(cmd_text)
    BY <1>1, <2>2 DEF Unended
  <2>4. Stream!Proceed
    BY <1>1, <1>8, <2>1, <2>3 DEF Stream!Proceed, InCommand
  <2> QED
    BY <2>4
<1> QED
  BY <1>7, <1>8

(***************************************************************************)
(* Every step is one of the stream's, or none.                             *)
(***************************************************************************)
LEMMA StreamStep ==
  ASSUME TypeOK, [Next]_vars
  PROVE  [Stream!Next]_(Stream!vars)
<1>1. /\ cmd_text \in Text /\ cmd_wait \in 0 .. MaxWait /\ MaxWait \in Nat
      /\ calls \in Seq(Calls)
  BY Types, CommandBufferAssumption DEF Held
<1>2. ASSUME NEW c \in Command, ConsoleEvent(c) \/ AddLine(c) PROVE Stream!Next
  BY <1>1, <1>2, ConsoleStep, LineStep DEF Stream!Next
<1>3. ASSUME NEW a \in Command, NEW b \in Command, InsertScript(a, b) PROVE Stream!Next
  BY <1>1, <1>3, ScriptStep DEF Stream!Next
<1>4. CASE ExecuteNow \/ ExecuteBuffer
  <2>1. Stream!Proceed
    BY <1>4 DEF ExecuteNow, ExecuteBuffer, Quiet, Output, Stream!Proceed, InCommand
  <2> QED
    BY <2>1 DEF Stream!Next
<1>5. CASE Cbuf_Execute
  BY <1>1, <1>5, RunStep DEF Stream!Next
<1>6. CASE \E n \in 0 .. MaxWait : Cmd_Wait_f(n)
  <2>1. Stream!Wait
    BY <1>1, <1>6 DEF Cmd_Wait_f, Quiet, Output, Stream!Wait, InCommand
  <2> QED
    BY <2>1 DEF Stream!Next
<1>7. CASE ExecuteReturns \/ CommandReturns
  <2>1. Stream!Proceed
    BY <1>7 DEF ExecuteReturns, CommandReturns, Quiet, Output, Stream!Proceed, InCommand
  <2> QED
    BY <2>1 DEF Stream!Next
<1>8. CASE Com_Error
  <2>1. Stream!Fail
    BY <1>8, Empty DEF Com_Error, Output, Stream!Fail, InCommand, Unended
  <2> QED
    BY <2>1 DEF Stream!Next
<1>9. CASE Com_Frame
  <2>1. CASE phase = Len(Phases) /\ cmd_wait > 0
    <3>1. phase' = 1 /\ calls = << >> /\ calls' = << >>
      BY <1>9, <2>1 DEF Com_Frame, Phases
    <3>2. Stream!FrameEnds
      BY <1>9, <2>1, <3>1 DEF Com_Frame, Quiet, Output, Stream!FrameEnds, InCommand
    <3> QED
      BY <3>2 DEF Stream!Next
  <2>2. CASE ~(phase = Len(Phases) /\ cmd_wait > 0)
    <3>1. Stream!Proceed
      BY <1>9, <2>2 DEF Com_Frame, Quiet, Output, Stream!Proceed, InCommand
    <3> QED
      BY <3>1 DEF Stream!Next
  <2> QED
    BY <2>1, <2>2
<1>10. CASE UNCHANGED vars
  BY <1>10 DEF vars, Stream!vars, InCommand
<1> QED
  BY <1>2, <1>3, <1>4, <1>5, <1>6, <1>7, <1>8, <1>9, <1>10 DEF Next

(***************************************************************************)
(* Lines are run one by one, in the order they stand, a script's before    *)
(* all others, though lines run the buffer themselves; text is lost or run *)
(* together only when an overflow is reported, and an error drops all of   *)
(* it and never a part.                                                    *)
(***************************************************************************)
THEOREM RunsAsGiven == Spec => ImplementsCommandStream
<1>1. Init => Stream!Init
  BY Empty DEF Init, Stream!Init, InCommand
<1>2. TypeOK /\ [Next]_vars => [Stream!Next]_(Stream!vars)
  BY StreamStep
<1> QED
  BY <1>1, <1>2, TypeCorrect, PTL DEF Spec, ImplementsCommandStream, Stream!Spec
=============================================================================
