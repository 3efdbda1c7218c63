------------------------- MODULE ProviderCallProofs -------------------------
(***************************************************************************)
(* Proofs about ProviderCall: whose fault a failed call is, what is booked *)
(* for it, and that the chunks a client sees follow ChunkProtocol, for     *)
(* every set of answers, every size of a read, every framing and every     *)
(* adapter.                                                                *)
(*                                                                         *)
(* The argument goes from the wire to the client.                          *)
(*                                                                         *)
(* 1. Sequences and folds.  Facts about sequences are stated place by      *)
(*    place.  The folds of the model choose a function; FoldExists shows   *)
(*    that there is one, with induction over a set of numbers.             *)
(* 2. The stream as bytes and as text.  A frame has a fixed form in each   *)
(*    framing, so the parser's state is a function ParserAt(f, k, r, c) of *)
(*    the frames and characters taken and of the bytes read, whatever the  *)
(*    sizes of the reads (DecodedIs, NextLineTakes); so is what it makes   *)
(*    of a body that ends early (LastEventIs).                             *)
(* 3. The scripts of the five providers and the adapters' turns on them.   *)
(*    After k events an adapter's usage is UsageAt and its last chunk one  *)
(*    of Stages (TurnIs); its chunks are in order and carry no usage but   *)
(*    the answer's.                                                        *)
(* 4. The inductive invariant IInv, a Step lemma for each action, and from *)
(*    it the theorems.  StepMaps shows each step to be one of              *)
(*    ChunkProtocol's, or none.                                            *)
(***************************************************************************)
EXTENDS ProviderCall, WellFoundedInduction, TLAPS

-----------------------------------------------------------------------------
(* Induction over naturals: a property is a set here, so that it can be     *)
(* instantiated.                                                            *)
LEMMA Induction ==
    ASSUME NEW a \in Nat, NEW b \in Nat, NEW P \in SUBSET (a .. b),
           a \in P, \A i \in a .. b - 1 : i \in P => i + 1 \in P
    PROVE  \A i \in a .. b : i \in P
<1> DEFINE N == (a .. b) \ P
<1> SUFFICES ASSUME N # {} PROVE FALSE
  OBVIOUS
<1>1. IsWellFoundedOn(OpToRel(<, Nat), Nat)
  BY NatLessThanWellFounded
<1>0. N \in SUBSET Nat
  OBVIOUS
<1>2. PICK m \in N : \A n \in N : ~(<<n, m>> \in OpToRel(<, Nat))
  <2> HIDE DEF N
  <2> QED BY <1>0, <1>1, WFMin
<1>3. \A n \in N : ~(n < m)
  <2> HIDE DEF N
  <2> QED BY <1>0, <1>2 DEF OpToRel
<1>4. m \in a .. b /\ m \notin P /\ m # a
  OBVIOUS
<1>5. m - 1 \in a .. b - 1 /\ m - 1 \notin N
  BY <1>3, <1>4
<1>6. (m - 1) + 1 = m
  BY <1>4
<1> QED BY <1>4, <1>5, <1>6

-----------------------------------------------------------------------------
(* Sequences, whatever their elements are. *)
IsSeq(s) == s \in Seq(Range(s))

IsCat(u, s, t) ==
    /\ IsSeq(u) /\ Len(s) \in Nat /\ Len(t) \in Nat /\ Len(u) = Len(s) + Len(t)
    /\ DOMAIN u = 1 .. Len(u)
    /\ \A i \in 1 .. Len(u) : u[i] = IF i <= Len(s) THEN s[i] ELSE t[i - Len(s)]

(* A sequence and its domain, without saying what its elements are. *)
LEMMA SeqIs ==
    ASSUME NEW S, NEW s \in Seq(S)
    PROVE  IsSeq(s) /\ Len(s) \in Nat /\ DOMAIN s = 1 .. Len(s)
BY DEF IsSeq, Range

(* The same, from IsSeq. *)
LEMMA SeqDomain ==
    ASSUME NEW s, IsSeq(s)
    PROVE  Len(s) \in Nat /\ DOMAIN s = 1 .. Len(s)
BY DEF IsSeq

(* Sequences that agree at every place are equal. *)
LEMMA SameSeq ==
    ASSUME NEW s, NEW t, IsSeq(s), IsSeq(t), Len(s) = Len(t),
           \A i \in 1 .. Len(s) : s[i] = t[i]
    PROVE  s = t
<1>1. DOMAIN s = 1 .. Len(s) /\ DOMAIN t = 1 .. Len(s)
  BY SeqDomain
<1>2. s = [i \in 1 .. Len(s) |-> s[i]] /\ t = [i \in 1 .. Len(s) |-> t[i]]
  BY <1>1 DEF IsSeq
<1> QED BY <1>2

(* Short tuples are sequences. *)
LEMMA TuplesAreSeqs ==
    ASSUME NEW a, NEW b, NEW c, NEW d
    PROVE  /\ IsSeq(<<>>) /\ IsSeq(<<a>>) /\ IsSeq(<<a, b>>)
           /\ IsSeq(<<a, b, c>>) /\ IsSeq(<<a, b, c, d>>)
<1>1. IsSeq(<<>>) /\ IsSeq(<<a>>)
  BY DEF IsSeq, Range
<1>2. IsSeq(<<a, b>>)
  BY DEF IsSeq, Range
<1>3. IsSeq(<<a, b, c>>)
  BY DEF IsSeq, Range
<1>4. IsSeq(<<a, b, c, d>>)
  BY DEF IsSeq, Range
<1> QED BY <1>1, <1>2, <1>3, <1>4

(* What \o makes, place by place. *)
LEMMA Catenated ==
    ASSUME NEW s, NEW t, IsSeq(s), IsSeq(t)
    PROVE  IsCat(s \o t, s, t)
<1> DEFINE S == Range(s) \cup Range(t)
<1>1. s \in Seq(S) /\ t \in Seq(S)
  BY DEF IsSeq
<1> HIDE DEF S
<1>2. s \o t \in Seq(S)
  BY <1>1
<1>3. IsSeq(s \o t) /\ DOMAIN (s \o t) = 1 .. Len(s \o t)
  BY <1>2, SeqIs
<1>4. /\ Len(s) \in Nat /\ Len(t) \in Nat /\ Len(s \o t) = Len(s) + Len(t)
      /\ \A i \in 1 .. Len(s \o t) :
            (s \o t)[i] = IF i <= Len(s) THEN s[i] ELSE t[i - Len(s)]
  BY <1>1
<1> QED BY <1>3, <1>4 DEF IsCat

(* Reading IsCat. *)
LEMMA CatParts ==
    ASSUME NEW u, NEW s, NEW t, IsCat(u, s, t)
    PROVE  /\ IsSeq(u) /\ DOMAIN u = 1 .. Len(u)
           /\ Len(s) \in Nat /\ Len(t) \in Nat /\ Len(u) = Len(s) + Len(t)
           /\ \A i \in 1 .. Len(s) : u[i] = s[i]
           /\ \A i \in 1 .. Len(t) : u[Len(s) + i] = t[i]
BY DEF IsCat

-----------------------------------------------------------------------------
(* FlattenSeq is a sum of concatenations, taken from the left. *)
Summed(T, n, s) ==
    \E g \in [1 .. n -> Seq(T)] :
        /\ g[1] = s[1]
        /\ \A i \in 1 .. n - 1 : g[i + 1] = g[i] \o s[i + 1]
        /\ FlattenSeq(s) = g[n]

(* Adding one more sequence to those flattened appends it. *)
LEMMA FlattenSums ==
    ASSUME NEW T, NEW n \in Nat \ {0}, NEW s \in [1 .. n -> Seq(T)]
    PROVE  Summed(T, n, s)
<1> DEFINE f[i \in 1 .. Len(s)] == IF i = 1 THEN s[i] ELSE f[i - 1] \o s[i]
           Cat(x, y) == x \o y
           Sums(g, m) == /\ g[1] = s[1]
                         /\ \A i \in 1 .. m - 1 : g[i + 1] = Cat(g[i], s[i + 1])
           P == {m \in 1 .. n : \E g \in [1 .. m -> Seq(T)] : Sums(g, m)}
<1>1. Len(s) = n /\ FlattenSeq(s) = f[n]
  <2>1. Len(s) = n
    OBVIOUS
  <2> QED BY <2>1 DEF FlattenSeq
<1>0. \A x, y \in Seq(T) : Cat(x, y) \in Seq(T)
  OBVIOUS
<1>a. /\ n \in Nat /\ 1 \in Nat /\ n \in 1 .. n /\ 1 \in 1 .. n /\ 1 \in 1 .. 1
      /\ 1 .. 1 - 1 = {}
  OBVIOUS
<1> HIDE DEF Cat
<1>2. 1 \in P
  <2> DEFINE h == [i \in 1 .. 1 |-> s[1]]
  <2>1. h \in [1 .. 1 -> Seq(T)] /\ h[1] = s[1]
    BY <1>a
  <2>2. Sums(h, 1)
    BY <2>1, <1>a
  <2> HIDE DEF h
  <2> QED BY <2>1, <2>2, <1>a
<1>3. \A m \in 1 .. n - 1 : m \in P => m + 1 \in P
  <2> SUFFICES ASSUME NEW m \in 1 .. n - 1, m \in P
               PROVE  \E g \in [1 .. m + 1 -> Seq(T)] : Sums(g, m + 1)
    <3>1. \A m \in 1 .. n - 1 : m + 1 \in 1 .. n
      OBVIOUS
    <3> QED BY <3>1
  <2>0. m \in 1 .. m /\ m + 1 \in 1 .. n /\ m + 1 \in 1 .. m + 1 /\ m + 1 \notin 1 .. m
    OBVIOUS
  <2>1. PICK g \in [1 .. m -> Seq(T)] : Sums(g, m)
    OBVIOUS
  <2> DEFINE h == [i \in 1 .. m + 1 |-> IF i = m + 1 THEN Cat(g[m], s[m + 1]) ELSE g[i]]
  <2>2. \A i \in 1 .. m : h[i] = g[i]
    OBVIOUS
  <2>3. h[m + 1] = Cat(g[m], s[m + 1])
    OBVIOUS
  <2>4. h \in [1 .. m + 1 -> Seq(T)]
    <3>1. g[m] \in Seq(T) /\ s[m + 1] \in Seq(T)
      BY <2>0
    <3>2. Cat(g[m], s[m + 1]) \in Seq(T)
      BY <3>1, <1>0
    <3>3. \A i \in 1 .. m + 1 : i # m + 1 => i \in 1 .. m
      OBVIOUS
    <3> QED BY <3>2, <3>3
  <2>5. Sums(h, m + 1)
    <3> HIDE DEF h
    <3>1. h[1] = s[1]
      BY <2>1, <2>2
    <3>2. \A i \in 1 .. m - 1 : i \in 1 .. m /\ i + 1 \in 1 .. m
      OBVIOUS
    <3>3. \A i \in 1 .. m - 1 : h[i + 1] = Cat(h[i], s[i + 1])
      BY <2>1, <2>2, <3>2
    <3>4. h[m + 1] = Cat(h[m], s[m + 1])
      BY <2>0, <2>2, <2>3
    <3>5. \A i \in 1 .. (m + 1) - 1 : i \in 1 .. m - 1 \/ i = m
      OBVIOUS
    <3> QED BY <3>1, <3>3, <3>4, <3>5
  <2> QED BY <2>4, <2>5
<1>4. n \in P
  <2>1. P \in SUBSET (1 .. n)
    OBVIOUS
  <2> HIDE DEF P
  <2> QED BY <2>1, <1>a, <1>2, <1>3, Induction
<1>5. PICK g \in [1 .. n -> Seq(T)] : Sums(g, n)
  BY <1>4
<1>b. /\ \A i \in 2 .. n : i - 1 \in 1 .. n - 1 /\ (i - 1) + 1 = i
      /\ \A i \in 1 .. n - 1 : i + 1 \in 1 .. n /\ i + 1 # 1 /\ (i + 1) - 1 = i
      /\ \A i \in 1 .. n : i = 1 \/ i \in 2 .. n
  OBVIOUS
<1>6. \A i \in 1 .. n : g[i] = IF i = 1 THEN s[i] ELSE Cat(g[i - 1], s[i])
  <2>1. \A i \in 2 .. n : g[i] = Cat(g[i - 1], s[i])
    BY <1>5, <1>b
  <2> QED BY <1>5, <1>b, <2>1
<1>7. f = [i \in 1 .. n |-> IF i = 1 THEN s[i] ELSE Cat(f[i - 1], s[i])]
  <2>1. g = [i \in 1 .. n |-> IF i = 1 THEN s[i] ELSE Cat(g[i - 1], s[i])]
    BY <1>6
  <2>2. f = CHOOSE f1 : f1 = [i \in 1 .. n |-> IF i = 1 THEN s[i] ELSE Cat(f1[i - 1], s[i])]
    BY <1>1 DEF Cat
  <2> HIDE DEF f
  <2> QED BY <2>1, <2>2
<1> HIDE DEF f
<1>8. f[1] = s[1] /\ \A i \in 1 .. n - 1 : f[i + 1] = Cat(f[i], s[i + 1])
  <2>1. \A i \in 1 .. n : f[i] = IF i = 1 THEN s[i] ELSE Cat(f[i - 1], s[i])
    BY <1>7
  <2> QED BY <1>a, <1>b, <2>1
<1> DEFINE Q == {m \in 1 .. n : f[m] = g[m]}
<1>9. 1 \in Q
  BY <1>a, <1>5, <1>8
<1>10. \A m \in 1 .. n - 1 : m \in Q => m + 1 \in Q
  BY <1>b, <1>5, <1>8
<1>11. n \in Q
  <2>1. Q \in SUBSET (1 .. n)
    OBVIOUS
  <2> HIDE DEF Q
  <2> QED BY <2>1, <1>a, <1>9, <1>10, Induction
<1>12. f[n] = g[n]
  BY <1>11
<1> QED BY <1>1, <1>5, <1>12 DEF Cat, Summed

-----------------------------------------------------------------------------
(* The stream as text.  In each framing a frame has a fixed number of bytes *)
(* (and one character less), the place of the lead byte, and the places at  *)
(* which its lines begin.                                                   *)
Data == <<"data", 0>>
Note == <<"note", 0>>
N == Len(NativeEvents)

FrameLen(f) == IF f = "lf" THEN 5 ELSE IF f = "crlf" THEN 7 ELSE 9
TextLen(f) == FrameLen(f) - 1
EndLen(f) == IF f = "crlf" THEN 2 ELSE 1
Lead(f) == IF f = "named" THEN 6 ELSE 2
LineStarts(f) == IF f = "lf" THEN {0, 3} ELSE IF f = "crlf" THEN {0, 4} ELSE {0, 2, 4, 7}

FrameBytes(f, x) ==
    IF f = "lf" THEN <<Data, <<"lead", x>>, <<"cont", x>>, LF, LF>>
    ELSE IF f = "crlf" THEN <<Data, <<"lead", x>>, <<"cont", x>>, CR, LF, CR, LF>>
    ELSE <<Note, LF, <<"event", x>>, LF, Data, <<"lead", x>>, <<"cont", x>>, LF, LF>>

FrameText(f, x) ==
    IF f = "lf" THEN <<Data, <<"char", x>>, LF, LF>>
    ELSE IF f = "crlf" THEN <<Data, <<"char", x>>, CR, LF, CR, LF>>
    ELSE <<Note, LF, <<"event", x>>, LF, Data, <<"char", x>>, LF, LF>>

(* Byte q and character q of the whole stream. *)
ByteAt(f, q) == FrameBytes(f, ((q - 1) \div FrameLen(f)) + 1)[((q - 1) % FrameLen(f)) + 1]
CharAt(f, q) == FrameText(f, ((q - 1) \div TextLen(f)) + 1)[((q - 1) % TextLen(f)) + 1]

(* What the decoder has made of the first c bytes: so many characters, and  *)
(* perhaps a lead byte.                                                     *)
Chars(f, c) == TextLen(f) * (c \div FrameLen(f))
               + (IF c % FrameLen(f) >= Lead(f) THEN (c % FrameLen(f)) - 1 ELSE c % FrameLen(f))
Carry(f, c) == IF c % FrameLen(f) = Lead(f) THEN <<"lead", (c \div FrameLen(f)) + 1>> ELSE NoByte

(* The parser has read c bytes; the lines it has taken end k frames and the *)
(* r characters that follow.                                                *)
Taken(f, k, r) == TextLen(f) * k + r
Row(f, t, a) == [j \in 1 .. a |-> CharAt(f, t + j)]
LinesAt(f, k, r) ==
    IF r = TextLen(f) - EndLen(f) THEN <<<<<<"char", k + 1>>>>>> ELSE <<>>
NameAt(f, k, r) == IF f = "named" /\ r >= 4 THEN k + 1 ELSE 0
ParserAt(f, k, r, c) ==
    [buffer |-> Row(f, Taken(f, k, r), Chars(f, c) - Taken(f, k, r)),
     carry  |-> Carry(f, c), lines |-> LinesAt(f, k, r), name |-> NameAt(f, k, r)]

-----------------------------------------------------------------------------
(* The bytes of an answer, and their places. *)
Forms == {"lf", "crlf", "named"}

(* A frame of the stream is the table FrameBytes. *)
LEMMA FrameIs ==
    ASSUME NEW x, NEW f \in Forms, req.framing = f
    PROVE  /\ IsSeq(Frame(x)) /\ Len(Frame(x)) = FrameLen(f)
           /\ \A i \in 1 .. FrameLen(f) : Frame(x)[i] = FrameBytes(f, x)[i]
<1> DEFINE eol == IF f = "crlf" THEN <<CR, LF>> ELSE <<LF>>
           head == IF f = "named"
                   THEN <<<<"note", 0>>, LF, <<"event", x>>, LF>> ELSE <<>>
           body == <<<<"data", 0>>, <<"lead", x>>, <<"cont", x>>>>
           one == head \o body
           two == one \o eol
           all == two \o eol
<1>1. Frame(x) = all
  BY DEF Frame
<1>2. /\ IsSeq(body) /\ Len(body) = 3 /\ body[1] = Data
      /\ body[2] = <<"lead", x>> /\ body[3] = <<"cont", x>>
  BY TuplesAreSeqs DEF Data
<1>3. IsSeq(head) /\ IsSeq(eol)
  BY TuplesAreSeqs
<1>4. /\ f # "named" => Len(head) = 0
      /\ f = "named" => /\ Len(head) = 4 /\ head[1] = Note /\ head[2] = LF
                        /\ head[3] = <<"event", x>> /\ head[4] = LF
  <2>1. CASE f = "named"
    BY <2>1 DEF Note
  <2>2. CASE f # "named"
    BY <2>2
  <2> QED BY <2>1, <2>2
<1>0. /\ f # "crlf" => Len(eol) = 1 /\ eol[1] = LF
      /\ f = "crlf" => Len(eol) = 2 /\ eol[1] = CR /\ eol[2] = LF
  <2>1. CASE f = "crlf"
    BY <2>1
  <2>2. CASE f # "crlf"
    BY <2>2
  <2> QED BY <2>1, <2>2
<1> HIDE DEF eol, head, body
<1>5. IsCat(one, head, body) /\ IsSeq(one)
  BY <1>2, <1>3, Catenated DEF IsCat
<1> HIDE DEF one
<1>a. /\ Len(one) = Len(head) + Len(body)
      /\ \A i \in 1 .. Len(head) : one[i] = head[i]
      /\ \A i \in 1 .. Len(body) : one[Len(head) + i] = body[i]
  BY <1>5, CatParts
<1>6. IsCat(two, one, eol) /\ IsSeq(two)
  BY <1>3, <1>5, Catenated DEF IsCat
<1> HIDE DEF two
<1>b. /\ Len(two) = Len(one) + Len(eol)
      /\ \A i \in 1 .. Len(one) : two[i] = one[i]
      /\ \A i \in 1 .. Len(eol) : two[Len(one) + i] = eol[i]
  BY <1>6, CatParts
<1>7. IsCat(all, two, eol) /\ IsSeq(all)
  BY <1>3, <1>6, Catenated DEF IsCat
<1> HIDE DEF all
<1>c. /\ Len(all) = Len(two) + Len(eol)
      /\ \A i \in 1 .. Len(two) : all[i] = two[i]
      /\ \A i \in 1 .. Len(eol) : all[Len(two) + i] = eol[i]
  BY <1>7, CatParts
<1>8. CASE f = "lf"
  <2>0. Len(eol) = 1 /\ eol[1] = LF
    BY <1>0, <1>8
  <2>1. Len(one) = 3
    BY <1>2, <1>4, <1>a, <1>8
  <2>2. one[1] = Data /\ one[2] = <<"lead", x>> /\ one[3] = <<"cont", x>>
    <3>1. \A i \in 1 .. 3 : one[0 + i] = body[i]
      BY <1>2, <1>4, <1>a, <1>8
    <3> QED BY <1>2, <3>1
  <2>3. Len(two) = 4
    BY <1>b, <2>0, <2>1
  <2>4. two[1] = Data /\ two[2] = <<"lead", x>> /\ two[3] = <<"cont", x>> /\ two[4] = LF
    <3>1. (\A i \in 1 .. 3 : two[i] = one[i]) /\ (\A i \in 1 .. 1 : two[3 + i] = eol[i])
      BY <1>b, <2>0, <2>1
    <3> QED BY <2>0, <2>2, <3>1
  <2>5. Len(all) = 5
    BY <1>c, <2>0, <2>3
  <2>6. all[1] = Data /\ all[2] = <<"lead", x>> /\ all[3] = <<"cont", x>> /\ all[4] = LF /\ all[5] = LF
    <3>1. (\A i \in 1 .. 4 : all[i] = two[i]) /\ (\A i \in 1 .. 1 : all[4 + i] = eol[i])
      BY <1>c, <2>0, <2>3
    <3> QED BY <2>0, <2>4, <3>1
  <2>7. \A i \in 1 .. 5 : i \in {1, 2, 3, 4, 5}
    OBVIOUS
  <2> QED BY <1>1, <1>7, <1>8, <2>5, <2>6, <2>7 DEF FrameLen, FrameBytes
<1>9. CASE f = "crlf"
  <2>0. Len(eol) = 2 /\ eol[1] = CR /\ eol[2] = LF
    BY <1>0, <1>9
  <2>1. Len(one) = 3
    BY <1>2, <1>4, <1>a, <1>9
  <2>2. one[1] = Data /\ one[2] = <<"lead", x>> /\ one[3] = <<"cont", x>>
    <3>1. \A i \in 1 .. 3 : one[0 + i] = body[i]
      BY <1>2, <1>4, <1>a, <1>9
    <3> QED BY <1>2, <3>1
  <2>3. Len(two) = 5
    BY <1>b, <2>0, <2>1
  <2>4. two[1] = Data /\ two[2] = <<"lead", x>> /\ two[3] = <<"cont", x>> /\ two[4] = CR /\ two[5] = LF
    <3>1. (\A i \in 1 .. 3 : two[i] = one[i]) /\ (\A i \in 1 .. 2 : two[3 + i] = eol[i])
      BY <1>b, <2>0, <2>1
    <3> QED BY <2>0, <2>2, <3>1
  <2>5. Len(all) = 7
    BY <1>c, <2>0, <2>3
  <2>6. all[1] = Data /\ all[2] = <<"lead", x>> /\ all[3] = <<"cont", x>> /\ all[4] = CR /\ all[5] = LF /\ all[6] = CR /\ all[7] = LF
    <3>1. (\A i \in 1 .. 5 : all[i] = two[i]) /\ (\A i \in 1 .. 2 : all[5 + i] = eol[i])
      BY <1>c, <2>0, <2>3
    <3> QED BY <2>0, <2>4, <3>1
  <2>7. \A i \in 1 .. 7 : i \in {1, 2, 3, 4, 5, 6, 7}
    OBVIOUS
  <2> QED BY <1>1, <1>7, <1>9, <2>5, <2>6, <2>7 DEF FrameLen, FrameBytes
<1>10. CASE f = "named"
  <2>0. Len(eol) = 1 /\ eol[1] = LF
    BY <1>0, <1>10
  <2>1. Len(one) = 7
    <3>1. Len(head) = 4 /\ Len(body) = 3
      BY <1>2, <1>4, <1>10
    <3> QED BY <1>a, <3>1
  <2>2. one[1] = Note /\ one[2] = LF /\ one[3] = <<"event", x>> /\ one[4] = LF /\ one[5] = Data /\ one[6] = <<"lead", x>> /\ one[7] = <<"cont", x>>
    <3>1. \A i \in 1 .. 4 : one[i] = head[i]
      BY <1>2, <1>4, <1>a, <1>10
    <3>2. \A i \in 1 .. 3 : one[4 + i] = body[i]
      BY <1>2, <1>4, <1>a, <1>10
    <3> QED BY <1>2, <1>4, <1>10, <3>1, <3>2
  <2>3. Len(two) = 8
    BY <1>b, <2>0, <2>1
  <2>4. two[1] = Note /\ two[2] = LF /\ two[3] = <<"event", x>> /\ two[4] = LF /\ two[5] = Data /\ two[6] = <<"lead", x>> /\ two[7] = <<"cont", x>> /\ two[8] = LF
    <3>1. (\A i \in 1 .. 7 : two[i] = one[i]) /\ (\A i \in 1 .. 1 : two[7 + i] = eol[i])
      BY <1>b, <2>0, <2>1
    <3> QED BY <2>0, <2>2, <3>1
  <2>5. Len(all) = 9
    BY <1>c, <2>0, <2>3
  <2>6. all[1] = Note /\ all[2] = LF /\ all[3] = <<"event", x>> /\ all[4] = LF /\ all[5] = Data /\ all[6] = <<"lead", x>> /\ all[7] = <<"cont", x>> /\ all[8] = LF /\ all[9] = LF
    <3>1. (\A i \in 1 .. 8 : all[i] = two[i]) /\ (\A i \in 1 .. 1 : all[8 + i] = eol[i])
      BY <1>c, <2>0, <2>3
    <3> QED BY <2>0, <2>4, <3>1
  <2>7. \A i \in 1 .. 9 : i \in {1, 2, 3, 4, 5, 6, 7, 8, 9}
    OBVIOUS
  <2> QED BY <1>1, <1>7, <1>10, <2>5, <2>6, <2>7 DEF FrameLen, FrameBytes
<1> QED BY <1>8, <1>9, <1>10 DEF Forms

PlacesOf(f, m) ==
    /\ FrameLen(f) \in Nat /\ TextLen(f) \in Nat /\ Lead(f) \in 1 .. FrameLen(f)
    /\ \A i \in 1 .. FrameLen(f) :
          ByteAt(f, FrameLen(f) * m + i) = FrameBytes(f, m + 1)[i]
    /\ \A i \in 1 .. TextLen(f) :
          CharAt(f, TextLen(f) * m + i) = FrameText(f, m + 1)[i]
    /\ \A i \in 0 .. FrameLen(f) - 1 :
          /\ Chars(f, FrameLen(f) * m + i) =
                TextLen(f) * m + (IF i >= Lead(f) THEN i - 1 ELSE i)
          /\ Carry(f, FrameLen(f) * m + i) =
                IF i = Lead(f) THEN <<"lead", m + 1>> ELSE NoByte

(* Where a place of the stream is: its frame and its place in the frame. *)
LEMMA Places ==
    ASSUME NEW f \in Forms, NEW m \in Nat
    PROVE  PlacesOf(f, m)
<1> USE DEF FrameLen, TextLen, Lead, Forms, PlacesOf
<1>1. CASE f = "lf"
  <2>1. \A i \in 1 .. 5 : (5 * m + i - 1) \div 5 = m /\ (5 * m + i - 1) % 5 = i - 1
    OBVIOUS
  <2>2. \A i \in 1 .. 4 : (4 * m + i - 1) \div 4 = m /\ (4 * m + i - 1) % 4 = i - 1
    OBVIOUS
  <2>3. \A i \in 0 .. 4 : (5 * m + i) \div 5 = m /\ (5 * m + i) % 5 = i
    OBVIOUS
  <2> QED BY <1>1, <2>1, <2>2, <2>3 DEF ByteAt, CharAt, Chars, Carry
<1>2. CASE f = "crlf"
  <2>1. \A i \in 1 .. 7 : (7 * m + i - 1) \div 7 = m /\ (7 * m + i - 1) % 7 = i - 1
    OBVIOUS
  <2>2. \A i \in 1 .. 6 : (6 * m + i - 1) \div 6 = m /\ (6 * m + i - 1) % 6 = i - 1
    OBVIOUS
  <2>3. \A i \in 0 .. 6 : (7 * m + i) \div 7 = m /\ (7 * m + i) % 7 = i
    OBVIOUS
  <2> QED BY <1>2, <2>1, <2>2, <2>3 DEF ByteAt, CharAt, Chars, Carry
<1>3. CASE f = "named"
  <2>1. \A i \in 1 .. 9 : (9 * m + i - 1) \div 9 = m /\ (9 * m + i - 1) % 9 = i - 1
    OBVIOUS
  <2>2. \A i \in 1 .. 8 : (8 * m + i - 1) \div 8 = m /\ (8 * m + i - 1) % 8 = i - 1
    OBVIOUS
  <2>3. \A i \in 0 .. 8 : (9 * m + i) \div 9 = m /\ (9 * m + i) % 9 = i
    OBVIOUS
  <2> QED BY <1>3, <2>1, <2>2, <2>3 DEF ByteAt, CharAt, Chars, Carry
<1> QED BY <1>1, <1>2, <1>3

(* Every count of bytes is some whole frames and a rest. *)
LEMMA Divided ==
    ASSUME NEW f \in Forms, NEW c \in Nat
    PROVE  \E m \in Nat, i \in 0 .. FrameLen(f) - 1 : c = FrameLen(f) * m + i
<1>1. /\ c = 5 * (c \div 5) + (c % 5) /\ c \div 5 \in Nat /\ c % 5 \in 0 .. 4
      /\ c = 7 * (c \div 7) + (c % 7) /\ c \div 7 \in Nat /\ c % 7 \in 0 .. 6
      /\ c = 9 * (c \div 9) + (c % 9) /\ c \div 9 \in Nat /\ c % 9 \in 0 .. 8
  OBVIOUS
<1>2. CASE f = "lf"
  BY <1>1, <1>2 DEF FrameLen
<1>3. CASE f = "crlf"
  BY <1>1, <1>3 DEF FrameLen
<1>4. CASE f = "named"
  BY <1>1, <1>4 DEF FrameLen
<1> QED BY <1>2, <1>3, <1>4 DEF Forms

(* Frames are not empty, and one character shorter than their bytes. *)
LEMMA FrameLens ==
    ASSUME NEW f \in Forms
    PROVE  FrameLen(f) \in Nat \ {0} /\ TextLen(f) \in Nat \ {0} /\ TextLen(f) = FrameLen(f) - 1
BY DEF Forms, FrameLen, TextLen

(* The bytes of all the frames: byte q of them is ByteAt(f, q). *)
Bytes(f, m) == [q \in 1 .. FrameLen(f) * m |-> ByteAt(f, q)]

(* The bytes of m frames. *)
LEMMA BytesSeq ==
    ASSUME NEW f \in Forms, NEW m \in Nat
    PROVE  IsSeq(Bytes(f, m)) /\ Len(Bytes(f, m)) = FrameLen(f) * m
<1>1. FrameLen(f) * m \in Nat
  BY DEF FrameLen, Forms
<1> QED BY <1>1 DEF Bytes, IsSeq, Range

(* The first frame is the bytes of one frame. *)
LEMMA BytesOne ==
    ASSUME NEW f \in Forms, req.framing = f
    PROVE  Frame(1) = Bytes(f, 1)
<1>1. IsSeq(Frame(1)) /\ Len(Frame(1)) = FrameLen(f)
  BY FrameIs
<1>2. \A i \in 1 .. FrameLen(f) : Frame(1)[i] = FrameBytes(f, 1)[i]
  BY FrameIs
<1>3. FrameLen(f) \in Nat /\ FrameLen(f) * 1 = FrameLen(f) /\ FrameLen(f) * 0 = 0
  BY FrameLens
<1>4. IsSeq(Bytes(f, 1)) /\ Len(Bytes(f, 1)) = FrameLen(f)
  BY BytesSeq, <1>3
<1>5. \A i \in 1 .. FrameLen(f) : Bytes(f, 1)[i] = ByteAt(f, i)
  BY <1>3 DEF Bytes
<1>6. \A i \in 1 .. FrameLen(f) : ByteAt(f, FrameLen(f) * 0 + i) = FrameBytes(f, 0 + 1)[i]
  BY Places DEF PlacesOf
<1>7. \A i \in 1 .. FrameLen(f) : FrameLen(f) * 0 + i = i
  BY <1>3
<1>8. \A i \in 1 .. Len(Frame(1)) : Frame(1)[i] = Bytes(f, 1)[i]
  BY <1>1, <1>2, <1>5, <1>6, <1>7
<1> QED BY <1>1, <1>4, <1>8, SameSeq

(* One frame more. *)
LEMMA BytesNext ==
    ASSUME NEW f \in Forms, req.framing = f, NEW m \in Nat
    PROVE  Bytes(f, m) \o Frame(m + 1) = Bytes(f, m + 1)
<1> DEFINE u == Bytes(f, m) \o Frame(m + 1)
<1>1. IsSeq(Frame(m + 1)) /\ Len(Frame(m + 1)) = FrameLen(f)
  BY FrameIs
<1>2. \A i \in 1 .. FrameLen(f) : Frame(m + 1)[i] = FrameBytes(f, m + 1)[i]
  BY FrameIs
<1>3. /\ FrameLen(f) \in Nat /\ FrameLen(f) * m \in Nat
      /\ FrameLen(f) * (m + 1) = FrameLen(f) * m + FrameLen(f)
  BY FrameLens
<1>4. IsSeq(Bytes(f, m)) /\ Len(Bytes(f, m)) = FrameLen(f) * m
  BY BytesSeq
<1>5. IsSeq(Bytes(f, m + 1)) /\ Len(Bytes(f, m + 1)) = FrameLen(f) * (m + 1)
  BY BytesSeq
<1>6. IsCat(u, Bytes(f, m), Frame(m + 1))
  BY <1>1, <1>4, Catenated
<1> HIDE DEF u
<1>7. /\ IsSeq(u) /\ Len(u) = Len(Bytes(f, m)) + Len(Frame(m + 1))
      /\ \A i \in 1 .. Len(Bytes(f, m)) : u[i] = Bytes(f, m)[i]
      /\ \A i \in 1 .. Len(Frame(m + 1)) : u[Len(Bytes(f, m)) + i] = Frame(m + 1)[i]
  BY <1>6, CatParts
<1>8. \A i \in 1 .. FrameLen(f) : ByteAt(f, FrameLen(f) * m + i) = FrameBytes(f, m + 1)[i]
  BY Places DEF PlacesOf
<1> DEFINE a == FrameLen(f) * m
           b == FrameLen(f)
<1>9. /\ \A i \in 1 .. a : u[i] = ByteAt(f, i)
      /\ \A i \in 1 .. b : u[a + i] = ByteAt(f, a + i)
  <2>1. \A i \in 1 .. a : u[i] = ByteAt(f, i)
    BY <1>4, <1>7 DEF Bytes
  <2>2. \A i \in 1 .. b : u[a + i] = ByteAt(f, a + i)
    BY <1>1, <1>2, <1>4, <1>7, <1>8
  <2> QED BY <2>1, <2>2
<1>10. \A i \in 1 .. a + b : Bytes(f, m + 1)[i] = ByteAt(f, i)
  BY <1>3 DEF Bytes
<1>11. Len(u) = a + b /\ Len(Bytes(f, m + 1)) = a + b /\ a \in Nat /\ b \in Nat
  BY <1>1, <1>3, <1>4, <1>5, <1>7
<1> HIDE DEF a, b
<1>12. \A i \in 1 .. a + b : i \in 1 .. a \/ (i - a \in 1 .. b /\ i = a + (i - a))
  BY <1>11
<1>13. \A i \in 1 .. Len(u) : u[i] = Bytes(f, m + 1)[i]
  BY <1>9, <1>10, <1>11, <1>12
<1> QED BY <1>5, <1>7, <1>11, <1>13, SameSeq DEF u

(* The whole answer on the wire is the bytes of its n frames. *)
LEMMA WireIs ==
    ASSUME NEW f \in Forms, req.framing = f, NEW n \in Nat \ {0}, DOMAIN NativeEvents = 1 .. n
    PROVE  Wire = Bytes(f, n)
<1> DEFINE s == [x \in 1 .. n |-> Frame(x)]
           T == UNION {Range(Frame(x)) : x \in 1 .. n}
<1>1. Wire = FlattenSeq(s)
  BY DEF Wire
<1>2. s \in [1 .. n -> Seq(T)]
  <2>1. \A x \in 1 .. n : Frame(x) \in Seq(Range(Frame(x)))
    BY FrameIs DEF IsSeq
  <2>2. \A x \in 1 .. n : Range(Frame(x)) \subseteq T
    OBVIOUS
  <2>3. \A x \in 1 .. n : Frame(x) \in Seq(T)
    <3> HIDE DEF T
    <3> QED BY <2>1, <2>2
  <2> HIDE DEF T
  <2> QED BY <2>3
<1>a. \A x \in 1 .. n : s[x] = Frame(x)
  OBVIOUS
<1> HIDE DEF s, T
<1>3. PICK g \in [1 .. n -> Seq(T)] :
         /\ g[1] = s[1]
         /\ \A i \in 1 .. n - 1 : g[i + 1] = g[i] \o s[i + 1]
         /\ FlattenSeq(s) = g[n]
  <2>1. Summed(T, n, s)
    BY <1>2, FlattenSums
  <2> QED BY <2>1 DEF Summed
<1> DEFINE P == {i \in 1 .. n : g[i] = Bytes(f, i)}
<1>4. 1 \in P
  <2>1. 1 \in 1 .. n
    OBVIOUS
  <2> QED BY <2>1, <1>3, <1>a, BytesOne
<1>5. \A i \in 1 .. n - 1 : i \in P => i + 1 \in P
  <2> SUFFICES ASSUME NEW i \in 1 .. n - 1, i \in P PROVE i + 1 \in P
    OBVIOUS
  <2>1. i \in Nat /\ i + 1 \in 1 .. n
    OBVIOUS
  <2>2. g[i + 1] = Bytes(f, i) \o Frame(i + 1)
    BY <1>3, <1>a, <2>1
  <2> QED BY <2>1, <2>2, BytesNext
<1>6. P \in SUBSET (1 .. n) /\ 1 \in Nat /\ n \in Nat /\ n \in 1 .. n
  OBVIOUS
<1>7. n \in P
  <2> HIDE DEF P
  <2> QED BY <1>4, <1>5, <1>6, Induction
<1> QED BY <1>1, <1>3, <1>7

(* The greatest number of a set that has its bound. *)
LEMMA TopOf ==
    ASSUME NEW m \in Nat, NEW s \in SUBSET (1 .. m + 1), m + 1 \in s
    PROVE  Max(s) = m + 1
<1>1. \A y \in s : y \in Nat /\ m + 1 >= y
  OBVIOUS
<1>2. \A x \in s : (\A y \in s : x >= y) => x = m + 1
  BY <1>1
<1>3. \E x \in s : \A y \in s : x >= y
  BY <1>1
<1> QED BY <1>2, <1>3, Zenon DEF Max

(* A finite set of numbers has a greatest one. *)
LEMMA MaxOf ==
    ASSUME NEW n \in Nat, NEW t \in SUBSET (1 .. n), t # {}
    PROVE  Max(t) \in t
<1> DEFINE Bounded(s) == \E x \in s : \A y \in s : x >= y
           P == {m \in 0 .. n : \A s \in SUBSET (1 .. m) : s # {} => Bounded(s)}
<1>1. 0 \in P
  <2>1. 0 \in 0 .. n /\ \A s \in SUBSET (1 .. 0) : s = {}
    OBVIOUS
  <2> QED BY <2>1
<1>2. \A m \in 0 .. n - 1 : m \in P => m + 1 \in P
  <2> SUFFICES ASSUME NEW m \in 0 .. n - 1, m \in P,
                      NEW s \in SUBSET (1 .. m + 1), s # {}
               PROVE  Bounded(s)
    OBVIOUS
  <2>1. CASE m + 1 \in s
    BY <2>1
  <2>2. CASE m + 1 \notin s
    <3>1. s \in SUBSET (1 .. m)
      BY <2>2
    <3> QED BY <3>1
  <2> QED BY <2>1, <2>2
<1>3. P \in SUBSET (0 .. n) /\ 0 \in Nat /\ n \in Nat /\ n \in 0 .. n
  OBVIOUS
<1>4. n \in P
  <2> HIDE DEF P
  <2> QED BY <1>1, <1>2, <1>3, Induction
<1>5. \E x \in t : \A y \in t : x >= y
  BY <1>4
<1> QED BY <1>5, Zenon DEF Max

(* FoldLeft descends through the sets 1..m: what it computes is defined. *)
Folds(h, m, base, F) ==
    \A s \in SUBSET (1 .. m) :
        h[s] = IF s = {} THEN base ELSE F[<<Max(s), h[s \ {Max(s)}]>>]

(* The function a fold over 1 .. n chooses exists: built a number at a time. *)
LEMMA FoldExists ==
    ASSUME NEW n \in Nat, NEW V, NEW base \in V, NEW F \in [(1 .. n) \X V -> V]
    PROVE  \E h \in [SUBSET (1 .. n) -> V] : Folds(h, n, base, F)
<1> DEFINE P == {m \in 0 .. n : \E h \in [SUBSET (1 .. m) -> V] : Folds(h, m, base, F)}
<1>1. 0 \in P
  <2> DEFINE h == [s \in SUBSET (1 .. 0) |-> base]
  <2>1. h \in [SUBSET (1 .. 0) -> V]
    OBVIOUS
  <2>2. \A s \in SUBSET (1 .. 0) : s = {}
    OBVIOUS
  <2>3. Folds(h, 0, base, F)
    BY <2>2 DEF Folds
  <2>4. 0 \in 0 .. n
    OBVIOUS
  <2> HIDE DEF h
  <2> QED BY <2>1, <2>3, <2>4
<1>2. \A m \in 0 .. n - 1 : m \in P => m + 1 \in P
  <2> SUFFICES ASSUME NEW m \in 0 .. n - 1, m \in P PROVE m + 1 \in P
    OBVIOUS
  <2>1. PICK k \in [SUBSET (1 .. m) -> V] : Folds(k, m, base, F)
    OBVIOUS
  <2>0. m \in Nat /\ m + 1 \in 1 .. n /\ m + 1 \in 0 .. n /\ m + 1 \notin 1 .. m
    OBVIOUS
  <2> DEFINE h == [s \in SUBSET (1 .. m + 1) |->
                      IF m + 1 \in s THEN F[<<m + 1, k[s \ {m + 1}]>>] ELSE k[s]]
  <2>2. \A s \in SUBSET (1 .. m + 1) :
           /\ s \ {m + 1} \in SUBSET (1 .. m)
           /\ m + 1 \notin s => s \in SUBSET (1 .. m)
    OBVIOUS
  <2>3. h \in [SUBSET (1 .. m + 1) -> V]
    <3>1. \A s \in SUBSET (1 .. m + 1) : m + 1 \in s => F[<<m + 1, k[s \ {m + 1}]>>] \in V
      BY <2>0, <2>2
    <3>2. \A s \in SUBSET (1 .. m + 1) : m + 1 \notin s => k[s] \in V
      BY <2>2
    <3> QED BY <3>1, <3>2
  <2>4. \A s \in SUBSET (1 .. m) : s \in SUBSET (1 .. m + 1) /\ m + 1 \notin s /\ h[s] = k[s]
    <3>1. \A s \in SUBSET (1 .. m) : s \in SUBSET (1 .. m + 1) /\ m + 1 \notin s
      BY <2>0
    <3> QED BY <3>1
  <2>5. \A s \in SUBSET (1 .. m + 1) : m + 1 \in s => h[s] = F[<<m + 1, k[s \ {m + 1}]>>]
    OBVIOUS
  <2> HIDE DEF h
  <2>6. ASSUME NEW s \in SUBSET (1 .. m + 1)
        PROVE  h[s] = IF s = {} THEN base ELSE F[<<Max(s), h[s \ {Max(s)}]>>]
    <3>1. CASE m + 1 \in s
      <4>1. Max(s) = m + 1 /\ s # {}
        BY <2>0, <3>1, TopOf
      <4>2. h[s] = F[<<m + 1, k[s \ {m + 1}]>>]
        BY <3>1, <2>5
      <4>3. h[s \ {m + 1}] = k[s \ {m + 1}]
        BY <2>2, <2>4
      <4> QED BY <4>1, <4>2, <4>3
    <3>2. CASE m + 1 \notin s
      <4>1. s \in SUBSET (1 .. m) /\ s \ {Max(s)} \in SUBSET (1 .. m)
        BY <2>2, <3>2
      <4>2. h[s] = k[s] /\ h[s \ {Max(s)}] = k[s \ {Max(s)}]
        BY <4>1, <2>4
      <4>3. k[s] = IF s = {} THEN base ELSE F[<<Max(s), k[s \ {Max(s)}]>>]
        BY <4>1, <2>1 DEF Folds
      <4> QED BY <4>2, <4>3
    <3> QED BY <3>1, <3>2
  <2>7. Folds(h, m + 1, base, F)
    BY <2>6 DEF Folds
  <2> QED BY <2>0, <2>3, <2>7
<1>3. P \in SUBSET (0 .. n) /\ 0 \in Nat /\ n \in Nat /\ n \in 0 .. n
  OBVIOUS
<1>4. n \in P
  <2> HIDE DEF P
  <2> QED BY <1>1, <1>2, <1>3, Induction
<1> QED BY <1>4

(* Sets 1 .. i + 1 as the fold takes them apart. *)
LEMMA Climb ==
    ASSUME NEW n \in Nat, NEW i \in 0 .. n - 1
    PROVE  /\ i \in Nat /\ i + 1 \in 1 .. n /\ i + 1 \in 0 .. n /\ (i + 1) - 1 = i
           /\ 1 .. i + 1 \in SUBSET (1 .. n) /\ 1 .. i + 1 # {}
           /\ (1 .. i + 1) \ {i + 1} = 1 .. i /\ Max(1 .. i + 1) = i + 1
<1>1. /\ i \in Nat /\ i + 1 \in 1 .. n /\ i + 1 \in 0 .. n /\ (i + 1) - 1 = i
      /\ i + 1 \in 1 .. i + 1
  OBVIOUS
<1>2. 1 .. i + 1 \in SUBSET (1 .. n) /\ 1 .. i + 1 # {}
  BY <1>1
<1>3. (1 .. i + 1) \ {i + 1} = 1 .. i
  OBVIOUS
<1>4. Max(1 .. i + 1) = i + 1
  BY <1>1, TopOf
<1> QED BY <1>1, <1>2, <1>3, <1>4

(* Decoding bytes is decoding them one after the other. *)
LEMMA DecodedSteps ==
    ASSUME NEW n \in Nat, NEW V, NEW B, NEW bytes \in [1 .. n -> B],
           \A p \in V, b \in B : DecodeByte(p, b) \in V,
           NEW g \in [0 .. n -> V],
           \A i \in 1 .. n : g[i] = DecodeByte(g[i - 1], bytes[i])
    PROVE  Decoded(g[0], bytes) = g[n]
<1> DEFINE F == [x \in (1 .. n) \X V |-> DecodeByte(x[2], bytes[x[1]])]
           Is(f) == f = [s \in SUBSET (1 .. n) |->
                            IF s = {} THEN g[0]
                            ELSE DecodeByte(f[s \ {Max(s)}], bytes[Max(s)])]
           iter == CHOOSE f : Is(f)
<1>1. Decoded(g[0], bytes) = iter[1 .. n]
  <2>1. DOMAIN bytes = 1 .. n
    OBVIOUS
  <2> QED BY <2>1 DEF Decoded, FoldLeft, MapThenFoldSet
<1>2. F \in [(1 .. n) \X V -> V]
  OBVIOUS
<1>3. \A i \in 1 .. n, p \in V : F[<<i, p>>] = DecodeByte(p, bytes[i])
  OBVIOUS
<1> HIDE DEF F
<1>4. g[0] \in V
  OBVIOUS
<1>5. PICK h \in [SUBSET (1 .. n) -> V] : Folds(h, n, g[0], F)
  BY <1>2, <1>4, FoldExists
<1>6. Is(h)
  <2> SUFFICES ASSUME NEW s \in SUBSET (1 .. n)
               PROVE  h[s] = IF s = {} THEN g[0]
                             ELSE DecodeByte(h[s \ {Max(s)}], bytes[Max(s)])
    OBVIOUS
  <2>1. h[s] = IF s = {} THEN g[0] ELSE F[<<Max(s), h[s \ {Max(s)}]>>]
    BY <1>5 DEF Folds
  <2>2. s # {} => Max(s) \in 1 .. n
    BY MaxOf
  <2>3. h[s \ {Max(s)}] \in V
    OBVIOUS
  <2> QED BY <2>1, <2>2, <2>3, <1>3
<1>7. Is(iter)
  <2> HIDE DEF Is
  <2> QED BY <1>6
<1> HIDE DEF iter
<1>8. \A s \in SUBSET (1 .. n) :
        iter[s] = IF s = {} THEN g[0] ELSE DecodeByte(iter[s \ {Max(s)}], bytes[Max(s)])
  BY <1>7
<1> DEFINE P == {i \in 0 .. n : iter[1 .. i] = g[i]}
<1>9. 0 \in P
  <2>1. 1 .. 0 = {} /\ {} \in SUBSET (1 .. n) /\ 0 \in 0 .. n
    OBVIOUS
  <2>2. iter[{}] = g[0]
    BY <2>1, <1>8
  <2> QED BY <2>1, <2>2
<1>10. \A i \in 0 .. n - 1 : i \in P => i + 1 \in P
  <2> SUFFICES ASSUME NEW i \in 0 .. n - 1, i \in P PROVE i + 1 \in P
    OBVIOUS
  <2>1. /\ i \in Nat /\ i + 1 \in 1 .. n /\ i + 1 \in 0 .. n /\ (i + 1) - 1 = i
        /\ 1 .. i + 1 \in SUBSET (1 .. n) /\ 1 .. i + 1 # {}
        /\ (1 .. i + 1) \ {i + 1} = 1 .. i /\ Max(1 .. i + 1) = i + 1
    BY Climb
  <2>3. iter[1 .. i + 1] = DecodeByte(iter[1 .. i], bytes[i + 1])
    BY <2>1, <1>8
  <2>4. g[i + 1] = DecodeByte(g[i], bytes[i + 1])
    BY <2>1
  <2> QED BY <2>1, <2>3, <2>4
<1>11. P \in SUBSET (0 .. n) /\ 0 \in Nat /\ n \in Nat /\ n \in 0 .. n
  OBVIOUS
<1>12. n \in P
  <2> HIDE DEF P
  <2> QED BY <1>9, <1>10, <1>11, Induction
<1> QED BY <1>1, <1>12

(* What the decoder does with the byte after the first c. *)
LeadStep(f, c) ==
    /\ ByteAt(f, c + 1)[1] = "lead"
    /\ Chars(f, c + 1) = Chars(f, c) /\ Carry(f, c + 1) = ByteAt(f, c + 1)
ContStep(f, c) ==
    /\ ByteAt(f, c + 1)[1] = "cont"
    /\ Carry(f, c) # NoByte /\ Carry(f, c + 1) = NoByte
    /\ Chars(f, c + 1) = Chars(f, c) + 1
    /\ CharAt(f, Chars(f, c) + 1) = <<"char", ByteAt(f, c + 1)[2]>>
PlainStep(f, c) ==
    /\ ByteAt(f, c + 1)[1] \notin {"lead", "cont"}
    /\ Carry(f, c) = NoByte /\ Carry(f, c + 1) = NoByte
    /\ Chars(f, c + 1) = Chars(f, c) + 1
    /\ CharAt(f, Chars(f, c) + 1) = ByteAt(f, c + 1)

(* What the next byte is: the first of a character's two, the second, or a  *)
(* character of its own.                                                    *)
LEMMA ByteSteps ==
    ASSUME NEW f \in Forms, NEW c \in Nat
    PROVE  /\ Chars(f, c) \in Nat
           /\ LeadStep(f, c) \/ ContStep(f, c) \/ PlainStep(f, c)
<1>1. PICK m \in Nat : \E i \in 0 .. FrameLen(f) - 1 : c = FrameLen(f) * m + i
  BY Divided
<1>2. PICK i \in 0 .. FrameLen(f) - 1 : c = FrameLen(f) * m + i
  BY <1>1
<1> USE DEF LF, CR, Data, Note, NoByte
<1>3. CASE f = "lf"
  <2>1. /\ FrameLen(f) = 5 /\ TextLen(f) = 4 /\ Lead(f) = 2
        /\ m + 1 \in Nat /\ 5 * (m + 1) = 5 * m + 5 /\ 4 * (m + 1) = 4 * m + 4
    BY <1>3 DEF FrameLen, TextLen, Lead
  <2>2. /\ \A j \in 1 .. 5 : ByteAt(f, 5 * m + j) = FrameBytes(f, m + 1)[j]
        /\ \A j \in 1 .. 4 : CharAt(f, 4 * m + j) = FrameText(f, m + 1)[j]
        /\ \A j \in 0 .. 4 : /\ Chars(f, 5 * m + j) = 4 * m + (IF j >= 2 THEN j - 1 ELSE j)
                             /\ Carry(f, 5 * m + j) = IF j = 2 THEN <<"lead", m + 1>> ELSE NoByte
    <3>1. PlacesOf(f, m)
      BY Places
    <3> QED BY <2>1, <3>1 DEF PlacesOf
  <2>3. Chars(f, 5 * (m + 1) + 0) = 4 * (m + 1) + 0 /\ Carry(f, 5 * (m + 1) + 0) = NoByte
    <3>1. /\ Chars(f, FrameLen(f) * (m + 1) + 0) =
                TextLen(f) * (m + 1) + (IF 0 >= Lead(f) THEN 0 - 1 ELSE 0)
          /\ Carry(f, FrameLen(f) * (m + 1) + 0) =
                IF 0 = Lead(f) THEN <<"lead", (m + 1) + 1>> ELSE NoByte
      <4>1. PlacesOf(f, m + 1)
        BY <2>1, Places
      <4> QED BY <2>1, <4>1 DEF PlacesOf
    <3> QED BY <2>1, <3>1
  <2>4. Chars(f, 5 * m + 5) = 4 * m + 4 /\ Carry(f, 5 * m + 5) = NoByte
    <3>1. 5 * (m + 1) + 0 = 5 * m + 5 /\ 4 * (m + 1) + 0 = 4 * m + 4
      OBVIOUS
    <3> QED BY <2>3, <3>1
  <2>5. CASE i = 0
    <3>1. c = 5 * m + 0 /\ c + 1 = 5 * m + 1 /\ ByteAt(f, 5 * m + 1) = Data
      BY <1>2, <2>1, <2>2, <1>3, <2>5 DEF FrameBytes
    <3>2. Chars(f, c) = 4 * m + 0 /\ Chars(f, c + 1) = 4 * m + 1
      BY <2>2, <2>4, <3>1
    <3>3. Carry(f, c) = NoByte /\ Carry(f, c + 1) = NoByte
      BY <2>2, <2>4, <3>1
    <3>4. CharAt(f, 4 * m + 1) = Data
      BY <2>2, <1>3 DEF FrameText
    <3>5. Chars(f, c) + 1 = 4 * m + 1
      BY <3>2
    <3> QED BY <3>1, <3>2, <3>3, <3>4, <3>5 DEF PlainStep
  <2>6. CASE i = 1
    <3>1. c = 5 * m + 1 /\ c + 1 = 5 * m + 2 /\ ByteAt(f, 5 * m + 2) = <<"lead", m + 1>>
      BY <1>2, <2>1, <2>2, <1>3, <2>6 DEF FrameBytes
    <3>2. Chars(f, c) = 4 * m + 1 /\ Chars(f, c + 1) = 4 * m + 1
      BY <2>2, <2>4, <3>1
    <3>3. Carry(f, c) = NoByte /\ Carry(f, c + 1) = <<"lead", m + 1>>
      BY <2>2, <2>4, <3>1
    <3> QED BY <3>1, <3>2, <3>3 DEF LeadStep
  <2>7. CASE i = 2
    <3>1. c = 5 * m + 2 /\ c + 1 = 5 * m + 3 /\ ByteAt(f, 5 * m + 3) = <<"cont", m + 1>>
      BY <1>2, <2>1, <2>2, <1>3, <2>7 DEF FrameBytes
    <3>2. Chars(f, c) = 4 * m + 1 /\ Chars(f, c + 1) = 4 * m + 2
      BY <2>2, <2>4, <3>1
    <3>3. Carry(f, c) = <<"lead", m + 1>> /\ Carry(f, c + 1) = NoByte
      BY <2>2, <2>4, <3>1
    <3>4. CharAt(f, 4 * m + 2) = <<"char", m + 1>>
      BY <2>2, <1>3 DEF FrameText
    <3>5. Chars(f, c) + 1 = 4 * m + 2
      BY <3>2
    <3> QED BY <3>1, <3>2, <3>3, <3>4, <3>5 DEF ContStep
  <2>8. CASE i = 3
    <3>1. c = 5 * m + 3 /\ c + 1 = 5 * m + 4 /\ ByteAt(f, 5 * m + 4) = LF
      BY <1>2, <2>1, <2>2, <1>3, <2>8 DEF FrameBytes
    <3>2. Chars(f, c) = 4 * m + 2 /\ Chars(f, c + 1) = 4 * m + 3
      BY <2>2, <2>4, <3>1
    <3>3. Carry(f, c) = NoByte /\ Carry(f, c + 1) = NoByte
      BY <2>2, <2>4, <3>1
    <3>4. CharAt(f, 4 * m + 3) = LF
      BY <2>2, <1>3 DEF FrameText
    <3>5. Chars(f, c) + 1 = 4 * m + 3
      BY <3>2
    <3> QED BY <3>1, <3>2, <3>3, <3>4, <3>5 DEF PlainStep
  <2>9. CASE i = 4
    <3>1. c = 5 * m + 4 /\ c + 1 = 5 * m + 5 /\ ByteAt(f, 5 * m + 5) = LF
      BY <1>2, <2>1, <2>2, <1>3, <2>9 DEF FrameBytes
    <3>2. Chars(f, c) = 4 * m + 3 /\ Chars(f, c + 1) = 4 * m + 4
      BY <2>2, <2>4, <3>1
    <3>3. Carry(f, c) = NoByte /\ Carry(f, c + 1) = NoByte
      BY <2>2, <2>4, <3>1
    <3>4. CharAt(f, 4 * m + 4) = LF
      BY <2>2, <1>3 DEF FrameText
    <3>5. Chars(f, c) + 1 = 4 * m + 4
      BY <3>2
    <3> QED BY <3>1, <3>2, <3>3, <3>4, <3>5 DEF PlainStep
  <2> QED BY <1>2, <2>1, <2>5, <2>6, <2>7, <2>8, <2>9
<1>4. CASE f = "crlf"
  <2>1. /\ FrameLen(f) = 7 /\ TextLen(f) = 6 /\ Lead(f) = 2
        /\ m + 1 \in Nat /\ 7 * (m + 1) = 7 * m + 7 /\ 6 * (m + 1) = 6 * m + 6
    BY <1>4 DEF FrameLen, TextLen, Lead
  <2>2. /\ \A j \in 1 .. 7 : ByteAt(f, 7 * m + j) = FrameBytes(f, m + 1)[j]
        /\ \A j \in 1 .. 6 : CharAt(f, 6 * m + j) = FrameText(f, m + 1)[j]
        /\ \A j \in 0 .. 6 : /\ Chars(f, 7 * m + j) = 6 * m + (IF j >= 2 THEN j - 1 ELSE j)
                             /\ Carry(f, 7 * m + j) = IF j = 2 THEN <<"lead", m + 1>> ELSE NoByte
    <3>1. PlacesOf(f, m)
      BY Places
    <3> QED BY <2>1, <3>1 DEF PlacesOf
  <2>3. Chars(f, 7 * (m + 1) + 0) = 6 * (m + 1) + 0 /\ Carry(f, 7 * (m + 1) + 0) = NoByte
    <3>1. /\ Chars(f, FrameLen(f) * (m + 1) + 0) =
                TextLen(f) * (m + 1) + (IF 0 >= Lead(f) THEN 0 - 1 ELSE 0)
          /\ Carry(f, FrameLen(f) * (m + 1) + 0) =
                IF 0 = Lead(f) THEN <<"lead", (m + 1) + 1>> ELSE NoByte
      <4>1. PlacesOf(f, m + 1)
        BY <2>1, Places
      <4> QED BY <2>1, <4>1 DEF PlacesOf
    <3> QED BY <2>1, <3>1
  <2>4. Chars(f, 7 * m + 7) = 6 * m + 6 /\ Carry(f, 7 * m + 7) = NoByte
    <3>1. 7 * (m + 1) + 0 = 7 * m + 7 /\ 6 * (m + 1) + 0 = 6 * m + 6
      OBVIOUS
    <3> QED BY <2>3, <3>1
  <2>5. CASE i = 0
    <3>1. c = 7 * m + 0 /\ c + 1 = 7 * m + 1 /\ ByteAt(f, 7 * m + 1) = Data
      BY <1>2, <2>1, <2>2, <1>4, <2>5 DEF FrameBytes
    <3>2. Chars(f, c) = 6 * m + 0 /\ Chars(f, c + 1) = 6 * m + 1
      BY <2>2, <2>4, <3>1
    <3>3. Carry(f, c) = NoByte /\ Carry(f, c + 1) = NoByte
      BY <2>2, <2>4, <3>1
    <3>4. CharAt(f, 6 * m + 1) = Data
      BY <2>2, <1>4 DEF FrameText
    <3>5. Chars(f, c) + 1 = 6 * m + 1
      BY <3>2
    <3> QED BY <3>1, <3>2, <3>3, <3>4, <3>5 DEF PlainStep
  <2>6. CASE i = 1
    <3>1. c = 7 * m + 1 /\ c + 1 = 7 * m + 2 /\ ByteAt(f, 7 * m + 2) = <<"lead", m + 1>>
      BY <1>2, <2>1, <2>2, <1>4, <2>6 DEF FrameBytes
    <3>2. Chars(f, c) = 6 * m + 1 /\ Chars(f, c + 1) = 6 * m + 1
      BY <2>2, <2>4, <3>1
    <3>3. Carry(f, c) = NoByte /\ Carry(f, c + 1) = <<"lead", m + 1>>
      BY <2>2, <2>4, <3>1
    <3> QED BY <3>1, <3>2, <3>3 DEF LeadStep
  <2>7. CASE i = 2
    <3>1. c = 7 * m + 2 /\ c + 1 = 7 * m + 3 /\ ByteAt(f, 7 * m + 3) = <<"cont", m + 1>>
      BY <1>2, <2>1, <2>2, <1>4, <2>7 DEF FrameBytes
    <3>2. Chars(f, c) = 6 * m + 1 /\ Chars(f, c + 1) = 6 * m + 2
      BY <2>2, <2>4, <3>1
    <3>3. Carry(f, c) = <<"lead", m + 1>> /\ Carry(f, c + 1) = NoByte
      BY <2>2, <2>4, <3>1
    <3>4. CharAt(f, 6 * m + 2) = <<"char", m + 1>>
      BY <2>2, <1>4 DEF FrameText
    <3>5. Chars(f, c) + 1 = 6 * m + 2
      BY <3>2
    <3> QED BY <3>1, <3>2, <3>3, <3>4, <3>5 DEF ContStep
  <2>8. CASE i = 3
    <3>1. c = 7 * m + 3 /\ c + 1 = 7 * m + 4 /\ ByteAt(f, 7 * m + 4) = CR
      BY <1>2, <2>1, <2>2, <1>4, <2>8 DEF FrameBytes
    <3>2. Chars(f, c) = 6 * m + 2 /\ Chars(f, c + 1) = 6 * m + 3
      BY <2>2, <2>4, <3>1
    <3>3. Carry(f, c) = NoByte /\ Carry(f, c + 1) = NoByte
      BY <2>2, <2>4, <3>1
    <3>4. CharAt(f, 6 * m + 3) = CR
      BY <2>2, <1>4 DEF FrameText
    <3>5. Chars(f, c) + 1 = 6 * m + 3
      BY <3>2
    <3> QED BY <3>1, <3>2, <3>3, <3>4, <3>5 DEF PlainStep
  <2>9. CASE i = 4
    <3>1. c = 7 * m + 4 /\ c + 1 = 7 * m + 5 /\ ByteAt(f, 7 * m + 5) = LF
      BY <1>2, <2>1, <2>2, <1>4, <2>9 DEF FrameBytes
    <3>2. Chars(f, c) = 6 * m + 3 /\ Chars(f, c + 1) = 6 * m + 4
      BY <2>2, <2>4, <3>1
    <3>3. Carry(f, c) = NoByte /\ Carry(f, c + 1) = NoByte
      BY <2>2, <2>4, <3>1
    <3>4. CharAt(f, 6 * m + 4) = LF
      BY <2>2, <1>4 DEF FrameText
    <3>5. Chars(f, c) + 1 = 6 * m + 4
      BY <3>2
    <3> QED BY <3>1, <3>2, <3>3, <3>4, <3>5 DEF PlainStep
  <2>10. CASE i = 5
    <3>1. c = 7 * m + 5 /\ c + 1 = 7 * m + 6 /\ ByteAt(f, 7 * m + 6) = CR
      BY <1>2, <2>1, <2>2, <1>4, <2>10 DEF FrameBytes
    <3>2. Chars(f, c) = 6 * m + 4 /\ Chars(f, c + 1) = 6 * m + 5
      BY <2>2, <2>4, <3>1
    <3>3. Carry(f, c) = NoByte /\ Carry(f, c + 1) = NoByte
      BY <2>2, <2>4, <3>1
    <3>4. CharAt(f, 6 * m + 5) = CR
      BY <2>2, <1>4 DEF FrameText
    <3>5. Chars(f, c) + 1 = 6 * m + 5
      BY <3>2
    <3> QED BY <3>1, <3>2, <3>3, <3>4, <3>5 DEF PlainStep
  <2>11. CASE i = 6
    <3>1. c = 7 * m + 6 /\ c + 1 = 7 * m + 7 /\ ByteAt(f, 7 * m + 7) = LF
      BY <1>2, <2>1, <2>2, <1>4, <2>11 DEF FrameBytes
    <3>2. Chars(f, c) = 6 * m + 5 /\ Chars(f, c + 1) = 6 * m + 6
      BY <2>2, <2>4, <3>1
    <3>3. Carry(f, c) = NoByte /\ Carry(f, c + 1) = NoByte
      BY <2>2, <2>4, <3>1
    <3>4. CharAt(f, 6 * m + 6) = LF
      BY <2>2, <1>4 DEF FrameText
    <3>5. Chars(f, c) + 1 = 6 * m + 6
      BY <3>2
    <3> QED BY <3>1, <3>2, <3>3, <3>4, <3>5 DEF PlainStep
  <2> QED BY <1>2, <2>1, <2>5, <2>6, <2>7, <2>8, <2>9, <2>10, <2>11
<1>5. CASE f = "named"
  <2>1. /\ FrameLen(f) = 9 /\ TextLen(f) = 8 /\ Lead(f) = 6
        /\ m + 1 \in Nat /\ 9 * (m + 1) = 9 * m + 9 /\ 8 * (m + 1) = 8 * m + 8
    BY <1>5 DEF FrameLen, TextLen, Lead
  <2>2. /\ \A j \in 1 .. 9 : ByteAt(f, 9 * m + j) = FrameBytes(f, m + 1)[j]
        /\ \A j \in 1 .. 8 : CharAt(f, 8 * m + j) = FrameText(f, m + 1)[j]
        /\ \A j \in 0 .. 8 : /\ Chars(f, 9 * m + j) = 8 * m + (IF j >= 6 THEN j - 1 ELSE j)
                             /\ Carry(f, 9 * m + j) = IF j = 6 THEN <<"lead", m + 1>> ELSE NoByte
    <3>1. PlacesOf(f, m)
      BY Places
    <3> QED BY <2>1, <3>1 DEF PlacesOf
  <2>3. Chars(f, 9 * (m + 1) + 0) = 8 * (m + 1) + 0 /\ Carry(f, 9 * (m + 1) + 0) = NoByte
    <3>1. /\ Chars(f, FrameLen(f) * (m + 1) + 0) =
                TextLen(f) * (m + 1) + (IF 0 >= Lead(f) THEN 0 - 1 ELSE 0)
          /\ Carry(f, FrameLen(f) * (m + 1) + 0) =
                IF 0 = Lead(f) THEN <<"lead", (m + 1) + 1>> ELSE NoByte
      <4>1. PlacesOf(f, m + 1)
        BY <2>1, Places
      <4> QED BY <2>1, <4>1 DEF PlacesOf
    <3> QED BY <2>1, <3>1
  <2>4. Chars(f, 9 * m + 9) = 8 * m + 8 /\ Carry(f, 9 * m + 9) = NoByte
    <3>1. 9 * (m + 1) + 0 = 9 * m + 9 /\ 8 * (m + 1) + 0 = 8 * m + 8
      OBVIOUS
    <3> QED BY <2>3, <3>1
  <2>5. CASE i = 0
    <3>1. c = 9 * m + 0 /\ c + 1 = 9 * m + 1 /\ ByteAt(f, 9 * m + 1) = Note
      BY <1>2, <2>1, <2>2, <1>5, <2>5 DEF FrameBytes
    <3>2. Chars(f, c) = 8 * m + 0 /\ Chars(f, c + 1) = 8 * m + 1
      BY <2>2, <2>4, <3>1
    <3>3. Carry(f, c) = NoByte /\ Carry(f, c + 1) = NoByte
      BY <2>2, <2>4, <3>1
    <3>4. CharAt(f, 8 * m + 1) = Note
      BY <2>2, <1>5 DEF FrameText
    <3>5. Chars(f, c) + 1 = 8 * m + 1
      BY <3>2
    <3> QED BY <3>1, <3>2, <3>3, <3>4, <3>5 DEF PlainStep
  <2>6. CASE i = 1
    <3>1. c = 9 * m + 1 /\ c + 1 = 9 * m + 2 /\ ByteAt(f, 9 * m + 2) = LF
      BY <1>2, <2>1, <2>2, <1>5, <2>6 DEF FrameBytes
    <3>2. Chars(f, c) = 8 * m + 1 /\ Chars(f, c + 1) = 8 * m + 2
      BY <2>2, <2>4, <3>1
    <3>3. Carry(f, c) = NoByte /\ Carry(f, c + 1) = NoByte
      BY <2>2, <2>4, <3>1
    <3>4. CharAt(f, 8 * m + 2) = LF
      BY <2>2, <1>5 DEF FrameText
    <3>5. Chars(f, c) + 1 = 8 * m + 2
      BY <3>2
    <3> QED BY <3>1, <3>2, <3>3, <3>4, <3>5 DEF PlainStep
  <2>7. CASE i = 2
    <3>1. c = 9 * m + 2 /\ c + 1 = 9 * m + 3 /\ ByteAt(f, 9 * m + 3) = <<"event", m + 1>>
      BY <1>2, <2>1, <2>2, <1>5, <2>7 DEF FrameBytes
    <3>2. Chars(f, c) = 8 * m + 2 /\ Chars(f, c + 1) = 8 * m + 3
      BY <2>2, <2>4, <3>1
    <3>3. Carry(f, c) = NoByte /\ Carry(f, c + 1) = NoByte
      BY <2>2, <2>4, <3>1
    <3>4. CharAt(f, 8 * m + 3) = <<"event", m + 1>>
      BY <2>2, <1>5 DEF FrameText
    <3>5. Chars(f, c) + 1 = 8 * m + 3
      BY <3>2
    <3> QED BY <3>1, <3>2, <3>3, <3>4, <3>5 DEF PlainStep
  <2>8. CASE i = 3
    <3>1. c = 9 * m + 3 /\ c + 1 = 9 * m + 4 /\ ByteAt(f, 9 * m + 4) = LF
      BY <1>2, <2>1, <2>2, <1>5, <2>8 DEF FrameBytes
    <3>2. Chars(f, c) = 8 * m + 3 /\ Chars(f, c + 1) = 8 * m + 4
      BY <2>2, <2>4, <3>1
    <3>3. Carry(f, c) = NoByte /\ Carry(f, c + 1) = NoByte
      BY <2>2, <2>4, <3>1
    <3>4. CharAt(f, 8 * m + 4) = LF
      BY <2>2, <1>5 DEF FrameText
    <3>5. Chars(f, c) + 1 = 8 * m + 4
      BY <3>2
    <3> QED BY <3>1, <3>2, <3>3, <3>4, <3>5 DEF PlainStep
  <2>9. CASE i = 4
    <3>1. c = 9 * m + 4 /\ c + 1 = 9 * m + 5 /\ ByteAt(f, 9 * m + 5) = Data
      BY <1>2, <2>1, <2>2, <1>5, <2>9 DEF FrameBytes
    <3>2. Chars(f, c) = 8 * m + 4 /\ Chars(f, c + 1) = 8 * m + 5
      BY <2>2, <2>4, <3>1
    <3>3. Carry(f, c) = NoByte /\ Carry(f, c + 1) = NoByte
      BY <2>2, <2>4, <3>1
    <3>4. CharAt(f, 8 * m + 5) = Data
      BY <2>2, <1>5 DEF FrameText
    <3>5. Chars(f, c) + 1 = 8 * m + 5
      BY <3>2
    <3> QED BY <3>1, <3>2, <3>3, <3>4, <3>5 DEF PlainStep
  <2>10. CASE i = 5
    <3>1. c = 9 * m + 5 /\ c + 1 = 9 * m + 6 /\ ByteAt(f, 9 * m + 6) = <<"lead", m + 1>>
      BY <1>2, <2>1, <2>2, <1>5, <2>10 DEF FrameBytes
    <3>2. Chars(f, c) = 8 * m + 5 /\ Chars(f, c + 1) = 8 * m + 5
      BY <2>2, <2>4, <3>1
    <3>3. Carry(f, c) = NoByte /\ Carry(f, c + 1) = <<"lead", m + 1>>
      BY <2>2, <2>4, <3>1
    <3> QED BY <3>1, <3>2, <3>3 DEF LeadStep
  <2>11. CASE i = 6
    <3>1. c = 9 * m + 6 /\ c + 1 = 9 * m + 7 /\ ByteAt(f, 9 * m + 7) = <<"cont", m + 1>>
      BY <1>2, <2>1, <2>2, <1>5, <2>11 DEF FrameBytes
    <3>2. Chars(f, c) = 8 * m + 5 /\ Chars(f, c + 1) = 8 * m + 6
      BY <2>2, <2>4, <3>1
    <3>3. Carry(f, c) = <<"lead", m + 1>> /\ Carry(f, c + 1) = NoByte
      BY <2>2, <2>4, <3>1
    <3>4. CharAt(f, 8 * m + 6) = <<"char", m + 1>>
      BY <2>2, <1>5 DEF FrameText
    <3>5. Chars(f, c) + 1 = 8 * m + 6
      BY <3>2
    <3> QED BY <3>1, <3>2, <3>3, <3>4, <3>5 DEF ContStep
  <2>12. CASE i = 7
    <3>1. c = 9 * m + 7 /\ c + 1 = 9 * m + 8 /\ ByteAt(f, 9 * m + 8) = LF
      BY <1>2, <2>1, <2>2, <1>5, <2>12 DEF FrameBytes
    <3>2. Chars(f, c) = 8 * m + 6 /\ Chars(f, c + 1) = 8 * m + 7
      BY <2>2, <2>4, <3>1
    <3>3. Carry(f, c) = NoByte /\ Carry(f, c + 1) = NoByte
      BY <2>2, <2>4, <3>1
    <3>4. CharAt(f, 8 * m + 7) = LF
      BY <2>2, <1>5 DEF FrameText
    <3>5. Chars(f, c) + 1 = 8 * m + 7
      BY <3>2
    <3> QED BY <3>1, <3>2, <3>3, <3>4, <3>5 DEF PlainStep
  <2>13. CASE i = 8
    <3>1. c = 9 * m + 8 /\ c + 1 = 9 * m + 9 /\ ByteAt(f, 9 * m + 9) = LF
      BY <1>2, <2>1, <2>2, <1>5, <2>13 DEF FrameBytes
    <3>2. Chars(f, c) = 8 * m + 7 /\ Chars(f, c + 1) = 8 * m + 8
      BY <2>2, <2>4, <3>1
    <3>3. Carry(f, c) = NoByte /\ Carry(f, c + 1) = NoByte
      BY <2>2, <2>4, <3>1
    <3>4. CharAt(f, 8 * m + 8) = LF
      BY <2>2, <1>5 DEF FrameText
    <3>5. Chars(f, c) + 1 = 8 * m + 8
      BY <3>2
    <3> QED BY <3>1, <3>2, <3>3, <3>4, <3>5 DEF PlainStep
  <2> QED BY <1>2, <2>1, <2>5, <2>6, <2>7, <2>8, <2>9, <2>10, <2>11, <2>12, <2>13
<1> QED BY <1>3, <1>4, <1>5 DEF Forms

(* The characters of a row. *)
LEMMA RowIn ==
    ASSUME NEW f, NEW t \in Nat, NEW a \in Nat, NEW C, \A j \in 1 .. a : CharAt(f, t + j) \in C
    PROVE  Row(f, t, a) \in Seq(C)
BY DEF Row

(* A row of characters, place by place. *)
LEMMA RowIs ==
    ASSUME NEW f, NEW t \in Nat, NEW a \in Nat
    PROVE  /\ IsSeq(Row(f, t, a)) /\ Len(Row(f, t, a)) = a /\ DOMAIN Row(f, t, a) = 1 .. a
           /\ \A j \in 1 .. a : Row(f, t, a)[j] = CharAt(f, t + j)
<1> DEFINE C == {CharAt(f, t + j) : j \in 1 .. a}
<1>1. Row(f, t, a) \in Seq(C)
  <2>1. \A j \in 1 .. a : CharAt(f, t + j) \in C
    OBVIOUS
  <2> HIDE DEF C
  <2> QED BY <2>1, RowIn
<1> HIDE DEF C
<1>2. Len(Row(f, t, a)) = a /\ \A j \in 1 .. a : Row(f, t, a)[j] = CharAt(f, t + j)
  BY DEF Row
<1> QED BY <1>1, <1>2, SeqIs

(* A row and the next character. *)
LEMMA RowGrows ==
    ASSUME NEW f, NEW t \in Nat, NEW a \in Nat
    PROVE  Append(Row(f, t, a), CharAt(f, t + a + 1)) = Row(f, t, a + 1)
<1> DEFINE C == {CharAt(f, t + j) : j \in 1 .. a + 1}
           u == Append(Row(f, t, a), CharAt(f, t + a + 1))
<1>1. Row(f, t, a) \in Seq(C)
  <2>1. \A j \in 1 .. a : CharAt(f, t + j) \in C
    OBVIOUS
  <2> HIDE DEF C
  <2> QED BY <2>1, RowIn
<1>2. CharAt(f, t + a + 1) \in C
  <2>1. a + 1 \in 1 .. a + 1 /\ t + (a + 1) = t + a + 1
    OBVIOUS
  <2> QED BY <2>1
<1>3. Len(Row(f, t, a)) = a /\ \A j \in 1 .. a : Row(f, t, a)[j] = CharAt(f, t + j)
  BY RowIs
<1> HIDE DEF C
<1>4. /\ u \in Seq(C) /\ Len(u) = a + 1
      /\ \A j \in 1 .. a : u[j] = Row(f, t, a)[j]
      /\ u[a + 1] = CharAt(f, t + a + 1)
  BY <1>1, <1>2, <1>3
<1>5. IsSeq(u)
  BY <1>4, SeqIs
<1> HIDE DEF u
<1>6. \A j \in 1 .. a + 1 : u[j] = CharAt(f, t + j)
  <2>1. \A j \in 1 .. a + 1 : j \in 1 .. a \/ (j = a + 1 /\ t + j = t + a + 1)
    OBVIOUS
  <2> QED BY <2>1, <1>3, <1>4
<1>7. /\ IsSeq(Row(f, t, a + 1)) /\ Len(Row(f, t, a + 1)) = a + 1
      /\ \A j \in 1 .. a + 1 : Row(f, t, a + 1)[j] = CharAt(f, t + j)
  <2>1. a + 1 \in Nat
    OBVIOUS
  <2> QED BY <2>1, RowIs
<1>8. \A j \in 1 .. Len(u) : u[j] = Row(f, t, a + 1)[j]
  BY <1>4, <1>6, <1>7
<1> QED BY <1>4, <1>5, <1>7, <1>8, SameSeq DEF u

(* The decoder's step on one byte: the parser at c bytes becomes the parser at *)
(* c + 1, a half character waiting in its carry.                            *)
LEMMA DecodeOne ==
    ASSUME NEW f \in Forms, NEW c \in Nat, NEW k, NEW r, Taken(f, k, r) \in Nat,
           Taken(f, k, r) <= Chars(f, c)
    PROVE  /\ DecodeByte(ParserAt(f, k, r, c), ByteAt(f, c + 1)) = ParserAt(f, k, r, c + 1)
           /\ Chars(f, c) \in Nat /\ Chars(f, c + 1) >= Chars(f, c)
<1> DEFINE t == Taken(f, k, r)
           p == ParserAt(f, k, r, c)
           b == ByteAt(f, c + 1)
           a == Chars(f, c) - t
           li == LinesAt(f, k, r)
           na == NameAt(f, k, r)
           At(d) == [buffer |-> Row(f, t, Chars(f, d) - t), carry |-> Carry(f, d),
                     lines |-> li, name |-> na]
<1>1. ParserAt(f, k, r, c) = At(c) /\ ParserAt(f, k, r, c + 1) = At(c + 1)
  BY DEF ParserAt
<1>2. /\ Chars(f, c) \in Nat
      /\ LeadStep(f, c) \/ ContStep(f, c) \/ PlainStep(f, c)
  BY ByteSteps
<1>0. t \in Nat /\ a \in Nat
  BY <1>2
<1> HIDE DEF t, li, na
<1>3. CASE LeadStep(f, c)
  <2>1. DecodeByte(At(c), b) = At(c + 1)
    BY <1>3 DEF DecodeByte, LeadStep
  <2> QED BY <1>1, <1>2, <1>3, <2>1 DEF LeadStep
<1>4. CASE ContStep(f, c)
  <2>0. Chars(f, c + 1) - t = a + 1 /\ t + a + 1 = Chars(f, c) + 1
    BY <1>0, <1>2, <1>4 DEF ContStep
  <2>1. Append(Row(f, t, a), <<"char", b[2]>>) = Row(f, t, a + 1)
    BY <1>0, <1>4, <2>0, RowGrows, SMTT(20) DEF ContStep
  <2>2. DecodeByte(At(c), b) = [buffer |-> Append(Row(f, t, a), <<"char", b[2]>>),
                                carry |-> NoByte, lines |-> li, name |-> na]
    BY <1>4 DEF DecodeByte, ContStep
  <2>3. DecodeByte(At(c), b) = At(c + 1)
    BY <1>4, <2>0, <2>1, <2>2 DEF ContStep
  <2> QED BY <1>1, <1>2, <1>4, <2>3 DEF ContStep
<1>5. CASE PlainStep(f, c)
  <2>0. Chars(f, c + 1) - t = a + 1 /\ t + a + 1 = Chars(f, c) + 1
    BY <1>0, <1>2, <1>5 DEF PlainStep
  <2>1. Append(Row(f, t, a), b) = Row(f, t, a + 1)
    BY <1>0, <1>5, <2>0, RowGrows DEF PlainStep
  <2>2. DecodeByte(At(c), b) = [buffer |-> Append(Row(f, t, a), b),
                                carry |-> Carry(f, c), lines |-> li, name |-> na]
    BY <1>5 DEF DecodeByte, PlainStep
  <2>3. DecodeByte(At(c), b) = At(c + 1)
    BY <1>5, <2>0, <2>1, <2>2 DEF PlainStep
  <2> QED BY <1>1, <1>2, <1>5, <2>3 DEF PlainStep
<1> QED BY <1>2, <1>3, <1>4, <1>5

(* However the bytes are cut into reads, the decoder is where their number  *)
(* says.                                                                    *)
LEMMA DecodedIs ==
    ASSUME NEW f \in Forms, NEW c \in Nat, NEW k, NEW r, Taken(f, k, r) \in Nat,
           Taken(f, k, r) <= Chars(f, c), NEW n \in Nat
    PROVE  /\ Decoded(ParserAt(f, k, r, c), [j \in 1 .. n |-> ByteAt(f, c + j)])
                = ParserAt(f, k, r, c + n)
           /\ Taken(f, k, r) <= Chars(f, c + n)
<1> DEFINE t == Taken(f, k, r)
           P == {i \in 0 .. n : t <= Chars(f, c + i)}
           B == {ByteAt(f, q) : q \in Nat}
           C == B \cup {<<"char", b[2]>> : b \in B} \cup {Bad, NoByte}
                  \cup {CharAt(f, q) : q \in Nat} \cup {Carry(f, q) : q \in Nat}
           li == LinesAt(f, k, r)
           na == NameAt(f, k, r)
           V == [buffer : Seq(C), carry : C, lines : {li}, name : {na}]
           bytes == [j \in 1 .. n |-> ByteAt(f, c + j)]
           g == [i \in 0 .. n |-> ParserAt(f, k, r, c + i)]
<1>0. \A i \in 0 .. n - 1 :
        /\ i \in 0 .. n /\ i + 1 \in 0 .. n /\ c + i \in Nat /\ (c + i) + 1 = c + (i + 1)
        /\ c + (i + 1) \in Nat
  OBVIOUS
<1>1. \A i \in 0 .. n : c + i \in Nat /\ t <= Chars(f, c + i)
  <2>1. 0 \in P
    OBVIOUS
  <2>2. \A i \in 0 .. n - 1 : i \in P => i + 1 \in P
    <3> SUFFICES ASSUME NEW i \in 0 .. n - 1, i \in P PROVE i + 1 \in P
      OBVIOUS
    <3>1. Chars(f, c + i) \in Nat /\ Chars(f, (c + i) + 1) >= Chars(f, c + i)
      BY <1>0, DecodeOne
    <3>2. Chars(f, c + (i + 1)) \in Nat
      BY <1>0, ByteSteps
    <3>3. t <= Chars(f, c + (i + 1))
      BY <1>0, <3>1, <3>2
    <3> QED BY <1>0, <3>3
  <2>3. P \in SUBSET (0 .. n) /\ 0 \in Nat /\ n \in Nat
    OBVIOUS
  <2>4. \A i \in 0 .. n : i \in P
    <3> HIDE DEF P
    <3> QED BY <2>1, <2>2, <2>3, Induction
  <2> QED BY <2>4
<1>2. \A i \in 0 .. n - 1 :
        DecodeByte(ParserAt(f, k, r, c + i), ByteAt(f, c + (i + 1))) = ParserAt(f, k, r, c + (i + 1))
  <2> SUFFICES ASSUME NEW i \in 0 .. n - 1
               PROVE  DecodeByte(ParserAt(f, k, r, c + i), ByteAt(f, c + (i + 1)))
                        = ParserAt(f, k, r, c + (i + 1))
    OBVIOUS
  <2>1. DecodeByte(ParserAt(f, k, r, c + i), ByteAt(f, (c + i) + 1))
          = ParserAt(f, k, r, (c + i) + 1)
    BY <1>0, <1>1, DecodeOne
  <2> QED BY <2>1, <1>0
<1>3. bytes \in [1 .. n -> B]
  OBVIOUS
<1>4. \A p \in V, b \in B : DecodeByte(p, b) \in V
  <2> SUFFICES ASSUME NEW p \in V, NEW b \in B PROVE DecodeByte(p, b) \in V
    OBVIOUS
  <2>1. b \in C /\ <<"char", b[2]>> \in C /\ Bad \in C /\ NoByte \in C
    OBVIOUS
  <2> DEFINE x == IF p.carry = NoByte THEN Bad ELSE <<"char", b[2]>>
  <2>2. x \in C
    BY <2>1
  <2> HIDE DEF B, C, li, na
  <2>3. \A y \in C : Append(p.buffer, y) \in Seq(C)
    OBVIOUS
  <2>4. CASE b[1] = "lead"
    BY <2>1, <2>4 DEF DecodeByte
  <2>5. CASE b[1] = "cont"
    <3>1. DecodeByte(p, b) = [p EXCEPT !.buffer = Append(p.buffer, x), !.carry = NoByte]
      BY <2>5 DEF DecodeByte
    <3> HIDE DEF x
    <3>2. Append(p.buffer, x) \in Seq(C)
      BY <2>2, <2>3
    <3> QED BY <2>1, <3>1, <3>2
  <2>6. CASE b[1] \notin {"lead", "cont"}
    <3>1. DecodeByte(p, b) = [p EXCEPT !.buffer = Append(p.buffer, b)]
      BY <2>6 DEF DecodeByte
    <3> QED BY <2>1, <2>3, <3>1
  <2> QED BY <2>4, <2>5, <2>6
<1>5. g \in [0 .. n -> V]
  <2> SUFFICES ASSUME NEW i \in 0 .. n PROVE ParserAt(f, k, r, c + i) \in V
    OBVIOUS
  <2>1. Carry(f, c + i) \in C
    BY <1>1
  <2>2. Row(f, t, Chars(f, c + i) - t) \in Seq(C)
    <3>1. Chars(f, c + i) \in Nat
      BY <1>1, ByteSteps
    <3>2. Chars(f, c + i) - t \in Nat
      BY <3>1, <1>1
    <3>3. \A j \in 1 .. Chars(f, c + i) - t : CharAt(f, t + j) \in C
      OBVIOUS
    <3> HIDE DEF C
    <3> QED BY <3>2, <3>3, RowIn
  <2>3. ParserAt(f, k, r, c + i) = [buffer |-> Row(f, t, Chars(f, c + i) - t),
                                    carry |-> Carry(f, c + i), lines |-> li, name |-> na]
    BY DEF ParserAt
  <2> HIDE DEF C, li, na, t
  <2> QED BY <2>1, <2>2, <2>3
<1>6. \A i \in 1 .. n : g[i] = DecodeByte(g[i - 1], bytes[i])
  <2> SUFFICES ASSUME NEW i \in 1 .. n PROVE g[i] = DecodeByte(g[i - 1], bytes[i])
    OBVIOUS
  <2>1. i - 1 \in 0 .. n - 1 /\ (i - 1) + 1 = i /\ i \in 0 .. n /\ i - 1 \in 0 .. n
    OBVIOUS
  <2>2. DecodeByte(ParserAt(f, k, r, c + (i - 1)), ByteAt(f, c + i)) = ParserAt(f, k, r, c + i)
    BY <1>2, <2>1
  <2> QED BY <2>1, <2>2
<1>7. g[0] = ParserAt(f, k, r, c) /\ g[n] = ParserAt(f, k, r, c + n)
  OBVIOUS
<1>8. Decoded(g[0], bytes) = g[n]
  <2> HIDE DEF g, bytes, V, B
  <2> QED BY <1>3, <1>4, <1>5, <1>6, DecodedSteps, ZenonT(40)
<1>9. t <= Chars(f, c + n)
  BY <1>1
<1> QED BY <1>7, <1>8, <1>9

(* The beginning of a row is a row. *)
LEMMA RowHead ==
    ASSUME NEW f, NEW t \in Nat, NEW a \in Nat, NEW m \in 0 .. a
    PROVE  SubSeq(Row(f, t, a), 1, m) = Row(f, t, m)
<1> DEFINE C == {CharAt(f, t + j) : j \in 1 .. a}
           u == SubSeq(Row(f, t, a), 1, m)
<1>0. m \in Nat
  OBVIOUS
<1>1. Row(f, t, a) \in Seq(C)
  <2>1. \A j \in 1 .. a : CharAt(f, t + j) \in C
    OBVIOUS
  <2> HIDE DEF C
  <2> QED BY <2>1, RowIn
<1>2. Len(Row(f, t, a)) = a /\ \A j \in 1 .. a : Row(f, t, a)[j] = CharAt(f, t + j)
  BY RowIs
<1> HIDE DEF C
<1>3. /\ u \in Seq(C) /\ Len(u) = m
      /\ \A j \in 1 .. m : u[j] = Row(f, t, a)[j]
  BY <1>1, <1>2
<1>4. IsSeq(u)
  BY <1>3, SeqIs
<1> HIDE DEF u
<1>5. /\ IsSeq(Row(f, t, m)) /\ Len(Row(f, t, m)) = m
      /\ \A j \in 1 .. m : Row(f, t, m)[j] = CharAt(f, t + j)
  BY <1>0, RowIs
<1>6. \A j \in 1 .. m : j \in 1 .. a
  OBVIOUS
<1>7. \A j \in 1 .. Len(u) : u[j] = Row(f, t, m)[j]
  BY <1>2, <1>3, <1>5, <1>6
<1> QED BY <1>3, <1>4, <1>5, <1>7, SameSeq DEF u

(* The rest of a sequence. *)
LEMMA SubSeqRest ==
    ASSUME NEW S, NEW s \in Seq(S), NEW m \in 0 .. Len(s)
    PROVE  /\ SubSeq(s, m + 1, Len(s)) \in Seq(S)
           /\ Len(SubSeq(s, m + 1, Len(s))) = Len(s) - m
           /\ \A j \in 1 .. Len(s) - m : SubSeq(s, m + 1, Len(s))[j] = s[m + j]
<1>1. /\ Len(s) \in Nat /\ m \in Nat /\ m + 1 \in Nat
      /\ \A j \in 1 .. Len(s) - m : m + j \in 1 .. Len(s) /\ (m + 1) + j - 1 = m + j
  OBVIOUS
<1>2. \A i \in (m + 1) .. Len(s) : s[i] \in S
  BY <1>1
<1>3. SubSeq(s, m + 1, Len(s)) \in Seq(S)
  BY <1>1, <1>2
<1>4. Len(SubSeq(s, m + 1, Len(s))) = Len(s) - m
  BY <1>1
<1>5. \A j \in 1 .. Len(s) - m : SubSeq(s, m + 1, Len(s))[j] = s[m + j]
  BY <1>1
<1> QED BY <1>3, <1>4, <1>5

(* The rest of a row is a row. *)
LEMMA RowRest ==
    ASSUME NEW f, NEW t \in Nat, NEW a \in Nat, NEW m \in 0 .. a
    PROVE  SubSeq(Row(f, t, a), m + 1, a) = Row(f, t + m, a - m)
<1> DEFINE C == {CharAt(f, t + j) : j \in 1 .. a}
           u == SubSeq(Row(f, t, a), m + 1, a)
<1>0. m \in Nat /\ a - m \in Nat /\ t + m \in Nat
  OBVIOUS
<1>1. Row(f, t, a) \in Seq(C)
  <2>1. \A j \in 1 .. a : CharAt(f, t + j) \in C
    OBVIOUS
  <2> HIDE DEF C
  <2> QED BY <2>1, RowIn
<1>2. Len(Row(f, t, a)) = a /\ \A j \in 1 .. a : Row(f, t, a)[j] = CharAt(f, t + j)
  BY RowIs
<1> HIDE DEF C
<1>3. /\ u \in Seq(C) /\ Len(u) = a - m
      /\ \A j \in 1 .. a - m : u[j] = Row(f, t, a)[m + j]
  <2> DEFINE s == Row(f, t, a)
  <2>1. s \in Seq(C) /\ Len(s) = a
    BY <1>1, <1>2
  <2> HIDE DEF s
  <2>2. u = SubSeq(s, m + 1, a)
    BY DEF s
  <2>3. SubSeq(s, m + 1, Len(s)) \in Seq(C) /\ Len(SubSeq(s, m + 1, Len(s))) = Len(s) - m
        /\ \A j \in 1 .. Len(s) - m : SubSeq(s, m + 1, Len(s))[j] = s[m + j]
    BY <2>1, SubSeqRest
  <2> HIDE DEF u
  <2> QED BY <2>1, <2>2, <2>3 DEF s
<1>4. IsSeq(u)
  BY <1>3, SeqIs
<1> HIDE DEF u
<1>5. /\ IsSeq(Row(f, t + m, a - m)) /\ Len(Row(f, t + m, a - m)) = a - m
      /\ \A j \in 1 .. a - m : Row(f, t + m, a - m)[j] = CharAt(f, (t + m) + j)
  BY <1>0, RowIs
<1>6. \A j \in 1 .. a - m : m + j \in 1 .. a /\ t + (m + j) = (t + m) + j
  OBVIOUS
<1>7. \A j \in 1 .. Len(u) : u[j] = Row(f, t + m, a - m)[j]
  BY <1>2, <1>3, <1>5, <1>6
<1> QED BY <1>3, <1>4, <1>5, <1>7, SameSeq DEF u

-----------------------------------------------------------------------------
(* The line that begins at place r of frame k + 1: how long it is, and how  *)
(* long without its end.                                                    *)
LineLen(f, r) ==
    IF f = "lf" THEN (IF r = 0 THEN 3 ELSE 1)
    ELSE IF f = "crlf" THEN (IF r = 0 THEN 4 ELSE 2)
    ELSE IF r = 4 THEN 3 ELSE IF r = 7 THEN 1 ELSE 2
Width(f, r) == LineLen(f, r) - EndLen(f)

LineFacts(f, k, r) ==
    LET t == Taken(f, k, r)
        w == Width(f, r)
        l == LineLen(f, r)
    IN  /\ t \in Nat /\ w \in {0, 1, 2} /\ l = w + EndLen(f) /\ l \in Nat
        /\ CharAt(f, t + l) = LF
        /\ \A j \in 1 .. l - 1 : CharAt(f, t + j) # LF
        /\ f = "crlf" => CharAt(f, t + (w + 1)) = CR
        /\ w # 0 => CharAt(f, t + w) # CR
        /\ w = 2 => CharAt(f, t + 1) = Data /\ CharAt(f, t + 2) = <<"char", k + 1>>
        /\ w = 1 => \/ r = 0 /\ CharAt(f, t + 1) = Note
                    \/ r = 2 /\ CharAt(f, t + 1) = <<"event", k + 1>>

(* The characters of a line: no line feed before its end, a carriage return *)
(* only just before it.                                                     *)
LEMMA LineIs ==
    ASSUME NEW f \in Forms, NEW k \in Nat, NEW r \in LineStarts(f)
    PROVE  LineFacts(f, k, r)
<1>1. PlacesOf(f, k)
  BY Places
<1>2. \A i \in 1 .. TextLen(f) : CharAt(f, TextLen(f) * k + i) = FrameText(f, k + 1)[i]
  BY <1>1 DEF PlacesOf
<1> USE DEF LineStarts, TextLen, FrameLen, Taken, LineLen, EndLen, Width, LF, CR, Data, Note
<1>3. CASE f = "lf"
  <2>1. /\ CharAt(f, 4 * k + 1) = Data /\ CharAt(f, 4 * k + 2) = <<"char", k + 1>>
        /\ CharAt(f, 4 * k + 3) = LF /\ CharAt(f, 4 * k + 4) = LF
    BY <1>2, <1>3 DEF FrameText
  <2>2. CASE r = 0
    <3>1. \A j \in 1 .. 2 : j = 1 \/ j = 2
      OBVIOUS
    <3> QED BY <1>3, <2>1, <2>2, <3>1 DEF LineFacts
  <2>3. CASE r = 3
    BY <1>3, <2>1, <2>3 DEF LineFacts
  <2> QED BY <1>3, <2>2, <2>3
<1>4. CASE f = "crlf"
  <2>1. /\ CharAt(f, 6 * k + 1) = Data /\ CharAt(f, 6 * k + 2) = <<"char", k + 1>>
        /\ CharAt(f, 6 * k + 3) = CR /\ CharAt(f, 6 * k + 4) = LF
        /\ CharAt(f, 6 * k + 5) = CR /\ CharAt(f, 6 * k + 6) = LF
    BY <1>2, <1>4 DEF FrameText
  <2>2. CASE r = 0
    <3>1. \A j \in 1 .. 3 : j = 1 \/ j = 2 \/ j = 3
      OBVIOUS
    <3> QED BY <1>4, <2>1, <2>2, <3>1 DEF LineFacts
  <2>3. CASE r = 4
    BY <1>4, <2>1, <2>3 DEF LineFacts
  <2> QED BY <1>4, <2>2, <2>3
<1>5. CASE f = "named"
  <2>1. /\ CharAt(f, 8 * k + 1) = Note /\ CharAt(f, 8 * k + 2) = LF
        /\ CharAt(f, 8 * k + 3) = <<"event", k + 1>> /\ CharAt(f, 8 * k + 4) = LF
        /\ CharAt(f, 8 * k + 5) = Data /\ CharAt(f, 8 * k + 6) = <<"char", k + 1>>
        /\ CharAt(f, 8 * k + 7) = LF /\ CharAt(f, 8 * k + 8) = LF
    BY <1>2, <1>5 DEF FrameText
  <2>2. CASE r = 0
    BY <1>5, <2>1, <2>2 DEF LineFacts
  <2>3. CASE r = 2
    BY <1>5, <2>1, <2>3 DEF LineFacts
  <2>4. CASE r = 4
    <3>1. \A j \in 1 .. 2 : j = 1 \/ j = 2
      OBVIOUS
    <3> QED BY <1>5, <2>1, <2>4, <3>1 DEF LineFacts
  <2>5. CASE r = 7
    BY <1>5, <2>1, <2>5 DEF LineFacts
  <2> QED BY <1>5, <2>2, <2>3, <2>4, <2>5
<1> QED BY <1>3, <1>4, <1>5 DEF Forms

(* stripTrailingCR leaves a line without its end. *)
LEMMA Stripped ==
    ASSUME NEW f \in Forms, NEW k \in Nat, NEW r \in LineStarts(f)
    PROVE  stripTrailingCR(Row(f, Taken(f, k, r), LineLen(f, r) - 1))
             = Row(f, Taken(f, k, r), Width(f, r))
<1> DEFINE t == Taken(f, k, r)
           l == LineLen(f, r)
           w == Width(f, r)
           line == Row(f, t, l - 1)
<1>1. LineFacts(f, k, r)
  BY LineIs
<1>2. /\ t \in Nat /\ w \in Nat /\ l - 1 \in Nat /\ l = w + EndLen(f) /\ w \in 0 .. l - 1
      /\ f = "crlf" => l - 1 = w + 1 /\ CharAt(f, t + (w + 1)) = CR
      /\ f # "crlf" => l - 1 = w
      /\ w # 0 => CharAt(f, t + w) # CR
  BY <1>1 DEF LineFacts, EndLen
<1> HIDE DEF t, l, w
<1>3. Len(line) = l - 1 /\ \A j \in 1 .. l - 1 : line[j] = CharAt(f, t + j)
  BY <1>2, RowIs
<1>4. CASE f = "crlf"
  <2>1. Len(line) = w + 1 /\ line[Len(line)] = CR
    BY <1>2, <1>3, <1>4
  <2>2. line # <<>>
    BY <1>2, <2>1
  <2>3. SubSeq(line, 1, w) = Row(f, t, w)
    BY <1>2, RowHead
  <2>4. Len(line) - 1 = w
    BY <1>2, <2>1
  <2> HIDE DEF line
  <2>5. stripTrailingCR(line) = Row(f, t, w)
    BY <2>1, <2>2, <2>3, <2>4 DEF stripTrailingCR, Last, Front
  <2> QED BY <2>5 DEF line, t, l, w
<1>5. CASE f # "crlf"
  <2>1. line = Row(f, t, w)
    BY <1>2, <1>5
  <2>2. line # <<>> => line[Len(line)] # CR
    <3>1. CASE w = 0
      <4>1. line = <<>>
        BY <1>2, <1>5, <3>1 DEF Row
      <4> QED BY <4>1
    <3>2. CASE w # 0
      <4>1. Len(line) = w /\ line[w] = CharAt(f, t + w)
        BY <1>2, <1>3, <1>5, <3>2
      <4> QED BY <4>1, <1>2, <3>2
    <3> QED BY <3>1, <3>2
  <2> HIDE DEF line
  <2>3. stripTrailingCR(line) = Row(f, t, w)
    BY <2>1, <2>2 DEF stripTrailingCR, Last
  <2> QED BY <2>3 DEF line, t, l, w
<1> QED BY <1>4, <1>5

(* A sequence of one element. *)
LEMMA RowOne ==
    ASSUME NEW s, IsSeq(s), Len(s) = 1
    PROVE  s = <<s[1]>>
<1>1. IsSeq(<<s[1]>>)
  BY TuplesAreSeqs
<1>2. Len(<<s[1]>>) = 1 /\ \A i \in 1 .. 1 : s[i] = <<s[1]>>[i]
  OBVIOUS
<1> HIDE DEF IsSeq
<1> QED BY <1>1, <1>2, SameSeq

(* When a row is empty. *)
LEMMA RowNone ==
    ASSUME NEW f, NEW t \in Nat, NEW a \in Nat
    PROVE  (Row(f, t, a) = <<>>) <=> (a = 0)
<1>1. Len(Row(f, t, a)) = a
  BY RowIs
<1>2. CASE a = 0
  <2>1. Row(f, t, a) = <<>>
    BY <1>2 DEF Row
  <2> QED BY <1>2, <2>1
<1>3. CASE a # 0
  <2>1. Row(f, t, a) # <<>>
    BY <1>1, <1>3
  <2> QED BY <1>3, <2>1
<1> QED BY <1>2, <1>3

(* Where lines begin, and what the parser keeps there. *)
LineNext(f, k, r) ==
    LET l == LineLen(f, r)
        w == Width(f, r)
    IN  /\ r \in Nat /\ Taken(f, k, r) + l = Taken(f, k, r + l)
        /\ Taken(f, k, TextLen(f)) = Taken(f, k + 1, 0)
        /\ w = 0 => /\ r + l = TextLen(f)
                    /\ LinesAt(f, k, r) = <<<<<<"char", k + 1>>>>>>
        /\ w # 0 => /\ r + l \in LineStarts(f) /\ r + l < TextLen(f)
                    /\ LinesAt(f, k, r) = <<>>
        /\ w = 2 => /\ LinesAt(f, k, r + l) = <<<<<<"char", k + 1>>>>>>
                    /\ NameAt(f, k, r + l) = NameAt(f, k, r)
        /\ w = 1 => /\ LinesAt(f, k, r + l) = <<>>
                    /\ NameAt(f, k, r) = 0
                    /\ r = 0 => NameAt(f, k, r + l) = 0
                    /\ r = 2 => NameAt(f, k, r + l) = k + 1

(* Where the next line begins. *)
LEMMA LineNexts ==
    ASSUME NEW f \in Forms, NEW k \in Nat, NEW r \in LineStarts(f)
    PROVE  LineNext(f, k, r)
<1> USE DEF LineStarts, TextLen, FrameLen, Taken, LineLen, EndLen, Width, LinesAt, NameAt
<1>1. CASE f = "lf"
  BY <1>1 DEF LineNext
<1>2. CASE f = "crlf"
  BY <1>2 DEF LineNext
<1>3. CASE f = "named"
  <2>1. CASE r = 0
    BY <1>3, <2>1 DEF LineNext
  <2>2. CASE r = 2
    BY <1>3, <2>2 DEF LineNext
  <2>3. CASE r = 4
    BY <1>3, <2>3 DEF LineNext
  <2>4. CASE r = 7
    BY <1>3, <2>4 DEF LineNext
  <2> QED BY <1>3, <2>1, <2>2, <2>3, <2>4
<1> QED BY <1>1, <1>2, <1>3 DEF Forms

(* Where the first line of a text ends. *)
FirstLF(s) ==
    LET I == {i \in 1 .. Len(s) : s[i] = LF} IN IF I # {} THEN Min(I) ELSE 0

(* The parser's step, with the place of the line feed named. *)
LEMMA NextLineIs ==
    ASSUME NEW p, NEW b, NEW e, p.buffer = b, FirstLF(b) = e
    PROVE  NextLine(p) = ProcessLine([p EXCEPT !.buffer = SubSeq(b, e + 1, Len(b))],
                                     SubSeq(b, 1, e - 1))
BY DEF NextLine, SelectInSeq, FirstLF

(* The buffer's first line feed ends the line the parser is at. *)
LEMMA FirstLine ==
    ASSUME NEW f \in Forms, NEW k \in Nat, NEW r \in LineStarts(f), NEW a \in Nat,
           Contains(Row(f, Taken(f, k, r), a), LF)
    PROVE  /\ LineLen(f, r) <= a /\ LineLen(f, r) \in Nat
           /\ FirstLF(Row(f, Taken(f, k, r), a)) = LineLen(f, r)
<1> DEFINE t == Taken(f, k, r)
           l == LineLen(f, r)
           s == Row(f, t, a)
           I == {i \in 1 .. Len(s) : s[i] = LF}
<1>1. LineFacts(f, k, r)
  BY LineIs
<1>2. /\ t \in Nat /\ l \in Nat /\ l >= 1 /\ CharAt(f, t + l) = LF
      /\ \A j \in 1 .. l - 1 : CharAt(f, t + j) # LF
  BY <1>1 DEF LineFacts, EndLen
<1>0. Contains(s, LF)
  OBVIOUS
<1> HIDE DEF t, l
<1>3. Len(s) = a /\ \A j \in 1 .. a : s[j] = CharAt(f, t + j)
  BY <1>2, RowIs
<1>4. PICK i \in 1 .. a : s[i] = LF
  <2> HIDE DEF s
  <2> QED BY <1>0, <1>3 DEF Contains
<1>5. l <= a
  <2>1. CharAt(f, t + i) = LF
    BY <1>3, <1>4
  <2>2. i \notin 1 .. l - 1
    BY <1>2, <2>1
  <2> QED BY <1>2, <2>2
<1> HIDE DEF s
<1>6. l \in I /\ \A j \in I : l <= j
  <2>1. l \in 1 .. a
    BY <1>2, <1>5
  <2>2. l \in I
    BY <1>2, <1>3, <2>1
  <2>3. ASSUME NEW j \in I PROVE l <= j
    <3>1. j \in 1 .. a /\ CharAt(f, t + j) = LF
      BY <1>3
    <3>2. j \notin 1 .. l - 1
      BY <1>2, <3>1
    <3> QED BY <1>2, <3>1, <3>2
  <2> QED BY <2>2, <2>3
<1>7. I \subseteq Nat
  BY <1>3
<1> HIDE DEF I
<1>8. Min(I) = l
  <2>1. \A x \in I : (\A y \in I : x <= y) => x = l
    BY <1>2, <1>6, <1>7
  <2>2. \E x \in I : \A y \in I : x <= y
    BY <1>6
  <2> QED BY <2>1, <2>2, Zenon DEF Min
<1>9. FirstLF(s) = l
  BY <1>6, <1>8 DEF FirstLF, I
<1> QED BY <1>2, <1>5, <1>9 DEF s, t, l

(* A pending event of one line. *)
LEMMA TailJoined ==
    ASSUME NEW T, NEW y \in Seq(T)
    PROVE  <<NL>> \o y \in Seq(T \cup {NL}) /\ Tail(<<NL>> \o y) = y
<1> DEFINE S == T \cup {NL}
           nl == <<NL>>
           u == nl \o y
           v == Tail(u)
<1>1. nl \in Seq(S) /\ Len(nl) = 1 /\ y \in Seq(S)
  OBVIOUS
<1>2. IsSeq(nl) /\ IsSeq(y)
  BY <1>1, SeqIs
<1> HIDE DEF nl, S
<1>3. u \in Seq(S)
  BY <1>1
<1>4. IsCat(u, nl, y)
  BY <1>2, Catenated
<1> HIDE DEF u
<1>5. /\ Len(y) \in Nat /\ Len(u) = Len(nl) + Len(y)
      /\ \A i \in 1 .. Len(y) : u[Len(nl) + i] = y[i]
  BY <1>4, CatParts
<1>6. Len(u) = 1 + Len(y) /\ \A i \in 1 .. Len(y) : u[1 + i] = y[i]
  BY <1>1, <1>5
<1>7. u # <<>>
  BY <1>5, <1>6
<1>8. v \in Seq(S) /\ Len(v) = Len(u) - 1 /\ \A i \in 1 .. Len(u) - 1 : v[i] = u[i + 1]
  BY <1>3, <1>7
<1>9. IsSeq(v)
  BY <1>8, SeqIs
<1> HIDE DEF v
<1>10. \A i \in 1 .. Len(y) : i \in 1 .. Len(u) - 1 /\ i + 1 = 1 + i
  BY <1>5, <1>6
<1>11. Len(v) = Len(y)
  BY <1>5, <1>6, <1>8
<1>12. \A i \in 1 .. Len(v) : v[i] = y[i]
  BY <1>6, <1>8, <1>10, <1>11
<1>13. v = y
  BY <1>2, <1>9, <1>11, <1>12, SameSeq
<1> QED BY <1>3, <1>13 DEF u, v, nl, S

(* Flushing one line of data gives an event with that line. *)
LEMMA FlushLine ==
    ASSUME NEW p, NEW T, NEW y \in Seq(T), p.lines = <<y>>
    PROVE  /\ Flush(p).found = TRUE
           /\ Flush(p).parser = [p EXCEPT !.lines = <<>>, !.name = 0]
           /\ Flush(p).event.data = y
           /\ Flush(p).event.name = p.name
<1> DEFINE both == <<NL>> \o y
           s == [i \in DOMAIN p.lines |-> <<NL>> \o p.lines[i]]
           S == T \cup {NL}
<1>1. p.lines # <<>>
  OBVIOUS
<1>2. s = [i \in 1 .. 1 |-> both]
  <2>1. DOMAIN p.lines = 1 .. 1 /\ \A i \in 1 .. 1 : p.lines[i] = y
    OBVIOUS
  <2>2. \A i \in 1 .. 1 : <<NL>> \o p.lines[i] = both
    BY <2>1
  <2> HIDE DEF both
  <2> QED BY <2>1, <2>2
<1>7. Flush(p).event.data = Tail(FlattenSeq(s))
  BY <1>1 DEF Flush
<1>3. both \in Seq(S) /\ Tail(both) = y
  BY TailJoined
<1> HIDE DEF both, S, s
<1>5. FlattenSeq(s) = both
  <2>1. s \in [1 .. 1 -> Seq(S)] /\ s[1] = both /\ 1 \in Nat \ {0}
    <3>1. 1 \in 1 .. 1
      OBVIOUS
    <3> QED BY <1>2, <1>3, <3>1
  <2>2. Summed(S, 1, s)
    BY <2>1, FlattenSums
  <2>3. FlattenSeq(s) = s[1]
    BY <2>2 DEF Summed
  <2> QED BY <2>1, <2>3
<1> QED BY <1>1, <1>3, <1>5, <1>7 DEF Flush

(* The same, for a line of one character. *)
LEMMA FlushOne ==
    ASSUME NEW p, NEW x, p.lines = <<<<x>>>>
    PROVE  /\ Flush(p).found = TRUE
           /\ Flush(p).parser = [p EXCEPT !.lines = <<>>, !.name = 0]
           /\ Len(Flush(p).event.data) = 1 /\ Flush(p).event.data[1] = x
           /\ Flush(p).event.name = p.name
<1> DEFINE y == <<x>>
           T == {x}
<1>1. y \in Seq(T) /\ p.lines = <<y>> /\ Len(y) = 1 /\ y[1] = x
  OBVIOUS
<1> HIDE DEF y, T
<1>2. /\ Flush(p).found = TRUE
      /\ Flush(p).parser = [p EXCEPT !.lines = <<>>, !.name = 0]
      /\ Flush(p).event.data = y
      /\ Flush(p).event.name = p.name
  BY <1>1, FlushLine
<1> QED BY <1>1, <1>2

(* The tail of two elements. *)
LEMMA TailTwo ==
    ASSUME NEW S, NEW s \in Seq(S), Len(s) = 2
    PROVE  Tail(s) = <<s[2]>>
<1>0. s # <<>>
  OBVIOUS
<1>1. Tail(s) \in Seq(S) /\ Len(Tail(s)) = 1
  BY <1>0
<1>2. Tail(s)[1] = s[2]
  BY <1>0
<1>3. IsSeq(Tail(s))
  BY <1>1, SeqIs
<1> QED BY <1>1, <1>2, <1>3, RowOne

(* A line of width 2 is the data of frame k + 1. *)
LEMMA DataLine ==
    ASSUME NEW f \in Forms, NEW k \in Nat, NEW r \in LineStarts(f), Width(f, r) = 2
    PROVE  LET line == Row(f, Taken(f, k, r), 2) IN
           /\ line # <<>> /\ line[1][1] = "data"
           /\ Tail(line) = <<<<"char", k + 1>>>>
<1> DEFINE t == Taken(f, k, r)
           line == Row(f, t, 2)
           S == {Data, <<"char", k + 1>>}
<1>1. LineFacts(f, k, r)
  BY LineIs
<1>2. t \in Nat /\ CharAt(f, t + 1) = Data /\ CharAt(f, t + 2) = <<"char", k + 1>>
  BY <1>1 DEF LineFacts
<1> HIDE DEF t
<1>3. Len(line) = 2 /\ \A j \in 1 .. 2 : line[j] = CharAt(f, t + j)
  <2>1. 2 \in Nat
    OBVIOUS
  <2> QED BY <1>2, <2>1, RowIs, ZenonT(40)
<1>4. line[1] = Data /\ line[2] = <<"char", k + 1>>
  BY <1>2, <1>3
<1>5. line \in Seq(S)
  <2>1. \A j \in 1 .. 2 : j = 1 \/ j = 2
    OBVIOUS
  <2>2. \A j \in 1 .. 2 : CharAt(f, t + j) \in S
    BY <1>2, <2>1
  <2> HIDE DEF S
  <2> QED BY <1>2, <2>2, RowIn
<1> HIDE DEF line, S
<1>7. Tail(line) = <<<<"char", k + 1>>>>
  <2>1. Tail(line) = <<line[2]>>
    BY <1>3, <1>5, TailTwo
  <2> QED BY <1>4, <2>1
<1>8. line # <<>> /\ line[1][1] = "data"
  BY <1>3, <1>4 DEF Data
<1> QED BY <1>7, <1>8 DEF line, t

(* Appending to nothing. *)
LEMMA AppendOne ==
    ASSUME NEW x
    PROVE  Append(<<>>, x) = <<x>>
<1>1. Append(<<>>, x) \in Seq({x}) /\ Len(Append(<<>>, x)) = 1 /\ Append(<<>>, x)[1] = x
  OBVIOUS
<1>2. IsSeq(Append(<<>>, x))
  BY <1>1, SeqIs
<1> QED BY <1>1, <1>2, RowOne

(* What processLine makes of the line that begins at place r. *)
FieldsAt(f, k, r, b, cy) ==
    [buffer |-> b, carry |-> cy, lines |-> LinesAt(f, k, r), name |-> NameAt(f, k, r)]
Processed(f, k, r, b, cy, found) ==
    IF Width(f, r) = 0
    THEN /\ found.found
         /\ found.parser = [buffer |-> b, carry |-> cy, lines |-> <<>>, name |-> 0]
         /\ Len(found.event.data) = 1 /\ found.event.data[1] = <<"char", k + 1>>
    ELSE found = Nothing(FieldsAt(f, k, r + LineLen(f, r), b, cy))

(* What ProcessLine makes of each line of a frame: nothing of a comment, the *)
(* name of a name's line, the data of a data line, the event at the empty line. *)
LEMMA LineProcessed ==
    ASSUME NEW f \in Forms, NEW k \in Nat, NEW r \in LineStarts(f), NEW b, NEW cy, NEW raw,
           stripTrailingCR(raw) = Row(f, Taken(f, k, r), Width(f, r))
    PROVE  Processed(f, k, r, b, cy, ProcessLine(FieldsAt(f, k, r, b, cy), raw))
<1> DEFINE t == Taken(f, k, r)
           w == Width(f, r)
           l == LineLen(f, r)
           At(q) == [buffer |-> b, carry |-> cy, lines |-> LinesAt(f, k, q),
                     name |-> NameAt(f, k, q)]
           found == ProcessLine(At(r), raw)
           line == Row(f, t, w)
<1> SUFFICES IF w = 0
             THEN /\ found.found
                  /\ found.parser = [buffer |-> b, carry |-> cy, lines |-> <<>>, name |-> 0]
                  /\ Len(found.event.data) = 1 /\ found.event.data[1] = <<"char", k + 1>>
             ELSE found = Nothing(At(r + l))
  BY DEF Processed, FieldsAt
<1>1. LineFacts(f, k, r)
  BY LineIs
<1>2. LineNext(f, k, r)
  BY LineNexts
<1>3. t \in Nat /\ w \in {0, 1, 2}
  BY <1>1 DEF LineFacts
<1>4. stripTrailingCR(raw) = line
  OBVIOUS
<1>5. (line = <<>>) <=> (w = 0)
  BY <1>3, RowNone
<1>6. CASE w = 0
  <2>1. At(r).lines = <<<<<<"char", k + 1>>>>>>
    BY <1>2, <1>6 DEF LineNext
  <2>2. found = Flush(At(r))
    <3> HIDE DEF line
    <3> QED BY <1>4, <1>5, <1>6 DEF ProcessLine
  <2>3. [At(r) EXCEPT !.lines = <<>>, !.name = 0]
          = [buffer |-> b, carry |-> cy, lines |-> <<>>, name |-> 0]
    <3> DEFINE p == At(r)
               q == [p EXCEPT !.lines = <<>>]
    <3>1. p = [buffer |-> b, carry |-> cy, lines |-> LinesAt(f, k, r), name |-> NameAt(f, k, r)]
      OBVIOUS
    <3> HIDE DEF p
    <3>2. q = [buffer |-> b, carry |-> cy, lines |-> <<>>, name |-> NameAt(f, k, r)]
      BY <3>1
    <3>3. [p EXCEPT !.lines = <<>>, !.name = 0] = [q EXCEPT !.name = 0]
      OBVIOUS
    <3> HIDE DEF q
    <3>4. [q EXCEPT !.name = 0] = [buffer |-> b, carry |-> cy, lines |-> <<>>, name |-> 0]
      BY <3>2
    <3> QED BY <3>3, <3>4 DEF p
  <2> DEFINE p == At(r)
  <2> HIDE DEF At, p
  <2>4. /\ Flush(p).found = TRUE
        /\ Flush(p).parser = [p EXCEPT !.lines = <<>>, !.name = 0]
        /\ Len(Flush(p).event.data) = 1 /\ Flush(p).event.data[1] = <<"char", k + 1>>
    BY <2>1, FlushOne DEF p
  <2> QED BY <1>6, <2>2, <2>3, <2>4 DEF p, At
<1>7. CASE w = 2
  <2>1. /\ line # <<>> /\ line[1][1] = "data" /\ Tail(line) = <<<<"char", k + 1>>>>
    BY <1>7, DataLine
  <2>2. found = Nothing([At(r) EXCEPT !.lines = Append(@, Tail(line))])
    <3> HIDE DEF line
    <3> QED BY <1>4, <1>5, <1>7, <2>1 DEF ProcessLine
  <2>3. /\ LinesAt(f, k, r) = <<>> /\ LinesAt(f, k, r + l) = <<<<<<"char", k + 1>>>>>>
        /\ NameAt(f, k, r + l) = NameAt(f, k, r)
    BY <1>2, <1>7 DEF LineNext
  <2>4. Append(LinesAt(f, k, r), Tail(line)) = LinesAt(f, k, r + l)
    BY <2>1, <2>3, AppendOne
  <2>5. [At(r) EXCEPT !.lines = Append(@, Tail(line))] = At(r + l)
    <3> DEFINE li2 == Append(LinesAt(f, k, r), Tail(line))
    <3>1. [At(r) EXCEPT !.lines = Append(@, Tail(line))] = [At(r) EXCEPT !.lines = li2]
      OBVIOUS
    <3> HIDE DEF li2
    <3>2. [At(r) EXCEPT !.lines = li2]
            = [buffer |-> b, carry |-> cy, lines |-> li2, name |-> NameAt(f, k, r)]
      OBVIOUS
    <3>3. li2 = LinesAt(f, k, r + l)
      BY <2>4 DEF li2
    <3> QED BY <2>3, <3>1, <3>2, <3>3
  <2> QED BY <1>7, <2>2, <2>5
<1>8. CASE w = 1
  <2>1. Len(line) = 1 /\ line[1] = CharAt(f, t + 1)
    <3>1. 1 \in 1 .. 1 /\ 1 \in Nat
      OBVIOUS
    <3>2. Len(Row(f, t, 1)) = 1 /\ \A j \in 1 .. 1 : Row(f, t, 1)[j] = CharAt(f, t + j)
      BY <1>3, <3>1, RowIs
    <3> QED BY <1>8, <3>1, <3>2
  <2>2. /\ LinesAt(f, k, r) = <<>> /\ LinesAt(f, k, r + l) = <<>>
        /\ NameAt(f, k, r) = 0
    BY <1>2, <1>8 DEF LineNext
  <2>3. CASE r = 0
    <3>1. CharAt(f, t + 1) = Note /\ NameAt(f, k, r + l) = 0
      BY <1>1, <1>2, <1>8, <2>3 DEF LineFacts, LineNext
    <3>2. found = Nothing(At(r))
      <4> HIDE DEF line
      <4> QED BY <1>4, <1>5, <1>8, <2>1, <3>1 DEF ProcessLine, Note
    <3> QED BY <1>8, <2>2, <3>1, <3>2
  <2>4. CASE r = 2
    <3>1. CharAt(f, t + 1) = <<"event", k + 1>> /\ NameAt(f, k, r + l) = k + 1
      BY <1>1, <1>2, <1>8, <2>4 DEF LineFacts, LineNext
    <3>2. found = Nothing([At(r) EXCEPT !.name = k + 1])
      <4> HIDE DEF line
      <4> QED BY <1>4, <1>5, <1>8, <2>1, <3>1 DEF ProcessLine
    <3> QED BY <1>8, <2>2, <3>1, <3>2
  <2> QED BY <1>1, <1>8, <2>3, <2>4 DEF LineFacts
<1> QED BY <1>3, <1>6, <1>7, <1>8

(* The characters decoded never exceed those of the stream, and reach them only *)
(* at its last byte.                                                        *)
LEMMA CharsBound ==
    ASSUME NEW f \in Forms, NEW n \in Nat, NEW c \in 0 .. FrameLen(f) * n
    PROVE  /\ Chars(f, c) \in Nat /\ Chars(f, c) <= TextLen(f) * n
           /\ Chars(f, c) = TextLen(f) * n => c = FrameLen(f) * n
           /\ Chars(f, FrameLen(f) * n) = TextLen(f) * n
           /\ Carry(f, FrameLen(f) * n) = NoByte
<1>0. c \in Nat /\ FrameLen(f) \in Nat
  BY DEF FrameLen, Forms
<1>1. PICK m \in Nat : \E i \in 0 .. FrameLen(f) - 1 : c = FrameLen(f) * m + i
  BY <1>0, Divided
<1>2. PICK i \in 0 .. FrameLen(f) - 1 : c = FrameLen(f) * m + i
  BY <1>1
<1>3. PlacesOf(f, m) /\ PlacesOf(f, n)
  BY Places
<1>4. Chars(f, c) = TextLen(f) * m + (IF i >= Lead(f) THEN i - 1 ELSE i)
  BY <1>2, <1>3 DEF PlacesOf
<1>5. /\ Chars(f, FrameLen(f) * n + 0) = TextLen(f) * n + (IF 0 >= Lead(f) THEN 0 - 1 ELSE 0)
      /\ Carry(f, FrameLen(f) * n + 0) = IF 0 = Lead(f) THEN <<"lead", n + 1>> ELSE NoByte
  <2>1. 0 \in 0 .. FrameLen(f) - 1
    BY DEF FrameLen, Forms
  <2> QED BY <1>3, <2>1 DEF PlacesOf
<1> USE DEF FrameLen, TextLen, Lead
<1>6. CASE f = "lf"
  BY <1>2, <1>4, <1>5, <1>6
<1>7. CASE f = "crlf"
  BY <1>2, <1>4, <1>5, <1>7
<1>8. CASE f = "named"
  BY <1>2, <1>4, <1>5, <1>8
<1> QED BY <1>6, <1>7, <1>8 DEF Forms

(* A place of the parser in a stream of n frames. *)
Placed(f, n, k, r, c) ==
    /\ f \in Forms /\ n \in Nat /\ k \in 0 .. n /\ r \in LineStarts(f) /\ (k = n => r = 0)
    /\ c \in 0 .. FrameLen(f) * n /\ Taken(f, k, r) <= Chars(f, c)

(* Reading Placed: the parser never is ahead of its bytes, and at the end of *)
(* the stream only a whole last frame is behind it.                         *)
LEMMA PlacedFacts ==
    ASSUME NEW f, NEW n, NEW k, NEW r, NEW c, Placed(f, n, k, r, c)
    PROVE  /\ f \in Forms /\ n \in Nat /\ k \in Nat /\ r \in LineStarts(f) /\ c \in Nat
           /\ Taken(f, k, r) \in Nat /\ Chars(f, c) \in Nat
           /\ Chars(f, c) - Taken(f, k, r) \in Nat
           /\ k = n => c = FrameLen(f) * n /\ r = 0 /\ Chars(f, c) = Taken(f, k, r)
           /\ k # n /\ c = FrameLen(f) * n => LineLen(f, r) <= Chars(f, c) - Taken(f, k, r)
           /\ LineLen(f, r) \in Nat \ {0}
<1>1. f \in Forms /\ n \in Nat /\ k \in Nat /\ r \in LineStarts(f) /\ c \in 0 .. FrameLen(f) * n
  BY DEF Placed
<1>0. c \in Nat
  BY <1>1 DEF FrameLen
<1>2. LineFacts(f, k, r) /\ LineNext(f, k, r)
  BY <1>1, LineIs, LineNexts
<1>3. /\ Chars(f, c) \in Nat /\ Chars(f, c) <= TextLen(f) * n
      /\ Chars(f, c) = TextLen(f) * n => c = FrameLen(f) * n
      /\ Chars(f, FrameLen(f) * n) = TextLen(f) * n
  BY <1>1, CharsBound
<1>4. Taken(f, k, r) \in Nat /\ LineLen(f, r) \in Nat \ {0}
  BY <1>2 DEF LineFacts, EndLen
<1>5. Chars(f, c) - Taken(f, k, r) \in Nat
  BY <1>3, <1>4 DEF Placed
<1>6. ASSUME k = n PROVE c = FrameLen(f) * n /\ r = 0 /\ Chars(f, c) = Taken(f, k, r)
  <2>1. r = 0 /\ Taken(f, k, r) = TextLen(f) * n
    <3>1. r = 0 /\ TextLen(f) \in Nat
      BY <1>1, <1>6 DEF Placed, TextLen, FrameLen
    <3> QED BY <1>1, <1>6, <3>1 DEF Taken
  <2>2. Chars(f, c) = TextLen(f) * n
    BY <1>3, <2>1, <1>4, <1>5
  <2> QED BY <1>3, <2>1, <2>2
<1>7. ASSUME k # n, c = FrameLen(f) * n
      PROVE  LineLen(f, r) <= Chars(f, c) - Taken(f, k, r)
  <2>1. r \in Nat /\ r + LineLen(f, r) <= TextLen(f)
    <3>1. Width(f, r) = 0 \/ Width(f, r) # 0
      OBVIOUS
    <3>2. TextLen(f) \in Nat
      BY DEF TextLen, FrameLen
    <3> QED BY <1>2, <1>4, <3>1, <3>2 DEF LineNext
  <2>2. k + 1 <= n /\ k \in Nat /\ n \in Nat
    BY <1>1, <1>7 DEF Placed
  <2>3. TextLen(f) \in {4, 6, 8}
    BY DEF TextLen, FrameLen
  <2>4. Chars(f, c) = TextLen(f) * n /\ Taken(f, k, r) = TextLen(f) * k + r
    BY <1>3, <1>7 DEF Taken
  <2>5. TextLen(f) * (k + 1) <= TextLen(f) * n /\ TextLen(f) * (k + 1) = TextLen(f) * k + TextLen(f)
    BY <2>2, <2>3
  <2> HIDE DEF Placed
  <2>6. TextLen(f) * k \in Nat /\ TextLen(f) * n \in Nat /\ TextLen(f) \in Nat
    BY <2>2, <2>3
  <2> QED BY <1>4, <2>1, <2>4, <2>5, <2>6
<1> QED BY <1>0, <1>1, <1>3, <1>4, <1>5, <1>6, <1>7

(* The buffer holds a whole line exactly when its end has been decoded. *)
LEMMA HasLineIs ==
    ASSUME NEW f, NEW n, NEW k, NEW r, NEW c, Placed(f, n, k, r, c)
    PROVE  HasLine(ParserAt(f, k, r, c))
             <=> LineLen(f, r) <= Chars(f, c) - Taken(f, k, r)
<1> DEFINE t == Taken(f, k, r)
           l == LineLen(f, r)
           a == Chars(f, c) - t
<1>1. /\ f \in Forms /\ k \in Nat /\ r \in LineStarts(f) /\ t \in Nat /\ a \in Nat
      /\ l \in Nat \ {0}
  BY PlacedFacts
<1>2. HasLine(ParserAt(f, k, r, c)) <=> Contains(Row(f, t, a), LF)
  BY DEF HasLine, ParserAt
<1>3. CharAt(f, t + l) = LF
  BY <1>1, LineIs DEF LineFacts
<1>4. Len(Row(f, t, a)) = a /\ \A j \in 1 .. a : Row(f, t, a)[j] = CharAt(f, t + j)
  BY <1>1, RowIs
<1>5. ASSUME l <= a PROVE Contains(Row(f, t, a), LF)
  <2>1. l \in 1 .. a
    BY <1>1, <1>5
  <2> QED BY <1>3, <1>4, <2>1 DEF Contains
<1>6. ASSUME Contains(Row(f, t, a), LF) PROVE l <= a
  BY <1>1, <1>6, FirstLine
<1> QED BY <1>2, <1>5, <1>6

(* The parser takes the next line: it is inside an event, or it has one. *)
LineTaken(f, n, k, c, found) ==
    /\ k + 1 \in 1 .. n
    /\ \/ /\ ~found.found
          /\ \E q \in LineStarts(f) : found.parser = ParserAt(f, k, q, c) /\ Placed(f, n, k, q, c)
       \/ /\ found.found
          /\ found.parser = ParserAt(f, k + 1, 0, c) /\ Placed(f, n, k + 1, 0, c)
          /\ Len(found.event.data) = 1 /\ found.event.data[1] = <<"char", k + 1>>

(* Taking a line moves the parser to the next line; at the end of a frame it *)
(* gives the event of that frame and of no other.                           *)
LEMMA NextLineTakes ==
    ASSUME NEW f, NEW n, NEW k, NEW r, NEW c, Placed(f, n, k, r, c),
           HasLine(ParserAt(f, k, r, c))
    PROVE  LineTaken(f, n, k, c, NextLine(ParserAt(f, k, r, c)))
<1> DEFINE t == Taken(f, k, r)
           l == LineLen(f, r)
           w == Width(f, r)
           a == Chars(f, c) - t
           cy == Carry(f, c)
           At(b, q) == [buffer |-> b, carry |-> cy, lines |-> LinesAt(f, k, q),
                        name |-> NameAt(f, k, q)]
           b0 == Row(f, t, a)
           b1 == Row(f, t + l, a - l)
           raw == Row(f, t, l - 1)
           found == NextLine(ParserAt(f, k, r, c))
<1>1. /\ f \in Forms /\ n \in Nat /\ k \in Nat /\ r \in LineStarts(f) /\ c \in Nat
      /\ t \in Nat /\ Chars(f, c) \in Nat /\ a \in Nat /\ l \in Nat \ {0}
      /\ k = n => Chars(f, c) = t
  BY PlacedFacts
<1>2. l <= a
  BY HasLineIs
<1>3. k + 1 \in 1 .. n /\ k # n
  <2>1. k # n
    BY <1>1, <1>2
  <2> QED BY <1>1, <2>1 DEF Placed
<1>4. FirstLF(b0) = l
  <2>1. Contains(b0, LF)
    BY DEF HasLine, ParserAt
  <2> QED BY <1>1, <2>1, FirstLine
<1>5. ParserAt(f, k, r, c) = At(b0, r)
  BY DEF ParserAt
<1>6. Len(b0) = a /\ SubSeq(b0, l + 1, a) = b1 /\ SubSeq(b0, 1, l - 1) = raw
  <2>1. l \in 0 .. a /\ l - 1 \in 0 .. a
    BY <1>1, <1>2
  <2>0. t \in Nat /\ a \in Nat
    BY <1>1
  <2> HIDE DEF t, l, a
  <2>2. Len(b0) = a
    BY <1>1, RowIs
  <2>3. SubSeq(b0, 1, l - 1) = raw
    BY <1>1, <2>1, RowHead
  <2>4. SubSeq(b0, l + 1, a) = b1
    BY <2>0, <2>1, RowRest
  <2> QED BY <2>2, <2>3, <2>4
<1>7. stripTrailingCR(raw) = Row(f, t, w)
  BY <1>1, Stripped
<1>0. LineNext(f, k, r)
  BY <1>1, LineNexts
<1>8. found = ProcessLine(At(b1, r), raw)
  <2> HIDE DEF b0, b1, raw, t, l, a, cy
  <2> DEFINE p == At(b0, r)
  <2>1. p.buffer = b0
    OBVIOUS
  <2>2. [p EXCEPT !.buffer = b1] = At(b1, r)
    OBVIOUS
  <2> HIDE DEF p
  <2>3. NextLine(p) = ProcessLine([p EXCEPT !.buffer = SubSeq(b0, l + 1, Len(b0))],
                                  SubSeq(b0, 1, l - 1))
    BY <1>4, <2>1, NextLineIs
  <2> QED BY <1>5, <1>6, <2>2, <2>3 DEF p
<1>a. Processed(f, k, r, b1, cy, found)
  <2> HIDE DEF b1, raw, found, cy
  <2>1. At(b1, r) = FieldsAt(f, k, r, b1, cy)
    BY DEF FieldsAt
  <2>2. Processed(f, k, r, b1, cy, ProcessLine(FieldsAt(f, k, r, b1, cy), raw))
    BY <1>1, <1>7, LineProcessed
  <2> QED BY <1>8, <2>1, <2>2
<1> HIDE DEF found, b1, cy
<1>9. Chars(f, c) - (t + l) = a - l /\ t + l <= Chars(f, c)
  BY <1>1, <1>2
<1>10. CASE w = 0
  <2>1. /\ found.found
        /\ found.parser = [buffer |-> b1, carry |-> cy, lines |-> <<>>, name |-> 0]
        /\ Len(found.event.data) = 1 /\ found.event.data[1] = <<"char", k + 1>>
    <3> QED BY <1>a, <1>10 DEF Processed
  <2>2. Taken(f, k + 1, 0) = t + l
    BY <1>0, <1>10 DEF LineNext
  <2>3. LinesAt(f, k + 1, 0) = <<>> /\ NameAt(f, k + 1, 0) = 0 /\ 0 \in LineStarts(f)
    BY DEF LinesAt, NameAt, TextLen, FrameLen, EndLen, LineStarts
  <2>4. ParserAt(f, k + 1, 0, c) = [buffer |-> b1, carry |-> cy, lines |-> <<>>, name |-> 0]
    BY <1>9, <2>2, <2>3 DEF ParserAt, b1, cy
  <2>5. Placed(f, n, k + 1, 0, c)
    BY <1>3, <1>9, <2>2, <2>3 DEF Placed
  <2>6. LineTaken(f, n, k, c, found)
    BY <1>3, <2>1, <2>4, <2>5 DEF LineTaken
  <2> QED BY <2>6 DEF found
<1>11. CASE w # 0
  <2> DEFINE q == r + l
  <2>1. found = Nothing(At(b1, q))
    <3> QED BY <1>a, <1>11 DEF Processed, FieldsAt
  <2>2. Taken(f, k, q) = t + l /\ q \in LineStarts(f)
    BY <1>0, <1>11 DEF LineNext
  <2>3. ParserAt(f, k, q, c) = At(b1, q)
    BY <1>9, <2>2 DEF ParserAt, b1, cy
  <2>4. Placed(f, n, k, q, c)
    BY <1>3, <1>9, <2>2 DEF Placed
  <2>5. ~found.found /\ found.parser = At(b1, q)
    BY <2>1 DEF Nothing
  <2> HIDE DEF q
  <2>6. LineTaken(f, n, k, c, found)
    BY <1>3, <2>2, <2>3, <2>4, <2>5 DEF LineTaken
  <2> QED BY <2>6 DEF found
<1> QED BY <1>10, <1>11

(* What the end of a stream may leave: pieces of frame k + 1. *)
Pieces(k) == {Data, Note, CR, Bad, <<"event", k + 1>>, <<"char", k + 1>>}
Piece(k, e) ==
    /\ e.name \in {0, k + 1}
    /\ Len(e.data) = 1 /\ e.data[1][1] = "char" => e.data[1][2] = k + 1

(* A piece of frame k + 1 tells of no other frame. *)
LEMMA PieceKinds ==
    ASSUME NEW k, NEW x \in Pieces(k)
    PROVE  (x[1] = "char" => x[2] = k + 1) /\ (x[1] = "event" => x[2] = k + 1)
BY DEF Pieces, Data, Note, CR, Bad

(* What a flush of pieces gives is a piece. *)
LEMMA FlushPiece ==
    ASSUME NEW k \in Nat, NEW p, p.name \in {0, k + 1},
           p.lines = <<>> \/ \E y \in Seq(Pieces(k)) : p.lines = <<y>>
    PROVE  Piece(k, Flush(p).event)
<1>1. CASE p.lines = <<>>
  <2>1. Flush(p).event.data = <<>> /\ Flush(p).event.name = p.name
    BY <1>1 DEF Flush
  <2>2. Len(Flush(p).event.data) = 0
    BY <2>1
  <2> QED BY <2>1, <2>2 DEF Piece
<1>2. ASSUME NEW y \in Seq(Pieces(k)), p.lines = <<y>>
      PROVE  Piece(k, Flush(p).event)
  <2>1. Flush(p).event.data = y /\ Flush(p).event.name = p.name
    BY <1>2, FlushLine, ZenonT(40)
  <2>2. Len(y) = 1 => y[1] \in Pieces(k)
    OBVIOUS
  <2>3. Len(y) = 1 /\ y[1][1] = "char" => y[1][2] = k + 1
    BY <2>2, PieceKinds
  <2> QED BY <2>1, <2>3 DEF Piece
<1> QED BY <1>1, <1>2

(* Stripping adds nothing. *)
LEMMA StripPiece ==
    ASSUME NEW S, NEW s \in Seq(S)
    PROVE  stripTrailingCR(s) \in Seq(S)
<1>1. CASE s # <<>> /\ Last(s) = CR
  <2>1. stripTrailingCR(s) = SubSeq(s, 1, Len(s) - 1)
    BY <1>1 DEF stripTrailingCR, Front
  <2>2. SubSeq(s, 1, Len(s) - 1) \in Seq(S)
    <3>1. Len(s) \in Nat /\ \A i \in 1 .. Len(s) - 1 : s[i] \in S
      OBVIOUS
    <3> QED BY <1>1, <3>1
  <2> QED BY <2>1, <2>2
<1>2. CASE ~(s # <<>> /\ Last(s) = CR)
  BY <1>2 DEF stripTrailingCR
<1> QED BY <1>1, <1>2

(* Neither does dropping the first. *)
LEMMA TailPiece ==
    ASSUME NEW S, NEW s \in Seq(S), s # <<>>
    PROVE  Tail(s) \in Seq(S) /\ s[1] \in S
OBVIOUS

(* processLine of what is left, and the event that leaves open. *)
LastPieces(k, p, raw) ==
    /\ Piece(k, ProcessLine(p, raw).event)
    /\ Piece(k, Flush(ProcessLine(p, raw).parser).event)

(* What is left in the buffer when the body ends, taken as a line. *)
LEMMA LastLine ==
    ASSUME NEW k \in Nat, NEW S, S \subseteq Pieces(k), NEW raw \in Seq(S), NEW cy,
           NEW na \in {0, k + 1}, NEW li,
           \/ li = <<>>
           \/ li = <<<<<<"char", k + 1>>>>>> /\ S \subseteq {CR, Bad}
    PROVE  LastPieces(k, [buffer |-> <<>>, carry |-> cy, lines |-> li, name |-> na], raw)
<1> USE DEF LastPieces
<1> DEFINE g == [buffer |-> <<>>, carry |-> cy, lines |-> li, name |-> na]
           line == ProcessLine(g, raw)
           s == stripTrailingCR(raw)
           char == <<"char", k + 1>>
           one == <<char>>
<1>0. one \in Seq(Pieces(k))
  BY DEF Pieces
<1>1. li = <<>> \/ \E y \in Seq(Pieces(k)) : li = <<y>>
  BY <1>0
<1>2. s \in Seq(S)
  BY StripPiece
<1> HIDE DEF s
<1>3. g.lines = li /\ g.name = na
  OBVIOUS
<1>4. Piece(k, Flush(g).event)
  <2> HIDE DEF g
  <2> QED BY <1>1, <1>3, FlushPiece
<1>n. Piece(k, NoEvent)
  BY DEF Piece, NoEvent
<1>5. CASE s = <<>>
  <2>1. line = Flush(g)
    BY <1>5 DEF ProcessLine, s
  <2>2. line.parser = [g EXCEPT !.lines = <<>>, !.name = 0]
    BY <2>1 DEF Flush
  <2>3. line.parser.lines = <<>> /\ line.parser.name = 0
    BY <2>2
  <2>4. Piece(k, Flush(line.parser).event)
    <3> HIDE DEF line
    <3> QED BY <2>3, FlushPiece
  <2> QED BY <1>4, <2>1, <2>4
<1>6. CASE s # <<>> /\ s[1][1] = "data"
  <2>1. s[1] \in S /\ Tail(s) \in Seq(S)
    BY <1>2, <1>6, TailPiece
  <2>2. li = <<>>
    BY <1>6, <2>1 DEF CR, Bad
  <2> DEFINE h == [g EXCEPT !.lines = Append(@, Tail(s))]
  <2>3. line = Nothing(h)
    BY <1>6 DEF ProcessLine, s
  <2>4. h.lines = Append(<<>>, Tail(s)) /\ h.name = na
    BY <2>2
  <2> HIDE DEF h
  <2> DEFINE y == Tail(s)
             P == Pieces(k)
  <2>7. y \in Seq(S) /\ S \subseteq P /\ h.lines = Append(<<>>, y)
    BY <2>1, <2>4
  <2> HIDE DEF y, P
  <2>8. y \in Seq(P)
    BY <2>7
  <2>9. h.lines = <<y>>
    BY <2>7, AppendOne
  <2>5. y \in Seq(Pieces(k)) /\ h.lines = <<y>>
    BY <2>8, <2>9 DEF P
  <2>6. Piece(k, Flush(h).event)
    BY <2>4, <2>5, FlushPiece
  <2> QED BY <1>n, <2>3, <2>6 DEF Nothing
<1>7. CASE s # <<>> /\ s[1][1] = "event"
  <2>1. s[1] \in Pieces(k)
    BY <1>2, <1>7, TailPiece
  <2>2. s[1][2] = k + 1
    BY <1>7, <2>1, PieceKinds
  <2> DEFINE h == [g EXCEPT !.name = k + 1]
  <2>3. line = Nothing(h)
    BY <1>7, <2>2 DEF ProcessLine, s
  <2>4. h.lines = li /\ h.name = k + 1
    OBVIOUS
  <2> HIDE DEF h
  <2>5. Piece(k, Flush(h).event)
    BY <1>1, <2>4, FlushPiece
  <2> QED BY <1>n, <2>3, <2>5 DEF Nothing
<1>8. CASE s # <<>> /\ s[1][1] \notin {"data", "event"}
  <2>1. line = Nothing(g)
    BY <1>8 DEF ProcessLine, s
  <2> QED BY <1>n, <1>4, <2>1 DEF Nothing
<1> QED BY <1>5, <1>6, <1>7, <1>8

(* The characters of a line that has not ended. *)
LEMMA RowPieces ==
    ASSUME NEW f \in Forms, NEW k \in Nat, NEW r \in LineStarts(f), NEW a \in Nat,
           a < LineLen(f, r)
    PROVE  Row(f, Taken(f, k, r), a)
             \in Seq(IF Width(f, r) = 0 THEN {CR, Bad} ELSE Pieces(k))
<1> DEFINE t == Taken(f, k, r)
           w == Width(f, r)
           l == LineLen(f, r)
           S == IF w = 0 THEN {CR, Bad} ELSE Pieces(k)
<1>1. LineFacts(f, k, r)
  BY LineIs
<1>2. /\ t \in Nat /\ w \in {0, 1, 2} /\ l = w + EndLen(f) /\ l \in Nat
      /\ f = "crlf" => CharAt(f, t + (w + 1)) = CR
      /\ w = 2 => CharAt(f, t + 1) = Data /\ CharAt(f, t + 2) = <<"char", k + 1>>
      /\ w = 1 => CharAt(f, t + 1) \in {Note, <<"event", k + 1>>}
  BY <1>1 DEF LineFacts
<1>3. CR \in S /\ (w # 0 => {Data, Note, <<"event", k + 1>>, <<"char", k + 1>>} \subseteq S)
  BY DEF Pieces
<1> HIDE DEF t, w, l, S
<1>4. \A j \in 1 .. a : CharAt(f, t + j) \in S
  <2> SUFFICES ASSUME NEW j \in 1 .. a PROVE CharAt(f, t + j) \in S
    OBVIOUS
  <2>1. j < l /\ j \in Nat /\ j >= 1
    BY <1>2 DEF l
  <2>2. CASE f = "crlf"
    <3>1. l = w + 2 /\ CharAt(f, t + (w + 1)) = CR
      BY <1>2, <2>2 DEF EndLen
    <3>2. j <= w + 1
      BY <1>2, <2>1, <3>1
    <3>3. CASE j = w + 1
      BY <1>3, <3>1, <3>3
    <3>4. CASE j # w + 1
      <4>1. (w = 2 /\ (j = 1 \/ j = 2)) \/ (w = 1 /\ j = 1)
        BY <1>2, <2>1, <3>2, <3>4
      <4> QED BY <1>2, <1>3, <4>1
    <3> QED BY <3>3, <3>4
  <2>3. CASE f # "crlf"
    <3>1. l = w + 1
      BY <1>2, <2>3 DEF EndLen
    <3>2. (w = 2 /\ (j = 1 \/ j = 2)) \/ (w = 1 /\ j = 1)
      BY <1>2, <2>1, <3>1
    <3> QED BY <1>2, <1>3, <3>2
  <2> QED BY <2>2, <2>3
<1>5. Row(f, t, a) \in Seq(S)
  BY <1>2, <1>4, RowIn
<1> QED BY <1>5 DEF t, w, S

(* The end of a stream: an event only where it is cut, made of pieces of    *)
(* the frame that is cut.                                                   *)
Remainder(f, n, k, c, found) ==
    /\ c = FrameLen(f) * n => ~found.found
    /\ found.found => k + 1 \in 1 .. n /\ Piece(k, found.event)

(* The parser's remainder when the body ends early: nothing, or an event with *)
(* no more than a piece of the next frame.                                  *)
LEMMA LastEventIs ==
    ASSUME NEW f, NEW n, NEW k, NEW r, NEW c, Placed(f, n, k, r, c),
           ~HasLine(ParserAt(f, k, r, c))
    PROVE  Remainder(f, n, k, c, LastEvent(ParserAt(f, k, r, c)))
<1> DEFINE t == Taken(f, k, r)
           l == LineLen(f, r)
           w == Width(f, r)
           a == Chars(f, c) - t
           S == IF w = 0 THEN {CR, Bad} ELSE Pieces(k)
           b == Row(f, t, a)
           cy == Carry(f, c)
           li == LinesAt(f, k, r)
           na == NameAt(f, k, r)
           P(x, y) == [buffer |-> x, carry |-> y, lines |-> li, name |-> na]
           p == P(b, cy)
           d == IF cy = NoByte THEN b ELSE Append(b, Bad)
           rest == P(d, NoByte)
           found == LastEvent(p)
<1>1. /\ f \in Forms /\ n \in Nat /\ k \in Nat /\ r \in LineStarts(f) /\ c \in Nat
      /\ t \in Nat /\ Chars(f, c) \in Nat /\ a \in Nat /\ l \in Nat \ {0}
      /\ k = n => c = FrameLen(f) * n /\ r = 0 /\ Chars(f, c) = t
      /\ k # n /\ c = FrameLen(f) * n => l <= a
  BY PlacedFacts
<1>2. a < l
  BY <1>1, HasLineIs
<1>3. ParserAt(f, k, r, c) = p
  BY DEF ParserAt
<1>4. b \in Seq(S) /\ S \subseteq Pieces(k) /\ Bad \in S
  <2>1. b \in Seq(S)
    BY <1>1, <1>2, RowPieces
  <2> QED BY <2>1 DEF Pieces
<1>5. na \in {0, k + 1} /\ (li = <<>> \/ (li = <<<<<<"char", k + 1>>>>>> /\ S \subseteq {CR, Bad}))
  <2>1. LineNext(f, k, r)
    BY <1>1, LineNexts
  <2>2. w = 0 => S \subseteq {CR, Bad}
    OBVIOUS
  <2> QED BY <2>1, <2>2 DEF LineNext, NameAt
<1>6. k = n => b = <<>> /\ cy = NoByte /\ li = <<>> /\ na = 0
  <2> SUFFICES ASSUME k = n PROVE b = <<>> /\ cy = NoByte /\ li = <<>> /\ na = 0
    OBVIOUS
  <2>1. c = FrameLen(f) * n /\ r = 0 /\ a = 0
    BY <1>1
  <2>2. b = <<>>
    BY <1>1, <2>1, RowNone
  <2>3. cy = NoByte
    <3>1. c \in 0 .. FrameLen(f) * n
      BY DEF Placed
    <3> QED BY <1>1, <2>1, <3>1, CharsBound
  <2>4. li = <<>> /\ na = 0
    BY <2>1 DEF LinesAt, NameAt, TextLen, FrameLen, EndLen
  <2> QED BY <2>2, <2>3, <2>4
<1> HIDE DEF b, cy, li, na, S
<1>7. DecodeRest(p) = rest
  <2> DEFINE q == [p EXCEPT !.buffer = d]
  <2>1. p.buffer = b /\ p.carry = cy
    OBVIOUS
  <2>2. q = P(d, cy)
    <3> HIDE DEF d
    <3> QED OBVIOUS
  <2>3. [q EXCEPT !.carry = NoByte] = rest
    <3>1. [P(d, cy) EXCEPT !.carry = NoByte] = P(d, NoByte)
      <4> HIDE DEF d
      <4> QED OBVIOUS
    <3> QED BY <2>2, <3>1
  <2>4. DecodeRest(p) = [p EXCEPT !.buffer = d, !.carry = NoByte]
    <3> HIDE DEF p
    <3> QED BY <2>1 DEF DecodeRest
  <2>5. [p EXCEPT !.buffer = d, !.carry = NoByte] = [q EXCEPT !.carry = NoByte]
    <3> HIDE DEF p, d
    <3> QED OBVIOUS
  <2> QED BY <2>3, <2>4, <2>5
<1>8. d \in Seq(S)
  BY <1>4
<1>9. rest.buffer = d /\ rest.lines = li /\ rest.name = na
  OBVIOUS
<1>10. k = n => d = <<>>
  BY <1>6
<1> DEFINE g == [rest EXCEPT !.buffer = <<>>]
           line == IF d = <<>> THEN Nothing(rest) ELSE ProcessLine(g, d)
<1>11. g = P(<<>>, NoByte)
  <2> HIDE DEF d
  <2> QED OBVIOUS
<1> HIDE DEF d, rest, p, g
<1>12. found = IF line.found THEN line ELSE Flush(line.parser)
  BY <1>7, <1>9 DEF LastEvent, g
<1>13. CASE d = <<>>
  <2>1. found = Flush(rest)
    BY <1>12, <1>13 DEF Nothing
  <2>2. li = <<>> \/ \E y \in Seq(Pieces(k)) : li = <<y>>
    <3>1. <<<<"char", k + 1>>>> \in Seq(Pieces(k))
      BY DEF Pieces
    <3> QED BY <1>5, <3>1
  <2>3. Piece(k, found.event)
    <3>1. rest.name \in {0, k + 1} /\ k \in Nat
      BY <1>1, <1>5, <1>9
    <3>2. rest.lines = <<>> \/ \E y \in Seq(Pieces(k)) : rest.lines = <<y>>
      BY <1>9, <2>2
    <3>3. Piece(k, Flush(rest).event)
      BY <3>1, <3>2, FlushPiece
    <3> QED BY <2>1, <3>3
  <2>a. Flush(rest).found = (rest.lines # <<>> \/ rest.name # 0)
    BY DEF Flush
  <2> HIDE DEF found
  <2>4. k = n => ~found.found
    <3>1. k = n => rest.lines = <<>> /\ rest.name = 0
      BY <1>6, <1>9
    <3>2. k = n => Flush(rest).found = FALSE
      BY <2>a, <3>1
    <3> QED BY <2>1, <3>2
  <2>5. found.found => k + 1 \in 1 .. n
    <3>1. k # n => k + 1 \in 1 .. n
      BY DEF Placed
    <3> QED BY <2>4, <3>1
  <2>6. Remainder(f, n, k, c, found)
    BY <1>1, <1>2, <2>3, <2>4, <2>5 DEF Remainder
  <2> QED BY <1>3, <2>6 DEF found
<1>14. CASE d # <<>>
  <2>1. k # n
    BY <1>10, <1>14
  <2>2. LastPieces(k, P(<<>>, NoByte), d)
    BY <1>1, <1>4, <1>5, <1>8, LastLine
  <2>3. Piece(k, ProcessLine(g, d).event) /\ Piece(k, Flush(ProcessLine(g, d).parser).event)
    BY <1>11, <2>2 DEF LastPieces
  <2>4. Piece(k, found.event)
    <3>1. line = ProcessLine(g, d)
      BY <1>14
    <3> QED BY <1>12, <2>3, <3>1
  <2> HIDE DEF found
  <2>5. c # FrameLen(f) * n
    BY <1>1, <1>2, <2>1
  <2>6. k + 1 \in 1 .. n
    BY <2>1 DEF Placed
  <2>7. Remainder(f, n, k, c, found)
    BY <2>4, <2>5, <2>6 DEF Remainder
  <2> QED BY <1>3, <2>7 DEF found
<1> QED BY <1>13, <1>14

-----------------------------------------------------------------------------
(* Chunks and events, as far as the accounts and the protocol tell them     *)
(* apart.                                                                   *)
IsChunk(c, kind, usage) == c.kind = kind /\ c.text \in Nat /\ c.usage = usage
Part == [tool : BOOLEAN, text : Nat, name : STRING, args : Seq(STRING)]
PartOK(p) == p.tool \in BOOLEAN /\ p.text \in Nat

(* The chunks an adapter can make. *)
LEMMA RoleChunk == IsChunk(makeRoleChunk, "role", NoUsage)
BY DEF IsChunk, makeRoleChunk, Chunk

LEMMA ContentChunk ==
    ASSUME NEW t \in Nat
    PROVE  IsChunk(makeContentChunk(t), "text", NoUsage)
BY DEF IsChunk, makeContentChunk, Chunk

LEMMA ToolChunk ==
    ASSUME NEW i, NEW n, NEW a
    PROVE  IsChunk(makeToolCallChunk(i, n, a), "tool", NoUsage)
<1> DEFINE t == [index |-> i, name |-> n, args |-> a]
           c == [Chunk("tool") EXCEPT !.tool = t]
<1>1. makeToolCallChunk(i, n, a) = c
  BY DEF makeToolCallChunk
<1> HIDE DEF t
<1>2. c.kind = "tool" /\ c.text = 0 /\ c.usage = NoUsage
  BY DEF Chunk
<1> QED BY <1>1, <1>2 DEF IsChunk

LEMMA FinishChunk ==
    ASSUME NEW r
    PROVE  IsChunk(makeFinishChunk(r), "finish", NoUsage)
BY DEF IsChunk, makeFinishChunk, Chunk

LEMMA UsageChunk ==
    ASSUME NEW u
    PROVE  IsChunk(makeUsageChunk(u), "usage", u)
BY DEF IsChunk, makeUsageChunk, Chunk

LEMMA LastChunk ==
    ASSUME NEW r, NEW u
    PROVE  IsChunk([makeFinishChunk(r) EXCEPT !.usage = u], "finish", u)
<1> DEFINE c == makeFinishChunk(r)
           d == [c EXCEPT !.usage = u]
<1>1. c = [kind |-> "finish", text |-> 0, tool |-> NoTool, finish |-> r, usage |-> NoUsage]
  BY DEF makeFinishChunk, Chunk
<1>2. d.kind = "finish" /\ d.text = 0 /\ d.usage = u
  <2> HIDE DEF c
  <2> QED BY <1>1
<1> QED BY <1>2 DEF IsChunk

-----------------------------------------------------------------------------
(* A flattened sequence holds nothing but what its parts hold. *)
LEMMA FlattenIn ==
    ASSUME NEW T, NEW m \in Nat, NEW s \in [1 .. m -> Seq(T)]
    PROVE  FlattenSeq(s) \in Seq(T)
<1>1. CASE m = 0
  <2>1. Len(s) = 0 /\ s = <<>>
    BY <1>1
  <2>2. FlattenSeq(s) = <<>>
    BY <2>1 DEF FlattenSeq
  <2> QED BY <2>2
<1>2. CASE m # 0
  <2>1. Summed(T, m, s)
    BY <1>2, FlattenSums
  <2>2. m \in 1 .. m
    BY <1>2
  <2> QED BY <2>1, <2>2 DEF Summed
<1> QED BY <1>1, <1>2

(* Events with two fields set. *)
Placing(t, i, ps) == [Ev(t) EXCEPT !.index = i, !.parts = ps]
Placing2(t, i, ps) == [Ev(t) EXCEPT !.parts = ps, !.index = i]
Costing(t, u, r) == [Ev(t) EXCEPT !.usage = u, !.reason = r]

(* A native event's fields. *)
LEMMA EvIs ==
    ASSUME NEW t
    PROVE  /\ Ev(t).type = t /\ Ev(t).parts = <<>> /\ Ev(t).usage = NoUsage
           /\ Ev(t).reason = NoReason /\ DOMAIN Ev(t) = {"type", "index", "parts", "reason", "usage", "chunk"}
BY DEF Ev

LEMMA PlacingIs ==
    ASSUME NEW t, NEW i, NEW ps
    PROVE  /\ Placing(t, i, ps).type = t /\ Placing(t, i, ps).parts = ps
           /\ Placing(t, i, ps).usage = NoUsage /\ Placing(t, i, ps).reason = NoReason
           /\ Placing2(t, i, ps).type = t /\ Placing2(t, i, ps).parts = ps
           /\ Placing2(t, i, ps).usage = NoUsage /\ Placing2(t, i, ps).reason = NoReason
<1> DEFINE e == Ev(t)
<1>1. /\ e.type = t /\ e.usage = NoUsage /\ e.reason = NoReason
      /\ DOMAIN e = {"type", "index", "parts", "reason", "usage", "chunk"}
  BY EvIs
<1> HIDE DEF e
<1> QED BY <1>1 DEF Placing, Placing2, e

LEMMA CostingIs ==
    ASSUME NEW t, NEW u, NEW r
    PROVE  /\ Costing(t, u, r).type = t /\ Costing(t, u, r).parts = <<>>
           /\ Costing(t, u, r).usage = u
<1> DEFINE e == Ev(t)
<1>1. /\ e.type = t /\ e.parts = <<>>
      /\ DOMAIN e = {"type", "index", "parts", "reason", "usage", "chunk"}
  BY EvIs
<1> HIDE DEF e
<1> QED BY <1>1 DEF Costing, e

(* A sequence made of three. *)
Layered(u, a, m, b) ==
    /\ IsSeq(u) /\ Len(a) \in Nat /\ Len(m) \in Nat /\ Len(b) \in Nat
    /\ Len(u) = Len(a) + Len(m) + Len(b) /\ Len(u) \in Nat /\ DOMAIN u = 1 .. Len(u)
    /\ \A i \in 1 .. Len(a) : u[i] = a[i]
    /\ \A i \in 1 .. Len(m) : u[Len(a) + i] = m[i]
    /\ \A i \in 1 .. Len(b) : u[Len(a) + Len(m) + i] = b[i]

(* A beginning, a middle and an end, place by place. *)
LEMMA Layers ==
    ASSUME NEW a, NEW m, NEW b, IsSeq(a), IsSeq(m), IsSeq(b)
    PROVE  Layered(a \o m \o b, a, m, b)
<1> DEFINE v == a \o m
           u == v \o b
<1>1. IsCat(v, a, m)
  BY Catenated
<1>2. /\ IsSeq(v) /\ Len(a) \in Nat /\ Len(m) \in Nat /\ Len(v) = Len(a) + Len(m)
      /\ \A i \in 1 .. Len(a) : v[i] = a[i]
      /\ \A i \in 1 .. Len(m) : v[Len(a) + i] = m[i]
  <2> HIDE DEF v
  <2> QED BY <1>1, CatParts
<1> HIDE DEF v
<1>3. IsCat(u, v, b)
  BY <1>2, Catenated
<1> HIDE DEF u
<1>4. /\ IsSeq(u) /\ DOMAIN u = 1 .. Len(u) /\ Len(v) \in Nat /\ Len(b) \in Nat
      /\ Len(u) = Len(v) + Len(b)
      /\ \A i \in 1 .. Len(v) : u[i] = v[i]
      /\ \A i \in 1 .. Len(b) : u[Len(v) + i] = b[i]
  BY <1>3, CatParts
<1>5. \A i \in 1 .. Len(a) : i \in 1 .. Len(v)
  BY <1>2
<1>6. \A i \in 1 .. Len(m) : Len(a) + i \in 1 .. Len(v)
  BY <1>2
<1>7. /\ \A i \in 1 .. Len(a) : u[i] = a[i]
      /\ \A i \in 1 .. Len(m) : u[Len(a) + i] = m[i]
  BY <1>2, <1>4, <1>5, <1>6
<1>8. Layered(u, a, m, b)
  BY <1>2, <1>4, <1>7 DEF Layered
<1> QED BY <1>8 DEF u, v

(* An answer's parts. *)
LEMMA PartsOK ==
    ASSUME NEW answer \in Answers
    PROVE  /\ answer.parts \in Seq(Part) /\ Len(answer.parts) \in Nat
           /\ DOMAIN answer.parts = 1 .. Len(answer.parts)
           /\ \A i \in DOMAIN answer.parts : answer.parts[i] \in Part
<1>1. answer.parts \in Seq(Part)
  BY ProviderCallAssumption DEF ProviderCallAssumption, Part
<1> QED BY <1>1

LEMMA PartFields ==
    ASSUME NEW p \in Part
    PROVE  PartOK(p) /\ p.args \in Seq(STRING) /\ Len(p.args) \in Nat
           /\ DOMAIN p.args = 1 .. Len(p.args)
           /\ \A i \in DOMAIN p.args : p.args[i] \in STRING
<1>1. p.args \in Seq(STRING) /\ p.tool \in BOOLEAN /\ p.text \in Nat
  BY DEF Part
<1> QED BY <1>1 DEF PartOK

(* Parts, and pieces of the tool calls among them. *)
Bits == Part \cup {ToolCall(n, a) : n \in STRING \cup {"none"}, a \in Seq(STRING)}

(* A piece of a part, as an event carries it. *)
LEMMA ToolBit ==
    ASSUME NEW n \in STRING \cup {"none"}, NEW a \in Seq(STRING)
    PROVE  ToolCall(n, a) \in Bits
BY DEF Bits

LEMMA BitsOK ==
    ASSUME NEW p \in Bits
    PROVE  PartOK(p)
<1>1. CASE p \in Part
  BY <1>1, PartFields
<1>2. CASE p \in {ToolCall(n, a) : n \in STRING \cup {"none"}, a \in Seq(STRING)}
  <2>1. PICK n, a : p = ToolCall(n, a)
    BY <1>2
  <2>2. p.tool = TRUE /\ p.text = 0
    BY <2>1 DEF ToolCall
  <2>3. p.tool \in BOOLEAN
    BY <2>2, Zenon
  <2>4. p.text \in Nat
    BY <2>2
  <2> QED BY <2>3, <2>4 DEF PartOK
<1> QED BY <1>1, <1>2 DEF Bits

(* What an event says of a cost: the cost, or nothing of one that counts as zero. *)
Tells(said, usage) == said = usage \/ (said = NoUsage /\ usage = Zero)

(* A usage read from an answer is told by the answer's own. *)
LEMMA TellsRead ==
    ASSUME NEW usage
    PROVE  Tells(usage, readUsage(usage))
BY DEF Tells, readUsage

(* So is the part of it that the prompt cost. *)
LEMMA TellsPrompt ==
    ASSUME NEW usage
    PROVE  Tells(IF usage = NoUsage THEN NoUsage ELSE [in |-> usage.in, out |-> 0],
                 [in |-> readUsage(usage).in, out |-> 0])
<1>1. CASE usage = NoUsage
  <2>1. readUsage(usage) = Zero
    BY <1>1 DEF readUsage
  <2>2. [in |-> readUsage(usage).in, out |-> 0] = Zero
    BY <2>1 DEF Zero
  <2> QED BY <1>1, <2>2 DEF Tells
<1>2. CASE usage # NoUsage
  BY <1>2 DEF Tells, readUsage
<1> QED BY <1>1, <1>2

-----------------------------------------------------------------------------
(* What an Anthropic stream looks like. *)
IsBlock(e) == e.type \in {"content_block_start", "content_block_delta"}
              /\ \E p \in Bits : e.parts = <<p>>
BlockEvents == {e \in {Placing(t, i, <<p>>) : t \in {"content_block_start", "content_block_delta"},
                                              i \in Int, p \in Bits} : IsBlock(e)}

(* A block event of one piece. *)
LEMMA BlockIs ==
    ASSUME NEW t \in {"content_block_start", "content_block_delta"}, NEW i \in Int, NEW p \in Bits
    PROVE  Placing(t, i, <<p>>) \in BlockEvents
<1>1. IsBlock(Placing(t, i, <<p>>))
  BY PlacingIs DEF IsBlock
<1> QED BY <1>1 DEF BlockEvents

AnthropicIs(s, usage) ==
    /\ IsSeq(s) /\ Len(s) \in Nat /\ Len(s) >= 4
    /\ s[1].type = "message_start" /\ Tells(s[1].usage, [in |-> usage.in, out |-> 0])
    /\ s[2] = Ev("ping")
    /\ \A i \in 3 .. Len(s) - 2 : s[i] \in BlockEvents
    /\ s[Len(s) - 1].type = "message_delta" /\ Tells(s[Len(s) - 1].usage, usage)
    /\ s[Len(s)] = Ev("message_stop")

(* message_start with the input's usage, a ping, the blocks, message_delta with *)
(* the usage, message_stop.                                                 *)
LEMMA AnthropicShape ==
    ASSUME NEW answer \in Answers
    PROVE  AnthropicIs(AnthropicScript(answer), readUsage(answer.usage))
<1> DEFINE parts == answer.parts
           start(i) == [Ev("content_block_start") EXCEPT !.index = i - 1, !.parts = <<parts[i]>>]
           delta(i, piece) == [Ev("content_block_delta") EXCEPT !.index = i - 1,
                                                                !.parts = <<piece>>]
           tail(i) == IF parts[i].tool
                      THEN [k \in DOMAIN parts[i].args |->
                              delta(i, ToolCall("none", <<parts[i].args[k]>>))]
                      ELSE <<delta(i, parts[i])>>
           block(i) == <<start(i)>> \o tail(i)
           blocks == [i \in DOMAIN parts |-> block(i)]
           prompt == IF answer.usage = NoUsage THEN NoUsage
                     ELSE [in |-> answer.usage.in, out |-> 0]
           first == [Ev("message_start") EXCEPT !.usage = prompt]
           cost == Costing("message_delta", answer.usage, NativeReason("anthropic", answer.reason))
           a == <<first, Ev("ping")>>
           m == FlattenSeq(blocks)
           b == <<cost, Ev("message_stop")>>
           u == a \o m \o b
<1>1. AnthropicScript(answer) = u
  BY DEF AnthropicScript, Costing
<1>0. /\ parts \in Seq(Part) /\ Len(parts) \in Nat /\ DOMAIN parts = 1 .. Len(parts)
      /\ \A i \in DOMAIN parts : parts[i] \in Part
  BY PartsOK
<1> HIDE DEF parts
<1>2. \A i \in DOMAIN parts : block(i) \in Seq(BlockEvents)
  <2> SUFFICES ASSUME NEW i \in DOMAIN parts PROVE block(i) \in Seq(BlockEvents)
    OBVIOUS
  <2> DEFINE p == parts[i]
  <2>0. p \in Part /\ p \in Bits /\ i - 1 \in Int
    BY <1>0 DEF Bits
  <2> HIDE DEF p
  <2>1. start(i) \in BlockEvents
    <3>1. start(i) = Placing("content_block_start", i - 1, <<p>>)
      BY DEF Placing, p
    <3> QED BY <2>0, <3>1, BlockIs
  <2>2. \A q \in Bits : delta(i, q) \in BlockEvents
    <3> SUFFICES ASSUME NEW q \in Bits PROVE delta(i, q) \in BlockEvents
      OBVIOUS
    <3>1. delta(i, q) = Placing("content_block_delta", i - 1, <<q>>)
      BY DEF Placing
    <3> QED BY <2>0, <3>1, BlockIs
  <2> HIDE DEF start, delta
  <2>3. tail(i) \in Seq(BlockEvents)
    <3>1. CASE p.tool
      <4>1. p.args \in Seq(STRING) /\ \A k \in DOMAIN p.args : p.args[k] \in STRING
        BY <2>0, PartFields
      <4>2. \A k \in DOMAIN p.args : delta(i, ToolCall("none", <<p.args[k]>>)) \in BlockEvents
        <5> SUFFICES ASSUME NEW k \in DOMAIN p.args
                     PROVE  delta(i, ToolCall("none", <<p.args[k]>>)) \in BlockEvents
          OBVIOUS
        <5> DEFINE x == p.args[k]
        <5>0. x \in STRING
          BY <4>1
        <5> HIDE DEF x
        <5>a. <<x>> \in Seq(STRING)
          BY <5>0
        <5>1. <<p.args[k]>> \in Seq(STRING)
          BY <5>a DEF x
        <5>2. ToolCall("none", <<p.args[k]>>) \in Bits
          BY <5>1, ToolBit
        <5> QED BY <2>2, <5>2
      <4>3. tail(i) = [k \in DOMAIN p.args |-> delta(i, ToolCall("none", <<p.args[k]>>))]
        BY <3>1 DEF p
      <4>4. Len(p.args) \in Nat /\ DOMAIN p.args = 1 .. Len(p.args)
        BY <4>1
      <4>5. tail(i) \in [1 .. Len(p.args) -> BlockEvents]
        BY <4>2, <4>3, <4>4
      <4> HIDE DEF tail
      <4> QED BY <4>4, <4>5
    <3>2. CASE ~p.tool
      <4>1. tail(i) = <<delta(i, p)>>
        BY <3>2 DEF p
      <4>2. delta(i, p) \in BlockEvents
        BY <2>0, <2>2
      <4> HIDE DEF tail
      <4> QED BY <4>1, <4>2
    <3> QED BY <3>1, <3>2
  <2> HIDE DEF tail
  <2>4. <<start(i)>> \in Seq(BlockEvents)
    BY <2>1
  <2> QED BY <2>3, <2>4
<1>3. m \in Seq(BlockEvents)
  <2>1. blocks \in [1 .. Len(parts) -> Seq(BlockEvents)]
    BY <1>0, <1>2
  <2> HIDE DEF blocks
  <2> QED BY <1>0, <2>1, FlattenIn
<1>4. first.type = "message_start" /\ Tells(first.usage, [in |-> readUsage(answer.usage).in, out |-> 0])
  <2> DEFINE e == Ev("message_start")
             x == prompt
  <2>1. e.type = "message_start" /\ DOMAIN e = {"type", "index", "parts", "reason", "usage", "chunk"}
    BY EvIs
  <2>2. [e EXCEPT !.usage = x].type = "message_start" /\ [e EXCEPT !.usage = x].usage = x
    <3> HIDE DEF e, x
    <3> QED BY <2>1
  <2>3. Tells(prompt, [in |-> readUsage(answer.usage).in, out |-> 0])
    BY TellsPrompt
  <2>4. first.type = "message_start" /\ first.usage = prompt
    BY <2>2
  <2> HIDE DEF first, prompt
  <2> QED BY <2>3, <2>4
<1>5. cost.type = "message_delta" /\ Tells(cost.usage, readUsage(answer.usage))
  <2>1. cost.type = "message_delta" /\ cost.usage = answer.usage
    BY CostingIs
  <2> HIDE DEF cost
  <2> QED BY <2>1, TellsRead
<1> HIDE DEF m, first, cost, prompt
<1>6. IsSeq(a) /\ Len(a) = 2 /\ a[1] = first /\ a[2] = Ev("ping")
  BY TuplesAreSeqs
<1>7. IsSeq(b) /\ Len(b) = 2 /\ b[1] = cost /\ b[2] = Ev("message_stop")
  BY TuplesAreSeqs
<1>8. IsSeq(m) /\ Len(m) \in Nat /\ \A i \in 1 .. Len(m) : m[i] \in BlockEvents
  BY <1>3, SeqIs
<1> HIDE DEF a, b
<1>9. Layered(u, a, m, b)
  BY <1>6, <1>7, <1>8, Layers
<1> HIDE DEF u
<1>10. /\ IsSeq(u) /\ Len(u) \in Nat /\ Len(u) = 2 + Len(m) + 2
       /\ \A i \in 1 .. 2 : u[i] = a[i]
       /\ \A i \in 1 .. Len(m) : u[2 + i] = m[i]
       /\ \A i \in 1 .. 2 : u[2 + Len(m) + i] = b[i]
  BY <1>6, <1>7, <1>9 DEF Layered
<1>11. /\ Len(u) >= 4 /\ Len(u) - 1 = 2 + Len(m) + 1 /\ Len(u) = 2 + Len(m) + 2
       /\ \A i \in 3 .. Len(u) - 2 : i - 2 \in 1 .. Len(m) /\ i = 2 + (i - 2)
  BY <1>8, <1>10
<1>12. \A i \in 3 .. Len(u) - 2 : u[i] \in BlockEvents
  BY <1>8, <1>10, <1>11
<1>13. u[1] = first /\ u[2] = Ev("ping")
  BY <1>6, <1>10
<1>14. u[2 + Len(m) + 1] = cost /\ u[2 + Len(m) + 2] = Ev("message_stop")
  <2>1. 1 \in 1 .. 2 /\ 2 \in 1 .. 2
    OBVIOUS
  <2> QED BY <1>7, <1>10, <2>1
<1>15. u[Len(u) - 1] = cost /\ u[Len(u)] = Ev("message_stop")
  BY <1>11, <1>14
<1> QED BY <1>1, <1>4, <1>5, <1>10, <1>11, <1>12, <1>13, <1>15 DEF AnthropicIs

(* What a Gemini stream looks like. *)
Carrying(t, ps) == [Ev(t) EXCEPT !.parts = ps]
FrameEvents == {Carrying("frame", <<p>>) : p \in Bits}

(* A frame's fields. *)
LEMMA CarryingIs ==
    ASSUME NEW t, NEW ps
    PROVE  /\ Carrying(t, ps).type = t /\ Carrying(t, ps).parts = ps
           /\ Carrying(t, ps).usage = NoUsage /\ Carrying(t, ps).reason = NoReason
BY DEF Carrying, Ev

GeminiIs(s, usage) ==
    /\ IsSeq(s) /\ Len(s) \in Nat /\ Len(s) >= 1
    /\ \A i \in 1 .. Len(s) - 1 : s[i] \in FrameEvents
    /\ s[Len(s)].type = "frame" /\ s[Len(s)].parts = <<>> /\ Tells(s[Len(s)].usage, usage)

(* Frames of one piece, and a last one with the usage and no parts. *)
LEMMA GeminiShape ==
    ASSUME NEW answer \in Answers
    PROVE  GeminiIs(GeminiScript(answer), readUsage(answer.usage))
<1> DEFINE parts == answer.parts
           a == [i \in DOMAIN parts |-> [Ev("frame") EXCEPT !.parts = <<parts[i]>>]]
           cost == Costing("frame", answer.usage, NativeReason("gemini", answer.reason))
           b == <<cost>>
           u == a \o b
<1>1. GeminiScript(answer) = u
  BY DEF GeminiScript, Costing
<1>0. /\ Len(parts) \in Nat /\ DOMAIN parts = 1 .. Len(parts)
      /\ \A i \in DOMAIN parts : parts[i] \in Part
  BY PartsOK
<1> HIDE DEF parts
<1>2. a = [i \in DOMAIN parts |-> Carrying("frame", <<parts[i]>>)]
  BY DEF Carrying
<1> HIDE DEF a
<1>3. a \in [1 .. Len(parts) -> FrameEvents]
  <2>1. \A i \in DOMAIN parts : Carrying("frame", <<parts[i]>>) \in FrameEvents
    BY <1>0 DEF FrameEvents, Bits
  <2> QED BY <1>0, <1>2, <2>1
<1>4. a \in Seq(FrameEvents)
  BY <1>0, <1>3
<1>5. IsSeq(a) /\ Len(a) \in Nat /\ \A i \in 1 .. Len(a) : a[i] \in FrameEvents
  BY <1>4, SeqIs
<1>6. cost.type = "frame" /\ cost.parts = <<>> /\ Tells(cost.usage, readUsage(answer.usage))
  <2>1. cost.type = "frame" /\ cost.parts = <<>> /\ cost.usage = answer.usage
    BY CostingIs
  <2> HIDE DEF cost
  <2> QED BY <2>1, TellsRead
<1> HIDE DEF cost
<1>7. IsSeq(b) /\ Len(b) = 1 /\ b[1] = cost
  BY TuplesAreSeqs
<1> HIDE DEF b
<1>8. IsCat(u, a, b)
  BY <1>5, <1>7, Catenated
<1> HIDE DEF u
<1>9. /\ IsSeq(u) /\ Len(u) = Len(a) + 1
      /\ \A i \in 1 .. Len(a) : u[i] = a[i]
      /\ \A i \in 1 .. 1 : u[Len(a) + i] = b[i]
  <2>1. /\ IsSeq(u) /\ Len(u) = Len(a) + Len(b)
        /\ \A i \in 1 .. Len(a) : u[i] = a[i]
        /\ \A i \in 1 .. Len(b) : u[Len(a) + i] = b[i]
    BY <1>8, CatParts
  <2> QED BY <1>7, <2>1
<1>10. Len(u) \in Nat /\ Len(u) >= 1 /\ Len(u) - 1 = Len(a)
  BY <1>5, <1>9
<1>11. u[Len(u)] = cost
  <2>1. 1 \in 1 .. 1
    OBVIOUS
  <2> QED BY <1>7, <1>9, <2>1
<1>12. \A i \in 1 .. Len(u) - 1 : u[i] \in FrameEvents
  BY <1>5, <1>9, <1>10
<1> QED BY <1>1, <1>6, <1>9, <1>10, <1>11, <1>12 DEF GeminiIs

-----------------------------------------------------------------------------
(* What a Cohere stream looks like. *)
Typed == {"content-delta", "tool-call-start", "tool-call-delta"}
IsTyped(e) == e.type \in Typed /\ (\E p \in Bits : e.parts = <<p>>) /\ e.usage = NoUsage
TypedEvents(parts) ==
    {e \in {Placing2(t, i - 1, <<p>>) :
                t \in Typed, i \in DOMAIN parts, p \in Bits} : IsTyped(e)}

(* A typed event of one piece. *)
LEMMA TypedIs ==
    ASSUME NEW parts, NEW t \in Typed, NEW i \in DOMAIN parts, NEW p \in Bits
    PROVE  Placing2(t, i - 1, <<p>>) \in TypedEvents(parts)
<1>1. IsTyped(Placing2(t, i - 1, <<p>>))
  BY PlacingIs DEF IsTyped
<1> QED BY <1>1 DEF TypedEvents

CohereIs(s, parts, usage) ==
    /\ IsSeq(s) /\ Len(s) \in Nat /\ Len(s) >= 2
    /\ s[1] = Ev("message-start")
    /\ \A i \in 2 .. Len(s) - 1 : s[i] \in TypedEvents(parts)
    /\ s[Len(s)].type = "message-end" /\ s[Len(s)].parts = <<>> /\ Tells(s[Len(s)].usage, usage)

(* message-start, the typed events, message-end with the usage. *)
LEMMA CohereShape ==
    ASSUME NEW answer \in Answers
    PROVE  CohereIs(CohereScript(answer), answer.parts, readUsage(answer.usage))
<1> DEFINE parts == answer.parts
           E == TypedEvents(parts)
           typed(i, type, piece) == [Ev(type) EXCEPT !.parts = <<piece>>,
                                                        !.index = i - 1]
           tail(i) == [k \in DOMAIN parts[i].args |->
                            typed(i, "tool-call-delta", ToolCall("none", <<parts[i].args[k]>>))]
           start(i) == typed(i, "tool-call-start", ToolCall(parts[i].name, <<>>))
           block(i) == IF parts[i].tool
                       THEN <<start(i)>> \o tail(i)
                       ELSE <<typed(i, "content-delta", parts[i])>>
           blocks == [i \in DOMAIN parts |-> block(i)]
           cost == Costing("message-end", answer.usage, NativeReason("cohere", answer.reason))
           a == <<Ev("message-start")>>
           m == FlattenSeq(blocks)
           b == <<cost>>
           u == a \o m \o b
<1>1. CohereScript(answer) = u
  BY DEF CohereScript, Costing
<1>0. /\ parts \in Seq(Part) /\ Len(parts) \in Nat /\ DOMAIN parts = 1 .. Len(parts)
      /\ \A i \in DOMAIN parts : parts[i] \in Part
  BY PartsOK
<1> HIDE DEF parts
<1>2. \A i \in DOMAIN parts : block(i) \in Seq(E)
  <2> SUFFICES ASSUME NEW i \in DOMAIN parts PROVE block(i) \in Seq(E)
    OBVIOUS
  <2> DEFINE p == parts[i]
  <2>0. p \in Part /\ p \in Bits
    BY <1>0 DEF Bits
  <2> HIDE DEF p
  <2>2. \A t \in {"content-delta", "tool-call-start", "tool-call-delta"} :
           \A q \in Bits : typed(i, t, q) \in E
    <3> SUFFICES ASSUME NEW t \in {"content-delta", "tool-call-start", "tool-call-delta"},
                        NEW q \in Bits
                 PROVE  typed(i, t, q) \in E
      OBVIOUS
    <3>1. typed(i, t, q) = Placing2(t, i - 1, <<q>>)
      BY DEF Placing2
    <3> QED BY <3>1, TypedIs DEF Typed
  <2> HIDE DEF typed, E
  <2>3. p.args \in Seq(STRING) /\ (\A k \in DOMAIN p.args : p.args[k] \in STRING) /\ p.name \in STRING
    <3>1. p.name \in STRING
      BY <2>0 DEF Part
    <3> QED BY <2>0, <3>1, PartFields
  <2>4. start(i) \in E
    <3>1. <<>> \in Seq(STRING)
      OBVIOUS
    <3>2. ToolCall(p.name, <<>>) \in Bits
      BY <2>3, <3>1, ToolBit
    <3> QED BY <2>2, <3>2 DEF p
  <2>5. tail(i) \in Seq(E)
    <3>1. \A k \in DOMAIN p.args : typed(i, "tool-call-delta", ToolCall("none", <<p.args[k]>>)) \in E
      <4> SUFFICES ASSUME NEW k \in DOMAIN p.args
                   PROVE  typed(i, "tool-call-delta", ToolCall("none", <<p.args[k]>>)) \in E
        OBVIOUS
      <4> DEFINE x == p.args[k]
      <4>0. x \in STRING
        BY <2>3
      <4> HIDE DEF x
      <4>1. <<x>> \in Seq(STRING)
        BY <4>0
      <4>2. ToolCall("none", <<x>>) \in Bits
        BY <4>1, ToolBit
      <4> QED BY <2>2, <4>2 DEF x
    <3>2. tail(i) = [k \in DOMAIN p.args |->
                        typed(i, "tool-call-delta", ToolCall("none", <<p.args[k]>>))]
      BY DEF p
    <3>3. Len(p.args) \in Nat /\ DOMAIN p.args = 1 .. Len(p.args)
      BY <2>3
    <3>4. tail(i) \in [1 .. Len(p.args) -> E]
      BY <3>1, <3>2, <3>3
    <3> HIDE DEF tail
    <3> QED BY <3>3, <3>4
  <2>6. typed(i, "content-delta", p) \in E
    BY <2>0, <2>2
  <2> HIDE DEF tail, start
  <2>7. CASE p.tool
    <3>1. block(i) = <<start(i)>> \o tail(i)
      BY <2>7 DEF p
    <3>2. <<start(i)>> \in Seq(E)
      BY <2>4
    <3> HIDE DEF block
    <3> QED BY <2>5, <3>1, <3>2
  <2>8. CASE ~p.tool
    <3>1. block(i) = <<typed(i, "content-delta", p)>>
      BY <2>8 DEF p
    <3> HIDE DEF block
    <3> QED BY <2>6, <3>1
  <2> QED BY <2>7, <2>8
<1> HIDE DEF E
<1>3. m \in Seq(E)
  <2>1. blocks \in [1 .. Len(parts) -> Seq(E)]
    BY <1>0, <1>2
  <2> HIDE DEF blocks
  <2> QED BY <1>0, <2>1, FlattenIn
<1>5. cost.type = "message-end" /\ Tells(cost.usage, readUsage(answer.usage)) /\ cost.parts = <<>>
  <2>1. cost.type = "message-end" /\ cost.usage = answer.usage /\ cost.parts = <<>>
    BY CostingIs
  <2> HIDE DEF cost
  <2> QED BY <2>1, TellsRead
<1> HIDE DEF m, cost
<1>6. IsSeq(a) /\ Len(a) = 1 /\ a[1] = Ev("message-start")
  BY TuplesAreSeqs
<1>7. IsSeq(b) /\ Len(b) = 1 /\ b[1] = cost
  BY TuplesAreSeqs
<1>8. IsSeq(m) /\ Len(m) \in Nat /\ \A i \in 1 .. Len(m) : m[i] \in E
  BY <1>3, SeqIs
<1> HIDE DEF a, b
<1>9. Layered(u, a, m, b)
  BY <1>6, <1>7, <1>8, Layers
<1> HIDE DEF u
<1>10. /\ IsSeq(u) /\ Len(u) \in Nat /\ Len(u) = 1 + Len(m) + 1
       /\ \A i \in 1 .. 1 : u[i] = a[i]
       /\ \A i \in 1 .. Len(m) : u[1 + i] = m[i]
       /\ \A i \in 1 .. 1 : u[1 + Len(m) + i] = b[i]
  BY <1>6, <1>7, <1>9 DEF Layered
<1>11. /\ Len(u) >= 2
       /\ \A i \in 2 .. Len(u) - 1 : i - 1 \in 1 .. Len(m) /\ i = 1 + (i - 1)
  BY <1>8, <1>10
<1>12. \A i \in 2 .. Len(u) - 1 : u[i] \in E
  BY <1>8, <1>10, <1>11
<1>13. u[1] = Ev("message-start") /\ u[Len(u)] = cost
  <2>1. 1 \in 1 .. 1
    OBVIOUS
  <2> QED BY <1>6, <1>7, <1>10, <2>1
<1> QED BY <1>1, <1>5, <1>10, <1>11, <1>12, <1>13 DEF CohereIs, E, parts

(* What an OpenAI or Mistral stream looks like: an OpenAI stream without a   *)
(* usage has the form of a Mistral one.                                     *)
ShapeOf(adapter, usage) == IF adapter = "openai" /\ usage = NoUsage THEN "mistral" ELSE adapter

IsDelta(c) == IsChunk(c, "text", NoUsage) \/ IsChunk(c, "tool", NoUsage)

ChunksAre(adapter, s, usage) ==
    /\ IsSeq(s) /\ Len(s) \in Nat /\ DOMAIN s = 1 .. Len(s)
    /\ IsChunk(s[1], "role", NoUsage)
    /\ adapter = "mistral" =>
          /\ Len(s) >= 2 /\ IsChunk(s[Len(s)], "finish", usage)
          /\ \A i \in 2 .. Len(s) - 1 : IsDelta(s[i])
    /\ adapter # "mistral" =>
          /\ Len(s) >= 3
          /\ IsChunk(s[Len(s) - 1], "finish", NoUsage) /\ IsChunk(s[Len(s)], "usage", usage)
          /\ \A i \in 2 .. Len(s) - 2 : IsDelta(s[i])

OpenAIIs(adapter, s, usage) ==
    \E all : /\ ChunksAre(adapter, all, usage)
             /\ IsSeq(s) /\ Len(s) = Len(all) + 1
             /\ \A i \in 1 .. Len(all) : s[i].type = "chunk" /\ s[i].chunk = all[i]
             /\ s[Len(s)] = Ev("DONE")

(* Chunks in order, the usage, if any, in the one before [DONE]. *)
LEMMA OpenAIShape ==
    ASSUME NEW adapter \in {"openai", "mistral"}, NEW answer \in Answers
    PROVE  OpenAIIs(ShapeOf(adapter, answer.usage), OpenAIScript(adapter, answer), answer.usage)
<1> DEFINE S == ShapeOf(adapter, answer.usage)
           parts == answer.parts
           call(i) == makeToolCallChunk(ToolsBefore(parts, i), parts[i].name, parts[i].args)
           say(i) == makeContentChunk(parts[i].text)
           one(i) == IF parts[i].tool THEN <<call(i)>> ELSE <<say(i)>>
           T == {c \in {call(i) : i \in DOMAIN parts} \cup {say(i) : i \in DOMAIN parts} :
                    IsDelta(c)}
           blocks == [i \in DOMAIN parts |-> one(i)]
           fin == makeFinishChunk(answer.reason)
           both == [fin EXCEPT !.usage = answer.usage]
           cost == makeUsageChunk(answer.usage)
           a == <<makeRoleChunk>>
           m == FlattenSeq(blocks)
           rest == IF answer.usage = NoUsage THEN <<>> ELSE <<cost>>
           b == IF adapter = "mistral" THEN <<both>> ELSE <<fin>> \o rest
           all == a \o m \o b
           events == [i \in DOMAIN all |-> [Ev("chunk") EXCEPT !.chunk = all[i]]]
           d == <<Ev("DONE")>>
           u == events \o d
<1>1. OpenAIScript(adapter, answer) = u
  BY DEF OpenAIScript
<1>0. /\ parts \in Seq(Part) /\ Len(parts) \in Nat /\ DOMAIN parts = 1 .. Len(parts)
      /\ \A i \in DOMAIN parts : parts[i] \in Part
  BY PartsOK
<1> HIDE DEF parts
<1>2. \A i \in DOMAIN parts : one(i) \in Seq(T)
  <2> SUFFICES ASSUME NEW i \in DOMAIN parts PROVE one(i) \in Seq(T)
    OBVIOUS
  <2>1. IsDelta(call(i))
    BY ToolChunk DEF IsDelta
  <2>2. IsDelta(say(i))
    <3>1. parts[i].text \in Nat
      BY <1>0 DEF Part
    <3> QED BY <3>1, ContentChunk DEF IsDelta
  <2> HIDE DEF call, say
  <2>3. call(i) \in T /\ say(i) \in T
    BY <2>1, <2>2
  <2> HIDE DEF T
  <2> QED BY <2>3
<1>3. m \in Seq(T)
  <2> HIDE DEF T, one
  <2>1. blocks \in [1 .. Len(parts) -> Seq(T)]
    BY <1>0, <1>2
  <2> HIDE DEF blocks
  <2> QED BY <1>0, <2>1, FlattenIn
<1>4. \A c \in T : IsDelta(c)
  OBVIOUS
<1> HIDE DEF T
<1>5. IsSeq(m) /\ Len(m) \in Nat /\ \A i \in 1 .. Len(m) : IsDelta(m[i])
  BY <1>3, <1>4, SeqIs
<1>6. /\ IsChunk(both, "finish", answer.usage) /\ IsChunk(fin, "finish", NoUsage)
      /\ IsChunk(cost, "usage", answer.usage)
  BY LastChunk, FinishChunk, UsageChunk
<1> HIDE DEF m, fin, both, cost
<1>7. IsSeq(a) /\ Len(a) = 1 /\ IsChunk(a[1], "role", NoUsage)
  BY TuplesAreSeqs, RoleChunk
<1>8. /\ IsSeq(b)
      /\ S = "mistral" => Len(b) = 1 /\ IsChunk(b[1], "finish", answer.usage)
      /\ S # "mistral" => Len(b) = 2 /\ b[1] = fin /\ b[2] = cost
  <2>1. CASE adapter = "mistral"
    <3>1. b = <<both>> /\ S = "mistral"
      BY <2>1 DEF ShapeOf
    <3> HIDE DEF b
    <3> QED BY <1>6, <3>1, TuplesAreSeqs
  <2>2. CASE adapter # "mistral" /\ answer.usage = NoUsage
    <3>1. b = <<fin>> \o <<>> /\ S = "mistral"
      BY <2>2 DEF ShapeOf
    <3>2. IsSeq(<<fin>>) /\ Len(<<fin>>) = 1 /\ <<fin>>[1] = fin /\ IsSeq(<<>>) /\ Len(<<>>) = 0
      BY TuplesAreSeqs
    <3> HIDE DEF b
    <3>3. IsCat(b, <<fin>>, <<>>)
      BY <3>1, <3>2, Catenated
    <3>4. IsSeq(b) /\ Len(b) = 1 /\ b[1] = fin
      BY <3>2, <3>3, CatParts
    <3> QED BY <1>6, <2>2, <3>1, <3>4
  <2>3. CASE adapter # "mistral" /\ answer.usage # NoUsage
    <3>1. b = <<fin>> \o <<cost>> /\ S # "mistral"
      BY <2>3 DEF ShapeOf
    <3>2. /\ IsSeq(<<fin>>) /\ Len(<<fin>>) = 1 /\ <<fin>>[1] = fin
          /\ IsSeq(<<cost>>) /\ Len(<<cost>>) = 1 /\ <<cost>>[1] = cost
      BY TuplesAreSeqs
    <3> HIDE DEF b
    <3> DEFINE v == <<fin>>
               w == <<cost>>
    <3>3. IsCat(b, v, w)
      BY <3>1, <3>2, Catenated
    <3>5. Len(v) = 1 /\ v[1] = fin /\ Len(w) = 1 /\ w[1] = cost
      BY <3>2
    <3> HIDE DEF v, w
    <3>4. /\ IsSeq(b) /\ Len(b) = Len(v) + Len(w)
          /\ \A i \in 1 .. Len(v) : b[i] = v[i]
          /\ \A i \in 1 .. Len(w) : b[Len(v) + i] = w[i]
      BY <3>3, CatParts
    <3>6. Len(b) = 2 /\ b[1] = v[1] /\ b[2] = w[1]
      BY <3>4, <3>5
    <3> QED BY <3>1, <3>4, <3>5, <3>6
  <2> QED BY <2>1, <2>2, <2>3
<1> HIDE DEF a, b, S
<1>9. Layered(all, a, m, b)
  BY <1>5, <1>7, <1>8, Layers
<1> HIDE DEF all
<1>10. /\ IsSeq(all) /\ Len(all) \in Nat /\ DOMAIN all = 1 .. Len(all)
       /\ Len(all) = 1 + Len(m) + Len(b) /\ Len(b) \in Nat
       /\ \A i \in 1 .. 1 : all[i] = a[i]
       /\ \A i \in 1 .. Len(m) : all[1 + i] = m[i]
       /\ \A i \in 1 .. Len(b) : all[1 + Len(m) + i] = b[i]
  BY <1>7, <1>9 DEF Layered
<1>11. \A i \in 2 .. Len(m) + 1 : IsDelta(all[i])
  <2>1. \A i \in 2 .. Len(m) + 1 : i - 1 \in 1 .. Len(m) /\ i = 1 + (i - 1)
    BY <1>5
  <2> QED BY <1>5, <1>10, <2>1
<1>12. IsChunk(all[1], "role", NoUsage)
  <2>1. 1 \in 1 .. 1
    OBVIOUS
  <2> QED BY <1>7, <1>10, <2>1
<1>13. ChunksAre(S, all, answer.usage)
  <2>1. CASE S = "mistral"
    <3>1. Len(b) = 1 /\ IsChunk(b[1], "finish", answer.usage)
      BY <1>8, <2>1
    <3>2. Len(all) = 1 + Len(m) + 1 /\ Len(all) - 1 = Len(m) + 1 /\ Len(all) >= 2
      BY <1>5, <1>10, <3>1
    <3>3. all[Len(all)] = b[1]
      <4>1. 1 \in 1 .. Len(b)
        BY <3>1
      <4> QED BY <1>10, <3>1, <3>2, <4>1
    <3> QED BY <1>10, <1>11, <1>12, <2>1, <3>1, <3>2, <3>3 DEF ChunksAre
  <2>2. CASE S # "mistral"
    <3>1. Len(b) = 2 /\ b[1] = fin /\ b[2] = cost
      BY <1>8, <2>2
    <3>2. /\ Len(all) = 1 + Len(m) + 2 /\ Len(all) - 1 = 1 + Len(m) + 1
          /\ Len(all) - 2 = Len(m) + 1 /\ Len(all) >= 3
      BY <1>5, <1>10, <3>1
    <3>3. all[Len(all)] = cost /\ all[Len(all) - 1] = fin
      <4>1. 1 \in 1 .. Len(b) /\ 2 \in 1 .. Len(b)
        BY <3>1
      <4> QED BY <1>10, <3>1, <3>2, <4>1
    <3> QED BY <1>6, <1>10, <1>11, <1>12, <2>2, <3>2, <3>3 DEF ChunksAre
  <2> QED BY <2>1, <2>2
<1>14. /\ DOMAIN events = 1 .. Len(all) /\ IsSeq(events) /\ Len(events) = Len(all)
       /\ \A i \in 1 .. Len(all) : events[i].type = "chunk" /\ events[i].chunk = all[i]
  <2> DEFINE W == {[Ev("chunk") EXCEPT !.chunk = all[i]] : i \in 1 .. Len(all)}
  <2>1. events \in [1 .. Len(all) -> W]
    BY <1>10
  <2>2. \A i \in 1 .. Len(all) : events[i].type = "chunk" /\ events[i].chunk = all[i]
    BY <1>10 DEF Ev
  <2> HIDE DEF W, events
  <2>3. events \in Seq(W) /\ Len(events) = Len(all) /\ DOMAIN events = 1 .. Len(all)
    BY <1>10, <2>1
  <2>4. IsSeq(events)
    BY <2>3, SeqIs
  <2> QED BY <2>2, <2>3, <2>4
<1>15. IsSeq(d) /\ Len(d) = 1 /\ d[1] = Ev("DONE")
  BY TuplesAreSeqs
<1> HIDE DEF d, events
<1>16. IsCat(u, events, d)
  BY <1>14, <1>15, Catenated
<1> HIDE DEF u
<1>17. /\ IsSeq(u) /\ Len(u) = Len(all) + 1
       /\ \A i \in 1 .. Len(all) : u[i] = events[i]
       /\ \A i \in 1 .. 1 : u[Len(all) + i] = d[i]
  <2>1. /\ IsSeq(u) /\ Len(u) = Len(events) + Len(d)
        /\ \A i \in 1 .. Len(events) : u[i] = events[i]
        /\ \A i \in 1 .. Len(d) : u[Len(events) + i] = d[i]
    BY <1>16, CatParts
  <2> QED BY <1>14, <1>15, <2>1
<1>18. u[Len(u)] = Ev("DONE")
  <2>1. 1 \in 1 .. 1
    OBVIOUS
  <2> QED BY <1>15, <1>17, <2>1
<1>19. \A i \in 1 .. Len(all) : u[i].type = "chunk" /\ u[i].chunk = all[i]
  BY <1>14, <1>17
<1>20. OpenAIIs(S, OpenAIScript(adapter, answer), answer.usage)
  BY <1>1, <1>13, <1>17, <1>18, <1>19 DEF OpenAIIs
<1> QED BY <1>20 DEF S

-----------------------------------------------------------------------------
(* The chunks an adapter makes: their order, from the kind of the last one  *)
(* before them, and the usage they carry.                                   *)
Deltas == {"role", "text", "tool"}

MayFollow(last, kind) ==
    \/ kind = "role" /\ last = "none"
    \/ kind \in {"text", "tool", "finish"} /\ last \in Deltas
    \/ kind = "usage" /\ last = "finish"

KindOf(chunks, none) == IF chunks = <<>> THEN none ELSE chunks[Len(chunks)].kind
HasUsage(chunks) == \E i \in 1 .. Len(chunks) : chunks[i].usage # NoUsage

ChunksOK(chunks, last, usages) ==
    /\ IsSeq(chunks)
    /\ \A i \in 1 .. Len(chunks) :
          chunks[i].text \in Nat /\ chunks[i].usage \in {NoUsage} \cup usages
    /\ \A i \in 1 .. Len(chunks) - 1 : MayFollow(chunks[i].kind, chunks[i + 1].kind)
    /\ chunks # <<>> => MayFollow(last, chunks[1].kind)

(* No chunks are in order. *)
LEMMA NoChunks ==
    ASSUME NEW last, NEW usages
    PROVE  ChunksOK(<<>>, last, usages) /\ KindOf(<<>>, last) = last
<1>1. Len(<<>>) = 0 /\ IsSeq(<<>>)
  BY TuplesAreSeqs
<1>2. 1 .. 0 = {} /\ 1 .. 0 - 1 = {}
  OBVIOUS
<1> QED BY <1>1, <1>2 DEF ChunksOK, KindOf

(* One chunk that may follow. *)
LEMMA OneChunk ==
    ASSUME NEW c, NEW kind, NEW u, NEW last, NEW usages, IsChunk(c, kind, u),
           u \in {NoUsage} \cup usages, MayFollow(last, kind)
    PROVE  /\ ChunksOK(<<c>>, last, usages) /\ KindOf(<<c>>, last) = kind
           /\ u # NoUsage => HasUsage(<<c>>)
<1> DEFINE s == <<c>>
<1>1. Len(s) = 1 /\ IsSeq(s) /\ s # <<>> /\ s[1] = c
  BY TuplesAreSeqs
<1>2. (\A i \in 1 .. 1 : i = 1) /\ 1 .. 1 - 1 = {} /\ 1 \in 1 .. 1
  OBVIOUS
<1> HIDE DEF s
<1>3. ChunksOK(s, last, usages) /\ KindOf(s, last) = kind /\ (u # NoUsage => HasUsage(s))
  BY <1>1, <1>2 DEF ChunksOK, KindOf, IsChunk, HasUsage
<1> QED BY <1>3 DEF s

(* One sequence after another. *)
LEMMA MoreChunks ==
    ASSUME NEW a, NEW b, NEW last, NEW U, NEW V, ChunksOK(a, last, U),
           ChunksOK(b, KindOf(a, last), V)
    PROVE  /\ ChunksOK(a \o b, last, U \cup V)
           /\ KindOf(a \o b, last) = KindOf(b, KindOf(a, last))
           /\ HasUsage(b) => HasUsage(a \o b)
<1> DEFINE u == a \o b
<1>0. IsSeq(a) /\ IsSeq(b)
  BY DEF ChunksOK
<1>1. IsCat(u, a, b)
  BY <1>0, Catenated
<1> HIDE DEF u
<1>2. /\ IsSeq(u) /\ Len(a) \in Nat /\ Len(b) \in Nat /\ Len(u) = Len(a) + Len(b)
      /\ \A i \in 1 .. Len(a) : u[i] = a[i]
      /\ \A i \in 1 .. Len(b) : u[Len(a) + i] = b[i]
  BY <1>1, CatParts
<1>3. \A i \in 1 .. Len(u) : i \in 1 .. Len(a) \/ (i - Len(a) \in 1 .. Len(b) /\ i = Len(a) + (i - Len(a)))
  BY <1>2
<1>4. (a = <<>> <=> Len(a) = 0) /\ (b = <<>> <=> Len(b) = 0) /\ (u = <<>> <=> Len(u) = 0)
  <2>1. \A s : IsSeq(s) => (s = <<>> <=> Len(s) = 0)
    BY DEF IsSeq
  <2> QED BY <1>0, <1>2, <2>1
<1>5. \A i \in 1 .. Len(u) : u[i].text \in Nat /\ u[i].usage \in {NoUsage} \cup (U \cup V)
  <2> SUFFICES ASSUME NEW i \in 1 .. Len(u)
               PROVE  u[i].text \in Nat /\ u[i].usage \in {NoUsage} \cup (U \cup V)
    OBVIOUS
  <2>1. CASE i \in 1 .. Len(a)
    BY <1>2, <2>1 DEF ChunksOK
  <2>2. CASE i - Len(a) \in 1 .. Len(b) /\ i = Len(a) + (i - Len(a))
    <3>1. u[i] = b[i - Len(a)]
      BY <1>2, <2>2
    <3> QED BY <2>2, <3>1 DEF ChunksOK
  <2> QED BY <1>3, <2>1, <2>2
<1>6. \A i \in 1 .. Len(u) - 1 : MayFollow(u[i].kind, u[i + 1].kind)
  <2> SUFFICES ASSUME NEW i \in 1 .. Len(u) - 1 PROVE MayFollow(u[i].kind, u[i + 1].kind)
    OBVIOUS
  <2>1. CASE i < Len(a)
    <3>1. i \in 1 .. Len(a) /\ i + 1 \in 1 .. Len(a) /\ i \in 1 .. Len(a) - 1
      BY <1>2, <2>1
    <3>2. u[i] = a[i] /\ u[i + 1] = a[i + 1]
      BY <1>2, <3>1
    <3> QED BY <3>1, <3>2 DEF ChunksOK
  <2>2. CASE i = Len(a)
    <3>1. i \in 1 .. Len(a) /\ 1 \in 1 .. Len(b) /\ Len(a) # 0 /\ Len(b) # 0
      BY <1>2, <2>2
    <3>2. u[i] = a[Len(a)] /\ u[i + 1] = b[1]
      BY <1>2, <2>2, <3>1
    <3>3. KindOf(a, last) = a[Len(a)].kind
      BY <1>4, <3>1 DEF KindOf
    <3>4. MayFollow(KindOf(a, last), b[1].kind)
      BY <1>4, <3>1 DEF ChunksOK
    <3> QED BY <3>2, <3>3, <3>4
  <2>3. CASE i > Len(a)
    <3> DEFINE j == i - Len(a)
    <3>1. j \in 1 .. Len(b) - 1 /\ j \in 1 .. Len(b) /\ j + 1 \in 1 .. Len(b)
          /\ i = Len(a) + j /\ i + 1 = Len(a) + (j + 1)
      BY <1>2, <2>3
    <3> HIDE DEF j
    <3>2. u[i] = b[j] /\ u[i + 1] = b[j + 1]
      BY <1>2, <3>1
    <3> QED BY <3>1, <3>2 DEF ChunksOK
  <2> QED BY <1>2, <2>1, <2>2, <2>3
<1>7. u # <<>> => MayFollow(last, u[1].kind)
  <2>1. CASE Len(a) # 0
    <3>1. 1 \in 1 .. Len(a)
      BY <1>2, <2>1
    <3>2. u[1] = a[1] /\ a # <<>>
      BY <1>2, <1>4, <2>1, <3>1
    <3> QED BY <3>2 DEF ChunksOK
  <2>2. CASE Len(a) = 0 /\ Len(b) # 0
    <3>1. 1 \in 1 .. Len(b) /\ Len(a) + 1 = 1
      BY <1>2, <2>2
    <3>2. u[1] = b[1] /\ b # <<>> /\ KindOf(a, last) = last
      BY <1>2, <1>4, <2>2, <3>1 DEF KindOf
    <3> QED BY <3>2 DEF ChunksOK
  <2>3. CASE Len(a) = 0 /\ Len(b) = 0
    BY <1>2, <1>4, <2>3
  <2> QED BY <2>1, <2>2, <2>3
<1>8. ChunksOK(u, last, U \cup V)
  BY <1>2, <1>5, <1>6, <1>7 DEF ChunksOK
<1>9. KindOf(u, last) = KindOf(b, KindOf(a, last))
  <2>1. CASE Len(b) = 0
    <3>1. Len(u) = Len(a) /\ b = <<>>
      BY <1>2, <1>4, <2>1
    <3>2. Len(a) # 0 => Len(a) \in 1 .. Len(a)
      BY <1>2
    <3> QED BY <1>2, <1>4, <3>1, <3>2 DEF KindOf
  <2>2. CASE Len(b) # 0
    <3>1. Len(b) \in 1 .. Len(b) /\ Len(u) # 0
      BY <1>2, <2>2
    <3>2. u[Len(u)] = b[Len(b)]
      BY <1>2, <3>1
    <3> QED BY <1>4, <2>2, <3>1, <3>2 DEF KindOf
  <2> QED BY <2>1, <2>2
<1>10. HasUsage(b) => HasUsage(u)
  <2> SUFFICES ASSUME NEW i \in 1 .. Len(b), b[i].usage # NoUsage PROVE HasUsage(u)
    BY DEF HasUsage
  <2>1. Len(a) + i \in 1 .. Len(u) /\ u[Len(a) + i] = b[i]
    BY <1>2
  <2> QED BY <2>1 DEF HasUsage
<1> QED BY <1>8, <1>9, <1>10 DEF u

(* Two that may follow each other. *)
LEMMA TwoChunks ==
    ASSUME NEW c, NEW d, NEW x, NEW y, NEW u, NEW v, NEW last, NEW usages,
           IsChunk(c, x, u), IsChunk(d, y, v), {u, v} \subseteq {NoUsage} \cup usages,
           MayFollow(last, x), MayFollow(x, y)
    PROVE  /\ ChunksOK(<<c, d>>, last, usages) /\ KindOf(<<c, d>>, last) = y
           /\ v # NoUsage => HasUsage(<<c, d>>)
<1> DEFINE s == <<c, d>>
<1>1. Len(s) = 2 /\ IsSeq(s) /\ s # <<>> /\ s[1] = c /\ s[2] = d
  BY TuplesAreSeqs
<1>2. (\A i \in 1 .. 2 : i = 1 \/ i = 2) /\ (\A i \in 1 .. 2 - 1 : i = 1 /\ i + 1 = 2) /\ 2 \in 1 .. 2
  OBVIOUS
<1> HIDE DEF s
<1>3. ChunksOK(s, last, usages) /\ KindOf(s, last) = y /\ (v # NoUsage => HasUsage(s))
  BY <1>1, <1>2 DEF ChunksOK, KindOf, IsChunk, HasUsage
<1> QED BY <1>3 DEF s

-----------------------------------------------------------------------------
(* The adapter's locals after k of n events, and the kinds the last chunk   *)
(* may then have.                                                           *)
Fields == {"role", "tools", "byBlock", "reason", "usage"}

UsageAt(A, U, n, k) ==
    IF A = "anthropic"
    THEN [in |-> IF k >= 1 THEN U.in ELSE 0, out |-> IF k >= n - 1 THEN U.out ELSE 0]
    ELSE IF A \in {"gemini", "cohere"} /\ k = n THEN U ELSE Zero

Stages(A, n, k, role) ==
    IF A \in {"anthropic", "cohere", "gemini"} THEN (IF role THEN Deltas ELSE {"none"})
    ELSE IF k = 0 THEN {"none"}
    ELSE IF A = "openai"
    THEN IF k < n - 2 THEN Deltas ELSE IF k = n - 2 THEN {"finish"} ELSE {"finish", "usage"}
    ELSE IF k < n - 1 THEN Deltas ELSE {"finish"}

StateAt(A, U, n, k, st) ==
    /\ DOMAIN st = Fields /\ st.role \in BOOLEAN
    /\ st.usage = UsageAt(A, U, n, k)
    /\ A \in {"anthropic", "cohere"} => st.role = (k >= 1)
    /\ A \notin {"gemini", "cohere"} => k < n

(* What event k + 1 does. *)
Effect(A, U, n, k, last, step) ==
    /\ step.end \in {"more", "return"}
    /\ ChunksOK(step.chunks, last, {U})
    /\ step.end = "more" =>
          /\ StateAt(A, U, n, k + 1, step.state)
          /\ KindOf(step.chunks, last) \in Stages(A, n, k + 1, step.state.role)
          /\ A \in {"openai", "mistral"} /\ k + 1 = n - 1 /\ U # NoUsage => HasUsage(step.chunks)
    /\ step.end = "return" =>
          HasUsage(step.chunks) \/ (A \in {"openai", "mistral"} /\ k = n - 1)

(* What is left of it when the stream is cut does no more than this. *)
BlankEffect(A, U, n, k, last, step) ==
    /\ step.end \in {"more", "return"}
    /\ ChunksOK(step.chunks, last, {U})
    /\ step.end = "more" /\ A \in {"gemini", "cohere"} =>
          /\ step.state.role \in BOOLEAN /\ step.state.usage = UsageAt(A, U, n, k)
          /\ KindOf(step.chunks, last) \in IF step.state.role THEN Deltas ELSE {"none"}

(* A step's fields. *)
LEMMA YieldIs ==
    ASSUME NEW st, NEW chunks
    PROVE  /\ Yield(st, chunks).state = st /\ Yield(st, chunks).chunks = chunks
           /\ Yield(st, chunks).end = "more"
BY DEF Yield

(* Effects that yield and go on. *)
LEMMA GoesOn ==
    ASSUME NEW A, NEW U, NEW n, NEW k, NEW last, NEW st, NEW chunks,
           A \notin {"openai", "mistral"}, StateAt(A, U, n, k + 1, st),
           ChunksOK(chunks, last, {U}), KindOf(chunks, last) \in Stages(A, n, k + 1, st.role)
    PROVE  Effect(A, U, n, k, last, Yield(st, chunks))
BY YieldIs DEF Effect

(* The same, for an event that told the adapter nothing. *)
LEMMA GoesOnBlank ==
    ASSUME NEW A, NEW U, NEW n, NEW k, NEW last, NEW st, NEW chunks,
           st.role \in BOOLEAN, st.usage = UsageAt(A, U, n, k),
           ChunksOK(chunks, last, {U}),
           A \in {"gemini", "cohere"} =>
                KindOf(chunks, last) \in IF st.role THEN Deltas ELSE {"none"}
    PROVE  BlankEffect(A, U, n, k, last, Yield(st, chunks))
BY YieldIs DEF BlankEffect

(* EmitRole makes the role chunk once. *)
RoleStage(st, last) == st.role \in BOOLEAN /\ last \in IF st.role THEN Deltas ELSE {"none"}

LEMMA RoleEmits ==
    ASSUME NEW st, NEW last, NEW usages, RoleStage(st, last)
    PROVE  ChunksOK(EmitRole(st), last, usages) /\ KindOf(EmitRole(st), last) \in Deltas
<1>1. CASE st.role
  <2>1. EmitRole(st) = <<>> /\ last \in Deltas
    BY <1>1 DEF EmitRole, RoleStage
  <2> QED BY <2>1, NoChunks
<1>2. CASE ~st.role
  <2>1. EmitRole(st) = <<makeRoleChunk>> /\ last = "none"
    BY <1>2 DEF EmitRole, RoleStage
  <2>2. MayFollow(last, "role") /\ "role" \in Deltas
    BY <2>1 DEF MayFollow, Deltas
  <2>3. IsChunk(makeRoleChunk, "role", NoUsage) /\ NoUsage \in {NoUsage} \cup usages
    BY RoleChunk
  <2> QED BY <2>1, <2>2, <2>3, OneChunk
<1> QED BY <1>1, <1>2 DEF RoleStage

(* The Anthropic adapter's turn, arm by arm. *)
Started(st, ev) == [st EXCEPT !.role = TRUE,
                              !.usage.in = IF ev.usage = NoUsage THEN @ ELSE ev.usage.in]
Called(st, ev) == [st EXCEPT !.tools = @ + 1,
                       !.byBlock = [b \in DOMAIN @ \cup {ev.index} |->
                                       IF b = ev.index THEN st.tools ELSE @[b]]]
Ending(st, ev) == [st EXCEPT !.reason = IF ev.reason = NoReason THEN @ ELSE ev.reason,
                             !.usage.out = IF ev.usage = NoUsage THEN @ ELSE ev.usage.out]
Stopped(st) == <<makeFinishChunk(mapStopReason(st.reason, st.tools > 0)),
                 makeUsageChunk(st.usage)>>

(* The arms of the switch, each by itself. *)
LEMMA AnthropicArms ==
    ASSUME NEW st, NEW ev
    PROVE  /\ ev.type = "message_start" =>
                AnthropicEvent(st, ev) = Yield(Started(st, ev), EmitRole(st))
           /\ ev.type = "content_block_start" =>
                AnthropicEvent(st, ev) =
                  IF ev.parts # <<>> /\ ev.parts[1].tool
                  THEN Yield(Called(st, ev),
                             <<makeToolCallChunk(ToolIndex(Called(st, ev), ev.index),
                                                 ev.parts[1].name, <<>>)>>)
                  ELSE Yield(st, <<>>)
           /\ ev.type = "content_block_delta" =>
                AnthropicEvent(st, ev) =
                  IF ev.parts # <<>>
                  THEN Yield(st, IF ev.parts[1].tool
                                 THEN <<makeToolCallChunk(ToolIndex(st, ev.index), "none",
                                                          ev.parts[1].args)>>
                                 ELSE <<makeContentChunk(ev.parts[1].text)>>)
                  ELSE Yield(st, <<>>)
           /\ ev.type = "message_delta" =>
                AnthropicEvent(st, ev) = Yield(Ending(st, ev), <<>>)
           /\ ev.type = "message_stop" =>
                AnthropicEvent(st, ev) = [Yield(st, Stopped(st)) EXCEPT !.end = "return"]
           /\ ev.type \in {"ping", "unknown"} => AnthropicEvent(st, ev) = Yield(st, <<>>)
<1>1. ASSUME ev.type = "message_start"
      PROVE  AnthropicEvent(st, ev) = Yield(Started(st, ev), EmitRole(st))
  BY <1>1 DEF AnthropicEvent, Started
<1>2. ASSUME ev.type = "content_block_start"
      PROVE  AnthropicEvent(st, ev) =
                  IF ev.parts # <<>> /\ ev.parts[1].tool
                  THEN Yield(Called(st, ev),
                             <<makeToolCallChunk(ToolIndex(Called(st, ev), ev.index),
                                                 ev.parts[1].name, <<>>)>>)
                  ELSE Yield(st, <<>>)
  BY <1>2 DEF AnthropicEvent, Called
<1>3. ASSUME ev.type = "content_block_delta"
      PROVE  AnthropicEvent(st, ev) =
                  IF ev.parts # <<>>
                  THEN Yield(st, IF ev.parts[1].tool
                                 THEN <<makeToolCallChunk(ToolIndex(st, ev.index), "none",
                                                          ev.parts[1].args)>>
                                 ELSE <<makeContentChunk(ev.parts[1].text)>>)
                  ELSE Yield(st, <<>>)
  BY <1>3 DEF AnthropicEvent
<1>4. ASSUME ev.type = "message_delta"
      PROVE  AnthropicEvent(st, ev) = Yield(Ending(st, ev), <<>>)
  BY <1>4 DEF AnthropicEvent, Ending
<1>5. ASSUME ev.type = "message_stop"
      PROVE  AnthropicEvent(st, ev) = [Yield(st, Stopped(st)) EXCEPT !.end = "return"]
  BY <1>5 DEF AnthropicEvent, Stopped
<1>6. ASSUME ev.type \in {"ping", "unknown"}
      PROVE  AnthropicEvent(st, ev) = Yield(st, <<>>)
  BY <1>6 DEF AnthropicEvent
<1> QED BY <1>1, <1>2, <1>3, <1>4, <1>5, <1>6

(* The locals after message_start, message_delta and a tool's block. *)
LEMMA StartedIs ==
    ASSUME NEW st, NEW ev, DOMAIN st = Fields, DOMAIN st.usage = {"in", "out"}
    PROVE  /\ DOMAIN Started(st, ev) = Fields /\ Started(st, ev).role = TRUE
           /\ Started(st, ev).usage
                = [in |-> IF ev.usage = NoUsage THEN st.usage.in ELSE ev.usage.in, out |-> st.usage.out]
<1> DEFINE z == IF ev.usage = NoUsage THEN st.usage.in ELSE ev.usage.in
           q == [st EXCEPT !.role = TRUE]
           w == [st.usage EXCEPT !.in = z]
<1>1. Started(st, ev) = [st EXCEPT !.role = TRUE, !.usage = w]
  <2>1. Started(st, ev) = [st EXCEPT !.role = TRUE, !.usage.in = z]
    BY DEF Started
  <2> HIDE DEF z
  <2> QED BY <2>1 DEF Fields
<1>2. w = [in |-> z, out |-> st.usage.out]
  <2> HIDE DEF z
  <2> QED OBVIOUS
<1> HIDE DEF w, z
<1>3. /\ DOMAIN Started(st, ev) = Fields /\ Started(st, ev).role = TRUE
      /\ Started(st, ev).usage = w
  BY <1>1 DEF Fields
<1> QED BY <1>2, <1>3 DEF z

LEMMA EndingIs ==
    ASSUME NEW st, NEW ev, DOMAIN st = Fields, DOMAIN st.usage = {"in", "out"}
    PROVE  /\ DOMAIN Ending(st, ev) = Fields /\ Ending(st, ev).role = st.role
           /\ Ending(st, ev).usage
                = [in |-> st.usage.in, out |-> IF ev.usage = NoUsage THEN st.usage.out ELSE ev.usage.out]
<1> DEFINE z == IF ev.usage = NoUsage THEN st.usage.out ELSE ev.usage.out
           r == IF ev.reason = NoReason THEN st.reason ELSE ev.reason
           w == [st.usage EXCEPT !.out = z]
<1>1. Ending(st, ev) = [st EXCEPT !.reason = r, !.usage = w]
  <2>1. Ending(st, ev) = [st EXCEPT !.reason = r, !.usage.out = z]
    BY DEF Ending
  <2> HIDE DEF z, r
  <2> QED BY <2>1 DEF Fields
<1>2. w = [in |-> st.usage.in, out |-> z]
  <2> HIDE DEF z
  <2> QED OBVIOUS
<1> HIDE DEF w, z, r
<1>3. /\ DOMAIN Ending(st, ev) = Fields /\ Ending(st, ev).role = st.role
      /\ Ending(st, ev).usage = w
  BY <1>1 DEF Fields
<1> QED BY <1>2, <1>3 DEF z

LEMMA CalledIs ==
    ASSUME NEW st, NEW ev, DOMAIN st = Fields
    PROVE  /\ DOMAIN Called(st, ev) = Fields /\ Called(st, ev).role = st.role
           /\ Called(st, ev).usage = st.usage
<1> DEFINE m == [b \in DOMAIN st.byBlock \cup {ev.index} |->
                    IF b = ev.index THEN st.tools ELSE st.byBlock[b]]
<1>1. Called(st, ev) = [st EXCEPT !.tools = st.tools + 1, !.byBlock = m]
  BY DEF Called
<1> HIDE DEF m
<1> QED BY <1>1 DEF Fields

(* The places of an Anthropic stream. *)
LEMMA StoppedIs ==
    ASSUME NEW st, NEW last \in Deltas, NEW U, st.usage = U, U # NoUsage
    PROVE  ChunksOK(Stopped(st), last, {U}) /\ HasUsage(Stopped(st))
<1> DEFINE f == makeFinishChunk(mapStopReason(st.reason, st.tools > 0))
           c == makeUsageChunk(st.usage)
<1>1. IsChunk(f, "finish", NoUsage) /\ IsChunk(c, "usage", U)
  BY FinishChunk, UsageChunk
<1>2. MayFollow(last, "finish") /\ MayFollow("finish", "usage")
  BY DEF MayFollow
<1>3. {NoUsage, U} \subseteq {NoUsage} \cup {U}
  OBVIOUS
<1> HIDE DEF f, c
<1>4. ChunksOK(<<f, c>>, last, {U}) /\ HasUsage(<<f, c>>)
  BY <1>1, <1>2, <1>3, TwoChunks
<1> QED BY <1>4 DEF Stopped, f, c

(* message_stop makes the finish and the usage chunk. *)
LEMMA StopEffect ==
    ASSUME NEW U \in [in : Nat, out : Nat], NEW n \in Nat, n >= 4, NEW st, NEW last,
           StateAt("anthropic", U, n, n - 1, st), last \in Stages("anthropic", n, n - 1, st.role),
           NEW ev, ev.type = "message_stop"
    PROVE  /\ Effect("anthropic", U, n, n - 1, last, AnthropicEvent(st, ev))
           /\ BlankEffect("anthropic", U, n, n - 1, last, AnthropicEvent(st, ev))
<1> DEFINE y == Yield(st, Stopped(st))
           step == [y EXCEPT !.end = "return"]
<1>1. AnthropicEvent(st, ev) = step
  BY AnthropicArms
<1>2. step.end = "return" /\ step.chunks = Stopped(st)
  BY DEF Yield
<1>3. st.usage = U /\ last \in Deltas
  <2>1. st.usage = UsageAt("anthropic", U, n, n - 1) /\ st.role = (n - 1 >= 1)
    BY DEF StateAt
  <2>2. n - 1 >= 1 /\ n - 1 >= n - 1
    OBVIOUS
  <2>3. st.usage = [in |-> U.in, out |-> U.out]
    BY <2>1, <2>2 DEF UsageAt
  <2> QED BY <2>1, <2>2, <2>3 DEF Stages
<1>4. U # NoUsage
  BY DEF NoUsage
<1>5. ChunksOK(Stopped(st), last, {U}) /\ HasUsage(Stopped(st))
  BY <1>3, <1>4, StoppedIs
<1> HIDE DEF step
<1> QED BY <1>1, <1>2, <1>5 DEF Effect, BlankEffect

(* Deltas of an open stream. *)
LEMMA Steady ==
    ASSUME NEW U, NEW n \in Nat, NEW k \in 1 .. n - 3, NEW st, NEW last,
           StateAt("anthropic", U, n, k, st), last \in Stages("anthropic", n, k, st.role)
    PROVE  StateAt("anthropic", U, n, k + 1, st) /\ last \in Deltas /\ st.role = TRUE
<1>1. /\ k >= 1 /\ k + 1 >= 1 /\ ~(k >= n - 1) /\ ~(k + 1 >= n - 1) /\ k + 1 < n
  OBVIOUS
<1>2. UsageAt("anthropic", U, n, k + 1) = UsageAt("anthropic", U, n, k)
  BY <1>1 DEF UsageAt
<1>3. st.role = TRUE
  BY <1>1 DEF StateAt
<1>4. last \in Deltas
  BY <1>3 DEF Stages
<1>5. StateAt("anthropic", U, n, k + 1, st)
  <2>1. DOMAIN st = Fields /\ st.role \in BOOLEAN /\ st.usage = UsageAt("anthropic", U, n, k)
    BY DEF StateAt
  <2>2. st.role = (k + 1 >= 1)
    BY <1>1, <1>3
  <2> QED BY <1>1, <1>2, <2>1, <2>2 DEF StateAt
<1> QED BY <1>3, <1>4, <1>5

(* Only the role and the usage count. *)
LEMMA StateMoved ==
    ASSUME NEW A, NEW U, NEW n, NEW k, NEW st, NEW t, StateAt(A, U, n, k, st),
           DOMAIN t = Fields, t.role = st.role, t.usage = st.usage
    PROVE  StateAt(A, U, n, k, t)
BY DEF StateAt

(* One part. *)
LEMMA PartsOne ==
    ASSUME NEW p
    PROVE  <<p>> # <<>> /\ <<p>>[1] = p
OBVIOUS

(* A delta may follow a delta. *)
LEMMA DeltaOne ==
    ASSUME NEW c, IsDelta(c), NEW last \in Deltas, NEW U
    PROVE  ChunksOK(<<c>>, last, U) /\ KindOf(<<c>>, last) \in Deltas
<1>1. MayFollow(last, "text") /\ MayFollow(last, "tool") /\ {"text", "tool"} \subseteq Deltas
  BY DEF MayFollow, Deltas
<1>2. NoUsage \in {NoUsage} \cup U
  OBVIOUS
<1>3. CASE IsChunk(c, "text", NoUsage)
  BY <1>1, <1>2, <1>3, OneChunk
<1>4. CASE IsChunk(c, "tool", NoUsage)
  BY <1>1, <1>2, <1>4, OneChunk
<1> QED BY <1>3, <1>4 DEF IsDelta

(* A block event makes deltas at most. *)
LEMMA BlockEffect ==
    ASSUME NEW U, NEW n \in Nat, NEW k \in 1 .. n - 3, NEW st, NEW last,
           StateAt("anthropic", U, n, k, st), last \in Stages("anthropic", n, k, st.role),
           NEW ev \in BlockEvents
    PROVE  Effect("anthropic", U, n, k, last, AnthropicEvent(st, ev))
<1>1. StateAt("anthropic", U, n, k + 1, st) /\ last \in Deltas /\ st.role = TRUE
  BY Steady
<1> DEFINE t == ev.type
<1>2. PICK p \in Bits : ev.parts = <<p>>
  BY DEF BlockEvents, IsBlock
<1>3. ev.type = t /\ ev.parts = <<p>> /\ t \in {"content_block_start", "content_block_delta"}
  BY <1>2 DEF BlockEvents, IsBlock
<1>4. ev.parts # <<>> /\ ev.parts[1] = p
  BY <1>3, PartsOne
<1>5. PartOK(p)
  BY BitsOK
<1>0. "anthropic" \notin {"openai", "mistral"}
  OBVIOUS
<1>a. \A s : s.role = TRUE => Stages("anthropic", n, k + 1, s.role) = Deltas
  BY DEF Stages
<1>6. CASE t = "content_block_start"
  <2>1. CASE p.tool
    <3> DEFINE next == Called(st, ev)
               c == makeToolCallChunk(ToolIndex(next, ev.index), ev.parts[1].name, <<>>)
    <3>1. AnthropicEvent(st, ev) = Yield(next, <<c>>)
      <4>1. ev.type = "content_block_start" /\ ev.parts # <<>> /\ ev.parts[1].tool
        BY <1>3, <1>4, <1>6, <2>1
      <4> QED BY <4>1, AnthropicArms
    <3>2. IsDelta(c)
      BY ToolChunk DEF IsDelta
    <3>3. DOMAIN st = Fields
      BY DEF StateAt
    <3>4. DOMAIN next = Fields /\ next.role = st.role /\ next.usage = st.usage
      BY <3>3, CalledIs
    <3> HIDE DEF next, c
    <3>5. StateAt("anthropic", U, n, k + 1, next)
      BY <1>1, <3>4, StateMoved
    <3>6. ChunksOK(<<c>>, last, {U}) /\ KindOf(<<c>>, last) \in Deltas
      BY <1>1, <3>2, DeltaOne
    <3>7. KindOf(<<c>>, last) \in Stages("anthropic", n, k + 1, next.role)
      BY <1>1, <1>a, <3>4, <3>6
    <3>8. Effect("anthropic", U, n, k, last, Yield(next, <<c>>))
      BY <1>0, <3>5, <3>6, <3>7, GoesOn
    <3> QED BY <3>1, <3>8
  <2>2. CASE ~p.tool
    <3>1. AnthropicEvent(st, ev) = Yield(st, <<>>)
      BY <1>3, <1>4, <1>6, <2>2, AnthropicArms
    <3>2. ChunksOK(<<>>, last, {U}) /\ KindOf(<<>>, last) \in Stages("anthropic", n, k + 1, st.role)
      BY <1>1, <1>a, NoChunks
    <3> QED BY <1>0, <1>1, <3>1, <3>2, GoesOn
  <2> QED BY <2>1, <2>2
<1>7. CASE t = "content_block_delta"
  <2> DEFINE x == makeToolCallChunk(ToolIndex(st, ev.index), "none", ev.parts[1].args)
             z == makeContentChunk(ev.parts[1].text)
             cs == IF ev.parts[1].tool THEN <<x>> ELSE <<z>>
  <2>1. AnthropicEvent(st, ev) = Yield(st, cs)
    BY <1>3, <1>4, <1>7, AnthropicArms
  <2>2. IsDelta(x) /\ IsDelta(z)
    <3>1. ev.parts[1].text \in Nat
      BY <1>4, <1>5 DEF PartOK
    <3> QED BY <3>1, ToolChunk, ContentChunk DEF IsDelta
  <2> HIDE DEF x, z
  <2>3. ChunksOK(cs, last, {U}) /\ KindOf(cs, last) \in Deltas
    <3>1. ChunksOK(<<x>>, last, {U}) /\ KindOf(<<x>>, last) \in Deltas
      BY <1>1, <2>2, DeltaOne
    <3>2. ChunksOK(<<z>>, last, {U}) /\ KindOf(<<z>>, last) \in Deltas
      BY <1>1, <2>2, DeltaOne
    <3>3. cs = <<x>> \/ cs = <<z>>
      OBVIOUS
    <3> QED BY <3>1, <3>2, <3>3
  <2> HIDE DEF cs
  <2>4. KindOf(cs, last) \in Stages("anthropic", n, k + 1, st.role)
    BY <1>1, <1>a, <2>3
  <2>5. Effect("anthropic", U, n, k, last, Yield(st, cs))
    BY <1>0, <1>1, <2>3, <2>4, GoesOn
  <2> QED BY <2>1, <2>5
<1> QED BY <1>3, <1>6, <1>7

(* message_start makes the role chunk and notes the input. *)
LEMMA StartEffect ==
    ASSUME NEW U \in [in : Nat, out : Nat], NEW n \in Nat, n >= 4, NEW st, NEW last,
           StateAt("anthropic", U, n, 0, st), last \in Stages("anthropic", n, 0, st.role),
           NEW ev, ev.type = "message_start"
    PROVE  /\ Tells(ev.usage, [in |-> U.in, out |-> 0]) =>
                Effect("anthropic", U, n, 0, last, AnthropicEvent(st, ev))
           /\ ev.usage = NoUsage => BlankEffect("anthropic", U, n, 0, last, AnthropicEvent(st, ev))
<1> DEFINE next == Started(st, ev)
           cs == EmitRole(st)
<1>1. AnthropicEvent(st, ev) = Yield(next, cs)
  BY AnthropicArms
<1>2. DOMAIN st = Fields /\ st.usage = [in |-> 0, out |-> 0] /\ st.role = FALSE
  <2>1. ~(0 >= 1) /\ ~(0 >= n - 1)
    OBVIOUS
  <2>2. /\ DOMAIN st = Fields /\ st.usage = UsageAt("anthropic", U, n, 0)
        /\ st.role = (0 >= 1) /\ st.role \in BOOLEAN
    BY DEF StateAt
  <2>3. st.usage = [in |-> 0, out |-> 0]
    BY <2>1, <2>2 DEF UsageAt
  <2> QED BY <2>1, <2>2, <2>3
<1>3. /\ DOMAIN next = Fields /\ next.role = TRUE
      /\ next.usage = [in |-> IF ev.usage = NoUsage THEN 0 ELSE ev.usage.in, out |-> 0]
  <2>1. DOMAIN st.usage = {"in", "out"} /\ st.usage.in = 0 /\ st.usage.out = 0
    BY <1>2
  <2> QED BY <1>2, <2>1, StartedIs, ZenonT(40)
<1>4. RoleStage(st, last)
  BY <1>2 DEF Stages, RoleStage
<1>5. ChunksOK(cs, last, {U}) /\ KindOf(cs, last) \in Deltas
  BY <1>4, RoleEmits
<1> HIDE DEF next, cs
<1>6. ASSUME Tells(ev.usage, [in |-> U.in, out |-> 0])
      PROVE  Effect("anthropic", U, n, 0, last, Yield(next, cs))
  <2>2. next.usage = [in |-> U.in, out |-> 0]
    <3>1. CASE ev.usage = NoUsage /\ [in |-> U.in, out |-> 0] = Zero
      <4>1. next.usage = [in |-> 0, out |-> 0]
        BY <1>3, <3>1
      <4> QED BY <3>1, <4>1 DEF Zero
    <3>2. CASE ev.usage = [in |-> U.in, out |-> 0]
      <4>1. ev.usage # NoUsage
        BY <3>2 DEF NoUsage
      <4> QED BY <1>3, <3>2, <4>1
    <3> QED BY <1>6, <3>1, <3>2 DEF Tells
  <2>3. 0 + 1 >= 1 /\ ~(0 + 1 >= n - 1) /\ 0 + 1 < n
    OBVIOUS
  <2>4. StateAt("anthropic", U, n, 0 + 1, next)
    <3>1. next.usage = UsageAt("anthropic", U, n, 0 + 1)
      BY <2>2, <2>3 DEF UsageAt
    <3> QED BY <1>3, <2>3, <3>1 DEF StateAt
  <2>5. KindOf(cs, last) \in Stages("anthropic", n, 0 + 1, next.role)
    BY <1>3, <1>5 DEF Stages
  <2>6. "anthropic" \notin {"openai", "mistral"}
    OBVIOUS
  <2> QED BY <1>5, <2>4, <2>5, <2>6, GoesOn
<1>7. BlankEffect("anthropic", U, n, 0, last, Yield(next, cs))
  <2>1. "anthropic" \notin {"gemini", "cohere"}
    OBVIOUS
  <2> QED BY <1>5, <2>1, YieldIs DEF BlankEffect
<1> QED BY <1>1, <1>6, <1>7

(* message_delta makes nothing and notes the output. *)
LEMMA EndEffect ==
    ASSUME NEW U \in [in : Nat, out : Nat], NEW n \in Nat, n >= 4, NEW st, NEW last,
           StateAt("anthropic", U, n, n - 2, st), last \in Stages("anthropic", n, n - 2, st.role),
           NEW ev, ev.type = "message_delta", Tells(ev.usage, U)
    PROVE  Effect("anthropic", U, n, n - 2, last, AnthropicEvent(st, ev))
<1> DEFINE next == Ending(st, ev)
<1>1. AnthropicEvent(st, ev) = Yield(next, <<>>)
  BY AnthropicArms
<1>0. n - 2 >= 1 /\ ~(n - 2 >= n - 1) /\ (n - 2) + 1 = n - 1 /\ n - 1 >= 1 /\ n - 1 >= n - 1 /\ n - 1 < n
  OBVIOUS
<1>2. DOMAIN st = Fields /\ st.usage = [in |-> U.in, out |-> 0] /\ st.role = TRUE
  BY <1>0 DEF StateAt, UsageAt
<1>3. /\ DOMAIN next = Fields /\ next.role = TRUE
      /\ next.usage = [in |-> U.in, out |-> IF ev.usage = NoUsage THEN 0 ELSE ev.usage.out]
  BY <1>2, EndingIs
<1>4. (IF ev.usage = NoUsage THEN 0 ELSE ev.usage.out) = U.out
  <2>1. CASE ev.usage = NoUsage /\ U = Zero
    BY <2>1 DEF Zero
  <2>2. CASE ev.usage = U
    <3>1. U # NoUsage
      BY DEF NoUsage
    <3> QED BY <2>2, <3>1
  <2> QED BY <2>1, <2>2 DEF Tells
<1>5. last \in Deltas
  BY <1>2 DEF Stages
<1> HIDE DEF next
<1>6. next.usage = UsageAt("anthropic", U, n, n - 1)
  BY <1>0, <1>3, <1>4 DEF UsageAt
<1>7. StateAt("anthropic", U, n, (n - 2) + 1, next)
  BY <1>0, <1>3, <1>6 DEF StateAt
<1>8. ChunksOK(<<>>, last, {U}) /\ KindOf(<<>>, last) \in Stages("anthropic", n, (n - 2) + 1, next.role)
  BY <1>3, <1>5, NoChunks DEF Stages
<1>9. "anthropic" \notin {"openai", "mistral"}
  OBVIOUS
<1>10. Effect("anthropic", U, n, n - 2, last, Yield(next, <<>>))
  BY <1>7, <1>8, <1>9, GoesOn
<1> QED BY <1>1, <1>10

(* A ping changes nothing. *)
LEMMA PingEffect ==
    ASSUME NEW U, NEW n \in Nat, n >= 4, NEW st, NEW last,
           StateAt("anthropic", U, n, 1, st), last \in Stages("anthropic", n, 1, st.role),
           NEW ev, ev.type = "ping"
    PROVE  Effect("anthropic", U, n, 1, last, AnthropicEvent(st, ev))
<1>1. AnthropicEvent(st, ev) = Yield(st, <<>>)
  BY AnthropicArms
<1>2. 1 \in 1 .. n - 3
  OBVIOUS
<1>3. StateAt("anthropic", U, n, 1 + 1, st) /\ last \in Deltas /\ st.role = TRUE
  BY <1>2, Steady
<1>4. ChunksOK(<<>>, last, {U}) /\ KindOf(<<>>, last) \in Stages("anthropic", n, 1 + 1, st.role)
  BY <1>3, NoChunks DEF Stages
<1>5. "anthropic" \notin {"openai", "mistral"}
  OBVIOUS
<1>6. Effect("anthropic", U, n, 1, last, Yield(st, <<>>))
  BY <1>3, <1>4, <1>5, GoesOn
<1> QED BY <1>1, <1>6

(* Every event of an Anthropic stream. *)
LEMMA AnthropicEffect ==
    ASSUME NEW U \in [in : Nat, out : Nat], NEW s, AnthropicIs(s, U), NEW n, n = Len(s),
           NEW k \in 0 .. n - 1, NEW st, NEW last, StateAt("anthropic", U, n, k, st),
           last \in Stages("anthropic", n, k, st.role)
    PROVE  Effect("anthropic", U, n, k, last, AnthropicEvent(st, s[k + 1]))
<1>1. /\ n \in Nat /\ n >= 4
      /\ s[1].type = "message_start" /\ Tells(s[1].usage, [in |-> U.in, out |-> 0])
      /\ s[2] = Ev("ping")
      /\ \A i \in 3 .. n - 2 : s[i] \in BlockEvents
      /\ s[n - 1].type = "message_delta" /\ Tells(s[n - 1].usage, U)
      /\ s[n] = Ev("message_stop")
  <2>1. /\ Len(s) \in Nat /\ Len(s) >= 4
        /\ s[1].type = "message_start" /\ Tells(s[1].usage, [in |-> U.in, out |-> 0])
        /\ s[2] = Ev("ping")
        /\ \A i \in 3 .. Len(s) - 2 : s[i] \in BlockEvents
        /\ s[Len(s) - 1].type = "message_delta" /\ Tells(s[Len(s) - 1].usage, U)
        /\ s[Len(s)] = Ev("message_stop")
    BY Zenon DEF AnthropicIs
  <2> QED BY <2>1, Zenon
<1>a. n \in Nat /\ n >= 4
  BY <1>1, Zenon
<1>2. k = 0 \/ k = 1 \/ k \in 2 .. n - 3 \/ k = n - 2 \/ k = n - 1
  BY <1>a
<1>3. CASE k = 0
  <2>1. s[k + 1] = s[1]
    BY <1>3
  <2>2. Effect("anthropic", U, n, 0, last, AnthropicEvent(st, s[1]))
    BY <1>1, <1>3, StartEffect
  <2> QED BY <1>3, <2>1, <2>2
<1>4. CASE k = 1
  <2>1. s[k + 1] = s[2] /\ s[2].type = "ping"
    BY <1>1, <1>4, EvIs
  <2>2. Effect("anthropic", U, n, 1, last, AnthropicEvent(st, s[2]))
    BY <1>1, <1>4, <2>1, PingEffect
  <2> QED BY <1>4, <2>1, <2>2
<1>5. CASE k \in 2 .. n - 3
  <2>1. k + 1 \in 3 .. n - 2 /\ k \in 1 .. n - 3
    BY <1>1, <1>5
  <2>2. s[k + 1] \in BlockEvents
    BY <1>1, <2>1
  <2> QED BY <1>1, <2>1, <2>2, BlockEffect
<1>6. CASE k = n - 2
  <2>1. k + 1 = n - 1
    BY <1>1, <1>6
  <2>2. Effect("anthropic", U, n, n - 2, last, AnthropicEvent(st, s[n - 1]))
    BY <1>1, <1>6, EndEffect
  <2> QED BY <1>6, <2>1, <2>2
<1>7. CASE k = n - 1
  <2>1. k + 1 = n /\ s[n].type = "message_stop"
    BY <1>1, <1>7, EvIs
  <2>2. Effect("anthropic", U, n, n - 1, last, AnthropicEvent(st, s[n]))
    BY <1>1, <1>7, <2>1, StopEffect
  <2> QED BY <1>7, <2>1, <2>2
<1> QED BY <1>2, <1>3, <1>4, <1>5, <1>6, <1>7

(* What a cut leaves of it. *)
LEMMA AnthropicBlank ==
    ASSUME NEW U \in [in : Nat, out : Nat], NEW s, AnthropicIs(s, U), NEW n, n = Len(s),
           NEW k \in 0 .. n - 1, NEW st, NEW last, StateAt("anthropic", U, n, k, st),
           last \in Stages("anthropic", n, k, st.role), NEW t \in {s[k + 1].type, "unknown"}
    PROVE  BlankEffect("anthropic", U, n, k, last, AnthropicEvent(st, Ev(t)))
<1>1. /\ n \in Nat /\ n >= 4
      /\ s[1].type = "message_start" /\ s[2] = Ev("ping")
      /\ \A i \in 3 .. n - 2 : s[i] \in BlockEvents
      /\ s[n - 1].type = "message_delta" /\ s[n] = Ev("message_stop")
  BY DEF AnthropicIs
<1>0. "anthropic" \notin {"gemini", "cohere"}
  OBVIOUS
<1>2. k = 0 \/ k = 1 \/ k \in 2 .. n - 3 \/ k = n - 2 \/ k = n - 1
  BY <1>1
<1>3. Ev(t).type = t /\ Ev(t).parts = <<>> /\ Ev(t).usage = NoUsage
  BY EvIs
<1> DEFINE e == Ev(t)
           Goal == BlankEffect("anthropic", U, n, k, last, AnthropicEvent(st, e))
<1> HIDE DEF e
<1>4. ASSUME NEW x, AnthropicEvent(st, e) = Yield(x, <<>>)
      PROVE  Goal
  <2>1. ChunksOK(<<>>, last, {U})
    BY NoChunks
  <2> QED BY <1>0, <1>4, <2>1, YieldIs DEF BlankEffect
<1>e. e.type = t /\ e.parts = <<>> /\ e.usage = NoUsage
  BY <1>3 DEF e
<1>5. CASE t \in {"ping", "unknown"}
  <2>1. AnthropicEvent(st, e) = Yield(st, <<>>)
    BY <1>e, <1>5, AnthropicArms
  <2>2. Goal
    BY <1>4, <2>1
  <2> QED BY <2>2 DEF e
<1>6. CASE t \in {"content_block_start", "content_block_delta"}
  <2>1. AnthropicEvent(st, e) = Yield(st, <<>>)
    BY <1>e, <1>6, AnthropicArms
  <2>2. Goal
    BY <1>4, <2>1
  <2> QED BY <2>2 DEF e
<1>7. CASE t = "message_delta"
  <2>1. AnthropicEvent(st, e) = Yield(Ending(st, e), <<>>)
    BY <1>e, <1>7, AnthropicArms
  <2>2. Goal
    BY <1>4, <2>1
  <2> QED BY <2>2 DEF e
<1>8. CASE k = 0 /\ t = "message_start"
  BY <1>1, <1>3, <1>8, StartEffect
<1>9. CASE k = n - 1 /\ t = "message_stop"
  BY <1>1, <1>3, <1>9, StopEffect
<1>10. /\ k = 0 => s[k + 1].type = "message_start"
       /\ k = 1 => s[k + 1].type = "ping"
       /\ k \in 2 .. n - 3 => s[k + 1].type \in {"content_block_start", "content_block_delta"}
       /\ k = n - 2 => s[k + 1].type = "message_delta"
       /\ k = n - 1 => s[k + 1].type = "message_stop"
  <2>1. k \in 2 .. n - 3 => k + 1 \in 3 .. n - 2
    BY <1>1
  <2>2. k \in 2 .. n - 3 => s[k + 1].type \in {"content_block_start", "content_block_delta"}
    BY <1>1, <2>1 DEF BlockEvents, IsBlock
  <2>3. s[2].type = "ping" /\ s[n].type = "message_stop"
    BY <1>1, EvIs
  <2>4. /\ k = 0 => s[k + 1] = s[1]
        /\ k = 1 => s[k + 1] = s[2]
        /\ k = n - 2 => s[k + 1] = s[n - 1]
        /\ k = n - 1 => s[k + 1] = s[n]
    BY <1>1
  <2> QED BY <1>1, <2>2, <2>3, <2>4
<1> QED BY <1>2, <1>5, <1>6, <1>7, <1>8, <1>9, <1>10

(* The Gemini adapter's turn. *)
Framed(st, ev) ==
    [st EXCEPT !.usage = IF ev.usage.in + ev.usage.out > 0 THEN ev.usage ELSE @,
               !.reason = IF ev.reason = NoReason THEN @ ELSE ev.reason,
               !.role = @ \/ ev.parts # <<>>,
               !.tools = @ + Len(SelectSeq(ev.parts, LAMBDA part : part.tool))]
FrameChunk(st, ev, i) ==
    IF ev.parts[i].tool
    THEN makeToolCallChunk(st.tools + ToolsBefore(ev.parts, i), ev.parts[i].name,
                           Stringified(ev.parts[i].args))
    ELSE makeContentChunk(ev.parts[i].text)
FrameChunks(st, ev) == [i \in DOMAIN ev.parts |-> FrameChunk(st, ev, i)]

(* The Gemini adapter's turn. *)
LEMMA GeminiTurn ==
    ASSUME NEW st, NEW ev
    PROVE  GeminiEvent(st, ev) =
             Yield(Framed(st, ev), IF ev.parts = <<>> THEN <<>>
                                   ELSE EmitRole(st) \o FrameChunks(st, ev))
BY DEF GeminiEvent, Framed, FrameChunks, FrameChunk

(* Its locals after a frame. *)
LEMMA FramedIs ==
    ASSUME NEW st, NEW ev, DOMAIN st = Fields, st.role \in BOOLEAN
    PROVE  /\ DOMAIN Framed(st, ev) = Fields
           /\ Framed(st, ev).role = (st.role \/ ev.parts # <<>>)
           /\ Framed(st, ev).usage
                = IF ev.usage.in + ev.usage.out > 0 THEN ev.usage ELSE st.usage
<1> DEFINE w == IF ev.usage.in + ev.usage.out > 0 THEN ev.usage ELSE st.usage
           r == IF ev.reason = NoReason THEN st.reason ELSE ev.reason
           o == st.role \/ ev.parts # <<>>
           t == st.tools + Len(SelectSeq(ev.parts, LAMBDA part : part.tool))
           q == [st EXCEPT !.usage = w, !.reason = r]
           p == [q EXCEPT !.role = o]
<1>1. Framed(st, ev) = [st EXCEPT !.usage = w, !.reason = r, !.role = o, !.tools = t]
  BY DEF Framed
<1> HIDE DEF w, r, o, t
<1>2. DOMAIN Framed(st, ev) = Fields
  BY <1>1 DEF Fields
<1>3. Framed(st, ev).role = o
  BY <1>1 DEF Fields
<1>4. Framed(st, ev).usage = w
  BY <1>1 DEF Fields
<1> QED BY <1>2, <1>3, <1>4 DEF o, w

(* A frame of one part makes one delta. *)
LEMMA FrameOne ==
    ASSUME NEW st, NEW ev, NEW p \in Bits, ev.parts = <<p>>
    PROVE  /\ FrameChunks(st, ev) = <<FrameChunk(st, ev, 1)>>
           /\ IsDelta(FrameChunk(st, ev, 1))
<1> DEFINE c == FrameChunk(st, ev, 1)
<1>1. ev.parts[1] = p /\ DOMAIN ev.parts = {1}
  OBVIOUS
<1>2. p.text \in Nat
  BY BitsOK DEF PartOK
<1>3. IsDelta(c)
  <2>1. CASE p.tool
    BY <1>1, <2>1, ToolChunk DEF FrameChunk, IsDelta
  <2>2. CASE ~p.tool
    BY <1>1, <1>2, <2>2, ContentChunk DEF FrameChunk, IsDelta
  <2> QED BY <2>1, <2>2
<1>4. FrameChunks(st, ev) = [i \in {1} |-> c]
  BY <1>1 DEF FrameChunks
<1> HIDE DEF c
<1>5. [i \in {1} |-> c] = <<c>>
  OBVIOUS
<1> QED BY <1>3, <1>4, <1>5 DEF c

(* A usage of nothing is noted all the same. *)
LEMMA ZeroUsage ==
    ASSUME NEW U \in [in : Nat, out : Nat]
    PROVE  (IF U.in + U.out > 0 THEN U ELSE Zero) = U
<1>1. CASE U.in + U.out > 0
  BY <1>1
<1>2. CASE ~(U.in + U.out > 0)
  <2>1. U.in = 0 /\ U.out = 0
    BY <1>2
  <2> QED BY <1>2, <2>1 DEF Zero
<1> QED BY <1>1, <1>2

(* No usage is not noted. *)
LEMMA BlankUsage == ~(NoUsage.in + NoUsage.out > 0)
BY DEF NoUsage

(* What an event tells of the usage makes the usage of the initial one. *)
LEMMA ToldUsage ==
    ASSUME NEW U \in [in : Nat, out : Nat], NEW v, Tells(v, U)
    PROVE  (IF v.in + v.out > 0 THEN v ELSE Zero) = U
<1>1. CASE v = U
  BY <1>1, ZeroUsage
<1>2. CASE v = NoUsage /\ U = Zero
  BY <1>2, BlankUsage
<1> QED BY <1>1, <1>2 DEF Tells

(* Every frame has the effect that StateAt and Stages expect of it. *)
LEMMA GeminiEffect ==
    ASSUME NEW U \in [in : Nat, out : Nat], NEW s, GeminiIs(s, U), NEW n, n = Len(s),
           NEW k \in 0 .. n - 1, NEW st, NEW last, StateAt("gemini", U, n, k, st),
           last \in Stages("gemini", n, k, st.role)
    PROVE  Effect("gemini", U, n, k, last, GeminiEvent(st, s[k + 1]))
<1> DEFINE ev == s[k + 1]
           next == Framed(st, ev)
           cs == FrameChunks(st, ev)
           rs == EmitRole(st)
           mid == KindOf(rs, last)
           all == rs \o cs
<1>1. /\ n \in Nat /\ n >= 1 /\ \A i \in 1 .. n - 1 : s[i] \in FrameEvents
      /\ s[n].parts = <<>> /\ Tells(s[n].usage, U)
  BY DEF GeminiIs
<1>2. /\ DOMAIN st = Fields /\ st.role \in BOOLEAN /\ st.usage = Zero
      /\ last \in IF st.role THEN Deltas ELSE {"none"}
  BY <1>1 DEF StateAt, UsageAt, Stages
<1>3. "gemini" \notin {"openai", "mistral"}
  OBVIOUS
<1>4. /\ DOMAIN next = Fields /\ next.role = (st.role \/ ev.parts # <<>>)
      /\ next.usage = IF ev.usage.in + ev.usage.out > 0 THEN ev.usage ELSE Zero
  <2>1. /\ DOMAIN next = Fields /\ next.role = (st.role \/ ev.parts # <<>>)
        /\ next.usage = IF ev.usage.in + ev.usage.out > 0 THEN ev.usage ELSE st.usage
    BY <1>2, FramedIs
  <2> QED BY <1>2, <2>1
<1>5. GeminiEvent(st, ev) =
        Yield(next, IF ev.parts = <<>> THEN <<>> ELSE all)
  BY GeminiTurn
<1>6. ASSUME next.usage = UsageAt("gemini", U, n, k + 1) PROVE StateAt("gemini", U, n, k + 1, next)
  <2>1. next.role \in BOOLEAN
    BY <1>2, <1>4
  <2> QED BY <1>4, <1>6, <2>1 DEF StateAt
<1>7. CASE k + 1 < n
  <2>1. k + 1 \in 1 .. n - 1
    BY <1>1, <1>7
  <2>2. ev \in FrameEvents
    BY <1>1, <2>1
  <2>3. PICK p \in Bits : ev = Carrying("frame", <<p>>)
    BY <2>2 DEF FrameEvents
  <2>4. ev.parts = <<p>> /\ ev.usage = NoUsage
    BY <2>3, CarryingIs
  <2> HIDE DEF ev
  <2>5. ev.parts # <<>>
    BY <2>4, PartsOne
  <2>6. next.usage = UsageAt("gemini", U, n, k + 1)
    <3>1. next.usage = Zero
      BY <1>4, <2>4, BlankUsage
    <3> QED BY <1>7, <3>1, <1>1 DEF UsageAt
  <2>7. next.role = TRUE
    BY <1>4, <2>5
  <2>8. cs = <<FrameChunk(st, ev, 1)>> /\ IsDelta(FrameChunk(st, ev, 1))
    BY <2>4, FrameOne
  <2> HIDE DEF cs, next
  <2>9. ChunksOK(rs, last, {U}) /\ mid \in Deltas
    <3>1. RoleStage(st, last)
      BY <1>2 DEF RoleStage
    <3> QED BY <3>1, RoleEmits
  <2> HIDE DEF rs, mid
  <2>10. /\ ChunksOK(cs, mid, {U})
         /\ KindOf(cs, mid) \in Deltas
    BY <2>8, <2>9, DeltaOne
  <2>11. ChunksOK(all, last, {U} \cup {U}) /\ KindOf(all, last) \in Deltas
    <3> DEFINE V == {U}
    <3>1. ChunksOK(rs, last, V) /\ ChunksOK(cs, KindOf(rs, last), V)
      BY <2>9, <2>10 DEF mid
    <3> HIDE DEF V
    <3>2. ChunksOK(all, last, V \cup V) /\ KindOf(all, last) = KindOf(cs, KindOf(rs, last))
      BY <3>1, MoreChunks
    <3> QED BY <2>10, <3>2 DEF V, mid
  <2> HIDE DEF all
  <2>12. {U} \cup {U} = {U}
    OBVIOUS
  <2>13. ChunksOK(all, last, {U})
    BY <2>11, <2>12
  <2>14. KindOf(all, last) \in Stages("gemini", n, k + 1, next.role)
    BY <2>7, <2>11 DEF Stages
  <2>15. Effect("gemini", U, n, k, last, Yield(next, all))
    BY <1>3, <1>6, <2>6, <2>13, <2>14, GoesOn
  <2> QED BY <1>5, <2>5, <2>15 DEF ev
<1>8. CASE k + 1 = n
  <2>1. ev.parts = <<>> /\ Tells(ev.usage, U)
    BY <1>1, <1>8
  <2> HIDE DEF ev
  <2>2. next.usage = UsageAt("gemini", U, n, k + 1)
    <3>1. next.usage = U
      BY <1>4, <2>1, ToldUsage
    <3> QED BY <1>8, <3>1 DEF UsageAt
  <2>3. next.role = st.role
    BY <1>2, <1>4, <2>1
  <2> HIDE DEF next
  <2>4. ChunksOK(<<>>, last, {U}) /\ KindOf(<<>>, last) \in Stages("gemini", n, k + 1, next.role)
    BY <1>2, <2>3, NoChunks DEF Stages
  <2>5. Effect("gemini", U, n, k, last, Yield(next, <<>>))
    BY <1>3, <1>6, <2>2, <2>4, GoesOn
  <2> QED BY <1>5, <2>1, <2>5 DEF ev
<1> QED BY <1>1, <1>7, <1>8

(* A frame that did not parse has none. *)
LEMMA GeminiBlank ==
    ASSUME NEW U, NEW n \in Nat, NEW k \in 0 .. n, NEW st, NEW last,
           StateAt("gemini", U, n, k, st), last \in Stages("gemini", n, k, st.role)
    PROVE  BlankEffect("gemini", U, n, k, last, GeminiEvent(st, Ev("unknown")))
<1> DEFINE ev == Ev("unknown")
           next == Framed(st, ev)
<1>1. ev.parts = <<>> /\ ev.usage = NoUsage
  BY EvIs
<1> HIDE DEF ev
<1>2. /\ DOMAIN st = Fields /\ st.role \in BOOLEAN /\ st.usage = UsageAt("gemini", U, n, k)
      /\ last \in IF st.role THEN Deltas ELSE {"none"}
  BY DEF StateAt, Stages
<1>3. /\ next.role = (st.role \/ ev.parts # <<>>)
      /\ next.usage = IF ev.usage.in + ev.usage.out > 0 THEN ev.usage ELSE st.usage
  BY <1>2, FramedIs
<1>4. next.role = st.role /\ next.usage = UsageAt("gemini", U, n, k)
  <2>1. next.role = st.role
    BY <1>1, <1>2, <1>3
  <2> QED BY <1>1, <1>2, <1>3, <2>1, BlankUsage
<1>5. GeminiEvent(st, ev) = Yield(next, <<>>)
  BY <1>1, GeminiTurn
<1> HIDE DEF next
<1>6. ChunksOK(<<>>, last, {U}) /\ KindOf(<<>>, last) \in IF next.role THEN Deltas ELSE {"none"}
  BY <1>2, <1>4, NoChunks
<1>7. BlankEffect("gemini", U, n, k, last, Yield(next, <<>>))
  BY <1>2, <1>4, <1>6, GoesOnBlank
<1> QED BY <1>5, <1>7 DEF ev

(* MoreChunks, with the kind between them named. *)
LEMMA MoreOf ==
    ASSUME NEW a, NEW b, NEW last, NEW mid, NEW V, ChunksOK(a, last, V), KindOf(a, last) = mid,
           ChunksOK(b, mid, V)
    PROVE  ChunksOK(a \o b, last, V) /\ KindOf(a \o b, last) = KindOf(b, mid)
<1>1. ChunksOK(b, KindOf(a, last), V)
  OBVIOUS
<1>2. ChunksOK(a \o b, last, V \cup V) /\ KindOf(a \o b, last) = KindOf(b, KindOf(a, last))
  BY <1>1, MoreChunks
<1>3. V \cup V = V
  OBVIOUS
<1> QED BY <1>2, <1>3

(* The Cohere adapter's turn, arm by arm. *)
Opened(st) == [st EXCEPT !.role = TRUE]
OpenedCall(st) == [Opened(st) EXCEPT !.tools = @ + 1]
Concluded(st, ev) ==
    [st EXCEPT !.reason = IF ev.reason = NoReason THEN @ ELSE ev.reason,
               !.usage = IF ev.usage.in + ev.usage.out > 0 THEN ev.usage ELSE @]

(* The arms of the Cohere adapter's switch. *)
LEMMA CohereArms ==
    ASSUME NEW st, NEW ev
    PROVE  /\ ev.type = "message-start" => CohereEvent(st, ev) = Yield(Opened(st), EmitRole(st))
           /\ ev.type = "content-delta" /\ ev.parts # <<>> =>
                CohereEvent(st, ev) =
                  Yield(Opened(st), EmitRole(st) \o <<makeContentChunk(ev.parts[1].text)>>)
           /\ ev.type = "tool-call-start" /\ ev.parts # <<>> =>
                CohereEvent(st, ev) =
                  Yield(OpenedCall(st),
                        EmitRole(st) \o <<makeToolCallChunk(ev.index, ev.parts[1].name,
                                                            ev.parts[1].args)>>)
           /\ ev.type = "tool-call-delta" /\ ev.parts # <<>> =>
                CohereEvent(st, ev) =
                  Yield(st, <<makeToolCallChunk(ev.index, "none", ev.parts[1].args)>>)
           /\ ev.type = "message-end" => CohereEvent(st, ev) = Yield(Concluded(st, ev), <<>>)
           /\ ev.type \in Typed /\ ev.parts = <<>> => CohereEvent(st, ev) = Yield(st, <<>>)
           /\ ev.type = "unknown" => CohereEvent(st, ev) = Yield(st, <<>>)
<1>1. ASSUME ev.type = "message-start"
      PROVE  CohereEvent(st, ev) = Yield(Opened(st), EmitRole(st))
  BY <1>1 DEF CohereEvent, Opened
<1>2. ASSUME ev.type = "content-delta", ev.parts # <<>>
      PROVE  CohereEvent(st, ev) =
                  Yield(Opened(st), EmitRole(st) \o <<makeContentChunk(ev.parts[1].text)>>)
  BY <1>2 DEF CohereEvent, Opened
<1>3. ASSUME ev.type = "tool-call-start", ev.parts # <<>>
      PROVE  CohereEvent(st, ev) =
                  Yield(OpenedCall(st),
                        EmitRole(st) \o <<makeToolCallChunk(ev.index, ev.parts[1].name,
                                                            ev.parts[1].args)>>)
  BY <1>3 DEF CohereEvent, Opened, OpenedCall
<1>4. ASSUME ev.type = "tool-call-delta", ev.parts # <<>>
      PROVE  CohereEvent(st, ev) =
                  Yield(st, <<makeToolCallChunk(ev.index, "none", ev.parts[1].args)>>)
  BY <1>4 DEF CohereEvent
<1>5. ASSUME ev.type = "message-end"
      PROVE  CohereEvent(st, ev) = Yield(Concluded(st, ev), <<>>)
  BY <1>5 DEF CohereEvent, Concluded
<1>6. ASSUME ev.type \in Typed, ev.parts = <<>> PROVE CohereEvent(st, ev) = Yield(st, <<>>)
  BY <1>6 DEF CohereEvent, Typed
<1>7. ASSUME ev.type = "unknown" PROVE CohereEvent(st, ev) = Yield(st, <<>>)
  BY <1>7 DEF CohereEvent
<1> QED BY <1>1, <1>2, <1>3, <1>4, <1>5, <1>6, <1>7

(* Its locals after an event. *)
LEMMA OpenedIs ==
    ASSUME NEW st, DOMAIN st = Fields
    PROVE  /\ DOMAIN Opened(st) = Fields /\ Opened(st).role = TRUE
           /\ Opened(st).usage = st.usage
           /\ DOMAIN OpenedCall(st) = Fields /\ OpenedCall(st).role = TRUE
           /\ OpenedCall(st).usage = st.usage
<1> DEFINE q == Opened(st)
<1>1. DOMAIN q = Fields /\ q.role = TRUE /\ q.usage = st.usage
  BY DEF Opened, Fields
<1> HIDE DEF q
<1>2. OpenedCall(st) = [q EXCEPT !.tools = q.tools + 1]
  BY DEF OpenedCall, q
<1>3. /\ DOMAIN OpenedCall(st) = Fields /\ OpenedCall(st).role = TRUE
      /\ OpenedCall(st).usage = st.usage
  BY <1>1, <1>2 DEF Fields
<1> QED BY <1>1, <1>3 DEF q

LEMMA ConcludedIs ==
    ASSUME NEW st, NEW ev, DOMAIN st = Fields
    PROVE  /\ DOMAIN Concluded(st, ev) = Fields /\ Concluded(st, ev).role = st.role
           /\ Concluded(st, ev).usage
                = IF ev.usage.in + ev.usage.out > 0 THEN ev.usage ELSE st.usage
<1> DEFINE w == IF ev.usage.in + ev.usage.out > 0 THEN ev.usage ELSE st.usage
           r == IF ev.reason = NoReason THEN st.reason ELSE ev.reason
<1>1. Concluded(st, ev) = [st EXCEPT !.reason = r, !.usage = w]
  BY DEF Concluded
<1> HIDE DEF w, r
<1>2. /\ DOMAIN Concluded(st, ev) = Fields /\ Concluded(st, ev).role = st.role
      /\ Concluded(st, ev).usage = w
  BY <1>1 DEF Fields
<1> QED BY <1>2 DEF w

(* Every Cohere event has the effect that StateAt and Stages expect of it. *)
LEMMA CohereEffect ==
    ASSUME NEW U \in [in : Nat, out : Nat], NEW parts, NEW s, CohereIs(s, parts, U),
           NEW n, n = Len(s),
           NEW k \in 0 .. n - 1, NEW st, NEW last, StateAt("cohere", U, n, k, st),
           last \in Stages("cohere", n, k, st.role)
    PROVE  Effect("cohere", U, n, k, last, CohereEvent(st, s[k + 1]))
<1> DEFINE ev == s[k + 1]
           rs == EmitRole(st)
           mid == KindOf(rs, last)
<1>a. n \in Nat /\ n >= 2
  BY DEF CohereIs
<1>1. /\ s[1].type = "message-start"
      /\ \A i \in 2 .. n - 1 : s[i] \in TypedEvents(parts)
      /\ s[n].type = "message-end" /\ Tells(s[n].usage, U)
  BY EvIs DEF CohereIs
<1>b. k = 0 \/ k \in 1 .. n - 2 \/ k = n - 1
  BY <1>a
<1>2. DOMAIN st = Fields /\ st.role \in BOOLEAN /\ st.role = (k >= 1)
  BY DEF StateAt
<1>c. st.usage = Zero
  <2>1. st.usage = UsageAt("cohere", U, n, k) /\ k # n
    BY <1>a DEF StateAt
  <2> QED BY <2>1 DEF UsageAt
<1>3. last \in IF st.role THEN Deltas ELSE {"none"}
  BY DEF Stages
<1>4. ChunksOK(rs, last, {U}) /\ mid \in Deltas
  <2>1. st.role \in BOOLEAN
    BY <1>2
  <2> DEFINE V == {U}
  <2> HIDE DEF V
  <2>2. ChunksOK(EmitRole(st), last, V) /\ KindOf(EmitRole(st), last) \in Deltas
    <3>1. RoleStage(st, last)
      BY <1>3, <2>1 DEF RoleStage
    <3> QED BY <3>1, RoleEmits
  <2> QED BY <2>2 DEF V
<1>5. "cohere" \notin {"openai", "mistral"}
  OBVIOUS
<1>6. ASSUME NEW next, DOMAIN next = Fields, next.role = TRUE, next.usage = UsageAt("cohere", U, n, k + 1),
             NEW cs, ChunksOK(cs, last, {U}), KindOf(cs, last) \in Deltas
      PROVE  Effect("cohere", U, n, k, last, Yield(next, cs))
  <2>1. k + 1 >= 1
    BY <1>a
  <2>2. StateAt("cohere", U, n, k + 1, next)
    BY <1>6, <2>1 DEF StateAt
  <2>3. KindOf(cs, last) \in Stages("cohere", n, k + 1, next.role)
    BY <1>6 DEF Stages
  <2> QED BY <1>5, <1>6, <2>2, <2>3, GoesOn
<1>7. /\ DOMAIN Opened(st) = Fields /\ Opened(st).role = TRUE /\ Opened(st).usage = Zero
      /\ DOMAIN OpenedCall(st) = Fields /\ OpenedCall(st).role = TRUE
      /\ OpenedCall(st).usage = Zero
  BY <1>2, <1>c, OpenedIs
<1>8. k + 1 # n => UsageAt("cohere", U, n, k + 1) = Zero
  BY DEF UsageAt
<1>9. CASE k = 0
  <2>1. ev.type = "message-start" /\ k + 1 # n
    BY <1>1, <1>a, <1>9
  <2> HIDE DEF ev
  <2>2. CohereEvent(st, ev) = Yield(Opened(st), rs)
    BY <2>1, CohereArms
  <2> HIDE DEF rs
  <2>3. Opened(st).usage = UsageAt("cohere", U, n, k + 1)
    BY <1>7, <1>8, <2>1
  <2>4. Effect("cohere", U, n, k, last, Yield(Opened(st), rs))
    BY <1>4, <1>6, <1>7, <2>3
  <2> QED BY <2>2, <2>4 DEF ev
<1>10. CASE k \in 1 .. n - 2
  <2>1. k + 1 \in 2 .. n - 1 /\ k + 1 # n /\ k >= 1
    BY <1>a, <1>10
  <2>2. IsTyped(ev)
    BY <1>1, <2>1 DEF TypedEvents
  <2> HIDE DEF ev
  <2>3. PICK p \in Bits : ev.parts = <<p>>
    BY <2>2 DEF IsTyped
  <2>4. ev.parts # <<>> /\ ev.parts[1] = p
    BY <2>3, PartsOne
  <2>5. ev.parts[1].text \in Nat
    BY <2>4, BitsOK DEF PartOK
  <2>6. st.role = TRUE /\ last \in Deltas
    BY <1>2, <1>3, <2>1
  <2>7. UsageAt("cohere", U, n, k + 1) = Zero
    BY <1>8, <2>1
  <2>8. ASSUME NEW c, IsDelta(c)
        PROVE  ChunksOK(rs \o <<c>>, last, {U}) /\ KindOf(rs \o <<c>>, last) \in Deltas
    <3> HIDE DEF rs, mid
    <3> DEFINE cs == <<c>>
               V == {U}
    <3>1. ChunksOK(cs, mid, V) /\ KindOf(cs, mid) \in Deltas
      BY <1>4, <2>8, DeltaOne
    <3>2. ChunksOK(rs, last, V) /\ KindOf(rs, last) = mid
      BY <1>4 DEF mid
    <3> HIDE DEF cs, V
    <3>3. ChunksOK(rs \o cs, last, V) /\ KindOf(rs \o cs, last) = KindOf(cs, mid)
      BY <3>1, <3>2, MoreOf
    <3> QED BY <3>1, <3>3 DEF cs, V
  <2>9. CASE ev.type = "content-delta"
    <3> DEFINE c == makeContentChunk(ev.parts[1].text)
    <3>1. IsDelta(c)
      BY <2>5, ContentChunk DEF IsDelta
    <3>2. CohereEvent(st, ev) = Yield(Opened(st), rs \o <<c>>)
      BY <2>4, <2>9, CohereArms
    <3> HIDE DEF c, rs
    <3>3. ChunksOK(rs \o <<c>>, last, {U}) /\ KindOf(rs \o <<c>>, last) \in Deltas
      BY <2>8, <3>1
    <3> DEFINE cs == rs \o <<c>>
               next == Opened(st)
    <3>4. /\ ChunksOK(cs, last, {U}) /\ KindOf(cs, last) \in Deltas
          /\ DOMAIN next = Fields /\ next.role = TRUE /\ next.usage = UsageAt("cohere", U, n, k + 1)
      BY <1>7, <2>7, <3>3
    <3> HIDE DEF cs, next
    <3>5. Effect("cohere", U, n, k, last, Yield(next, cs))
      BY <1>6, <3>4
    <3> QED BY <3>2, <3>5 DEF ev, cs, next
  <2>10. CASE ev.type = "tool-call-start"
    <3> DEFINE c == makeToolCallChunk(ev.index, ev.parts[1].name, ev.parts[1].args)
    <3>1. IsDelta(c)
      BY ToolChunk DEF IsDelta
    <3>2. CohereEvent(st, ev) = Yield(OpenedCall(st), rs \o <<c>>)
      BY <2>4, <2>10, CohereArms
    <3> HIDE DEF c, rs
    <3>3. ChunksOK(rs \o <<c>>, last, {U}) /\ KindOf(rs \o <<c>>, last) \in Deltas
      BY <2>8, <3>1
    <3> DEFINE cs == rs \o <<c>>
               next == OpenedCall(st)
    <3>4. /\ ChunksOK(cs, last, {U}) /\ KindOf(cs, last) \in Deltas
          /\ DOMAIN next = Fields /\ next.role = TRUE /\ next.usage = UsageAt("cohere", U, n, k + 1)
      BY <1>7, <2>7, <3>3
    <3> HIDE DEF cs, next
    <3>5. Effect("cohere", U, n, k, last, Yield(next, cs))
      BY <1>6, <3>4
    <3> QED BY <3>2, <3>5 DEF ev, cs, next
  <2>11. CASE ev.type = "tool-call-delta"
    <3> DEFINE c == makeToolCallChunk(ev.index, "none", ev.parts[1].args)
    <3>1. IsDelta(c)
      BY ToolChunk DEF IsDelta
    <3>2. CohereEvent(st, ev) = Yield(st, <<c>>)
      BY <2>4, <2>11, CohereArms
    <3> HIDE DEF c
    <3>3. ChunksOK(<<c>>, last, {U}) /\ KindOf(<<c>>, last) \in Deltas
      BY <2>6, <3>1, DeltaOne
    <3>4. st.usage = UsageAt("cohere", U, n, k + 1)
      BY <1>c, <2>7
    <3>5. Effect("cohere", U, n, k, last, Yield(st, <<c>>))
      BY <1>2, <1>6, <2>6, <3>3, <3>4
    <3> QED BY <3>2, <3>5 DEF ev
  <2> QED BY <2>2, <2>9, <2>10, <2>11 DEF IsTyped, Typed
<1>11. CASE k = n - 1
  <2>1. ev.type = "message-end" /\ Tells(ev.usage, U) /\ k + 1 = n /\ k >= 1
    BY <1>1, <1>a, <1>11
  <2> HIDE DEF ev
  <2> DEFINE next == Concluded(st, ev)
  <2>2. CohereEvent(st, ev) = Yield(next, <<>>)
    BY <2>1, CohereArms
  <2>3. /\ DOMAIN next = Fields /\ next.role = st.role
        /\ next.usage = IF ev.usage.in + ev.usage.out > 0 THEN ev.usage ELSE st.usage
    BY <1>2, ConcludedIs
  <2> HIDE DEF next
  <2>4. next.usage = U
    BY <1>c, <2>1, <2>3, ToldUsage
  <2>5. UsageAt("cohere", U, n, k + 1) = U
    BY <2>1 DEF UsageAt
  <2>6. st.role = TRUE /\ last \in Deltas
    BY <1>2, <1>3, <2>1
  <2>7. ChunksOK(<<>>, last, {U}) /\ KindOf(<<>>, last) \in Deltas
    BY <2>6, NoChunks
  <2>8. Effect("cohere", U, n, k, last, Yield(next, <<>>))
    BY <1>6, <2>3, <2>4, <2>5, <2>6, <2>7
  <2> QED BY <2>2, <2>8 DEF ev
<1> QED BY <1>b, <1>9, <1>10, <1>11

(* One that did not parse, or that lost its data and kept its name, breaks  *)
(* neither the order nor the usage.                                         *)
LEMMA CohereBlank ==
    ASSUME NEW U, NEW parts, NEW s, CohereIs(s, parts, U), NEW n, n = Len(s),
           NEW k \in 0 .. n - 1, NEW st, NEW last, StateAt("cohere", U, n, k, st),
           last \in Stages("cohere", n, k, st.role), NEW t \in {s[k + 1].type, "unknown"}
    PROVE  BlankEffect("cohere", U, n, k, last, CohereEvent(st, Ev(t)))
<1> DEFINE ev == Ev(t)
           rs == EmitRole(st)
<1>a. n \in Nat /\ n >= 2
  BY DEF CohereIs
<1>1. /\ s[1].type = "message-start"
      /\ \A i \in 2 .. n - 1 : s[i] \in TypedEvents(parts)
      /\ s[n].type = "message-end"
  BY EvIs DEF CohereIs
<1>b. k = 0 \/ k \in 1 .. n - 2 \/ k = n - 1
  BY <1>a
<1>2. /\ DOMAIN st = Fields /\ st.role \in BOOLEAN /\ st.usage = UsageAt("cohere", U, n, k)
  BY DEF StateAt
<1>3. last \in IF st.role THEN Deltas ELSE {"none"}
  BY DEF Stages
<1>4. ev.type = t /\ ev.parts = <<>> /\ ev.usage = NoUsage
  BY EvIs
<1> HIDE DEF ev
<1>5. t \in Typed \cup {"message-start", "message-end", "unknown"}
  <2>1. CASE k = 0
    BY <1>1, <2>1
  <2>2. CASE k = n - 1
    BY <1>1, <1>a, <2>2
  <2>3. CASE k \in 1 .. n - 2
    <3>1. k + 1 \in 2 .. n - 1
      BY <1>a, <2>3
    <3>2. s[k + 1].type \in Typed
      BY <1>1, <3>1 DEF TypedEvents, IsTyped
    <3> QED BY <3>2
  <2> QED BY <1>b, <2>1, <2>2, <2>3
<1>6. ChunksOK(<<>>, last, {U}) /\ KindOf(<<>>, last) = last
  BY NoChunks
<1>7. CASE t \in Typed \cup {"unknown"}
  <2>1. CohereEvent(st, ev) = Yield(st, <<>>)
    BY <1>4, <1>7, CohereArms
  <2>2. BlankEffect("cohere", U, n, k, last, Yield(st, <<>>))
    BY <1>2, <1>3, <1>6, GoesOnBlank
  <2> QED BY <2>1, <2>2 DEF ev
<1>8. CASE t = "message-start"
  <2> DEFINE next == Opened(st)
  <2>1. CohereEvent(st, ev) = Yield(next, rs)
    BY <1>4, <1>8, CohereArms
  <2>2. next.role = TRUE /\ next.usage = UsageAt("cohere", U, n, k)
    BY <1>2, OpenedIs
  <2>3. ChunksOK(rs, last, {U}) /\ KindOf(rs, last) \in Deltas
    <3>1. RoleStage(st, last)
      BY <1>2, <1>3 DEF RoleStage
    <3> QED BY <3>1, RoleEmits
  <2> HIDE DEF next, rs
  <2>4. KindOf(rs, last) \in IF next.role THEN Deltas ELSE {"none"}
    BY <2>2, <2>3
  <2>0. next.role \in BOOLEAN
    BY <2>2
  <2>5. BlankEffect("cohere", U, n, k, last, Yield(next, rs))
    BY <2>0, <2>2, <2>3, <2>4, GoesOnBlank
  <2> QED BY <2>1, <2>5 DEF ev
<1>9. CASE t = "message-end"
  <2> DEFINE next == Concluded(st, ev)
  <2>1. CohereEvent(st, ev) = Yield(next, <<>>)
    BY <1>4, <1>9, CohereArms
  <2>2. /\ next.role = st.role
        /\ next.usage = IF ev.usage.in + ev.usage.out > 0 THEN ev.usage ELSE st.usage
    BY <1>2, ConcludedIs
  <2>3. next.usage = UsageAt("cohere", U, n, k)
    BY <1>2, <1>4, <2>2, BlankUsage
  <2> HIDE DEF next
  <2>4. BlankEffect("cohere", U, n, k, last, Yield(next, <<>>))
    BY <1>2, <1>3, <1>6, <2>2, <2>3, GoesOnBlank
  <2> QED BY <2>1, <2>4 DEF ev
<1> QED BY <1>5, <1>7, <1>8, <1>9

(* The OpenAI-compatible adapters' turn. *)
LEMMA OpenAIArms ==
    ASSUME NEW st, NEW ev
    PROVE  /\ ev.type \in {"chunk", "error"} => OpenAIEvent(st, ev) = Yield(st, <<ev.chunk>>)
           /\ ev.type = "DONE" => OpenAIEvent(st, ev) = [Yield(st, <<>>) EXCEPT !.end = "return"]
           /\ ev.type = "unknown" => OpenAIEvent(st, ev) = Yield(st, <<>>)
BY DEF OpenAIEvent

(* A chunk that passes as it is. *)
LEMMA Passes ==
    ASSUME NEW A \in {"openai", "mistral"}, NEW U, NEW n \in Nat, NEW k \in 0 .. n - 2,
           NEW st, NEW last, StateAt(A, U, n, k, st),
           NEW c, NEW kind, NEW u \in {NoUsage, U}, IsChunk(c, kind, u), MayFollow(last, kind),
           kind \in Stages(A, n, k + 1, st.role),
           k + 1 = n - 1 /\ U # NoUsage => u # NoUsage
    PROVE  Effect(A, U, n, k, last, Yield(st, <<c>>))
<1>1. u \in {NoUsage} \cup {U}
  OBVIOUS
<1>2. /\ ChunksOK(<<c>>, last, {U}) /\ KindOf(<<c>>, last) = kind
      /\ u # NoUsage => HasUsage(<<c>>)
  BY <1>1, OneChunk
<1>3. StateAt(A, U, n, k + 1, st)
  <2>1. UsageAt(A, U, n, k + 1) = UsageAt(A, U, n, k)
    BY DEF UsageAt
  <2>2. k + 1 < n
    OBVIOUS
  <2>3. DOMAIN st = Fields /\ st.role \in BOOLEAN /\ st.usage = UsageAt(A, U, n, k)
    BY DEF StateAt
  <2>4. A \notin {"anthropic", "cohere"}
    OBVIOUS
  <2> QED BY <2>1, <2>2, <2>3, <2>4 DEF StateAt
<1> DEFINE cs == <<c>>
           step == Yield(st, cs)
<1> HIDE DEF cs
<1>4. step.end = "more" /\ step.chunks = cs /\ step.state = st
  BY YieldIs
<1>5. ChunksOK(cs, last, {U}) /\ KindOf(cs, last) = kind
      /\ (k + 1 = n - 1 /\ U # NoUsage => HasUsage(cs))
  BY <1>2 DEF cs
<1> HIDE DEF step
<1>6. Effect(A, U, n, k, last, step)
  BY <1>3, <1>4, <1>5 DEF Effect
<1> QED BY <1>6 DEF step, cs

(* Every chunk passes, and [DONE] ends the stream after the usage. *)
LEMMA OpenAIEffect ==
    ASSUME NEW A \in {"openai", "mistral"}, NEW U, NEW s,
           OpenAIIs(A, s, U), NEW n, n = Len(s),
           NEW k \in 0 .. n - 1, NEW st, NEW last, StateAt(A, U, n, k, st),
           last \in Stages(A, n, k, st.role)
    PROVE  Effect(A, U, n, k, last, OpenAIEvent(st, s[k + 1]))
<1>1. PICK all : /\ ChunksAre(A, all, U)
                 /\ IsSeq(s) /\ Len(s) = Len(all) + 1
                 /\ \A i \in 1 .. Len(all) : s[i].type = "chunk" /\ s[i].chunk = all[i]
                 /\ s[Len(s)] = Ev("DONE")
  BY DEF OpenAIIs
<1>2. Len(all) \in Nat /\ Len(all) = n - 1 /\ n \in Nat
  <2>1. Len(all) \in Nat
    BY <1>1 DEF ChunksAre
  <2> QED BY <1>1, <2>1
<1>3. CASE k = n - 1
  <2> DEFINE y == Yield(st, <<>>)
             step == [y EXCEPT !.end = "return"]
  <2>1. s[k + 1] = Ev("DONE")
    BY <1>1, <1>2, <1>3
  <2>2. OpenAIEvent(st, s[k + 1]) = step
    BY <2>1, EvIs, OpenAIArms, ZenonT(40)
  <2>3. step.end = "return" /\ step.chunks = <<>>
    BY DEF Yield
  <2> HIDE DEF step
  <2>4. ChunksOK(<<>>, last, {U})
    BY NoChunks
  <2> QED BY <1>3, <2>2, <2>3, <2>4 DEF Effect
<1>4. CASE k # n - 1
  <2> DEFINE c == all[k + 1]
  <2>1. k \in 0 .. n - 2 /\ k + 1 \in 1 .. Len(all)
    BY <1>2, <1>4
  <2>2. OpenAIEvent(st, s[k + 1]) = Yield(st, <<c>>)
    <3>1. s[k + 1].type = "chunk" /\ s[k + 1].chunk = c
      BY <1>1, <2>1
    <3> QED BY <3>1, OpenAIArms
  <2>3. CASE k = 0
    <3>1. IsChunk(c, "role", NoUsage)
      BY <1>1, <2>3 DEF ChunksAre
    <3>2. last = "none"
      BY <2>3 DEF Stages
    <3>3. MayFollow(last, "role") /\ "role" \in Deltas
      BY <3>2 DEF MayFollow, Deltas
    <3>4. Stages(A, n, k + 1, st.role) = Deltas /\ k + 1 # n - 1
      <4>1. CASE A = "mistral"
        <5>1. n >= 3
          BY <1>1, <1>2, <4>1 DEF ChunksAre
        <5> QED BY <1>2, <2>3, <4>1, <5>1 DEF Stages
      <4>2. CASE A = "openai"
        <5>1. n >= 4
          <6>1. Len(all) >= 3
            BY <1>1, <4>2 DEF ChunksAre
          <6> QED BY <1>2, <6>1
        <5> QED BY <1>2, <2>3, <4>2, <5>1 DEF Stages
      <4> QED BY <4>1, <4>2
    <3> HIDE DEF c
    <3>5. NoUsage \in {NoUsage, U}
      OBVIOUS
    <3>6. Effect(A, U, n, k, last, Yield(st, <<c>>))
      BY <1>2, <2>1, <3>1, <3>3, <3>4, <3>5, Passes
    <3> QED BY <2>2, <3>6
  <2>4. CASE k # 0 /\ A = "mistral"
    <3>1. /\ Len(all) >= 2 /\ IsChunk(all[Len(all)], "finish", U)
          /\ \A i \in 2 .. Len(all) - 1 : IsDelta(all[i])
      BY <1>1, <2>4 DEF ChunksAre
    <3>2. last \in Deltas
      BY <1>2, <2>1, <2>4 DEF Stages
    <3>3. MayFollow(last, "text") /\ MayFollow(last, "tool") /\ MayFollow(last, "finish")
      BY <3>2 DEF MayFollow
    <3>4. CASE k = n - 2
      <4>1. IsChunk(c, "finish", U)
        BY <1>2, <3>1, <3>4
      <4>2. "finish" \in Stages(A, n, k + 1, st.role)
        BY <1>2, <2>4, <3>4 DEF Stages
      <4> HIDE DEF c
      <4>3. Effect(A, U, n, k, last, Yield(st, <<c>>))
        BY <1>2, <2>1, <3>3, <4>1, <4>2, Passes
      <4> QED BY <2>2, <4>3
    <3>5. CASE k # n - 2
      <4>1. k + 1 \in 2 .. Len(all) - 1 /\ k + 1 # n - 1 /\ k + 1 < n - 1 /\ k + 1 # 0
        BY <1>2, <2>1, <2>4, <3>5
      <4>2. IsDelta(c)
        BY <3>1, <4>1
      <4>3. {"text", "tool"} \subseteq Stages(A, n, k + 1, st.role)
        BY <2>4, <4>1 DEF Stages, Deltas
      <4> HIDE DEF c
      <4>4. NoUsage \in {NoUsage, U}
        OBVIOUS
      <4>5. CASE IsChunk(c, "text", NoUsage)
        <5>1. Effect(A, U, n, k, last, Yield(st, <<c>>))
          BY <1>2, <2>1, <3>3, <4>1, <4>3, <4>4, <4>5, Passes
        <5> QED BY <2>2, <5>1
      <4>6. CASE IsChunk(c, "tool", NoUsage)
        <5>1. Effect(A, U, n, k, last, Yield(st, <<c>>))
          BY <1>2, <2>1, <3>3, <4>1, <4>3, <4>4, <4>6, Passes
        <5> QED BY <2>2, <5>1
      <4> QED BY <4>2, <4>5, <4>6 DEF IsDelta
    <3> QED BY <3>4, <3>5
  <2>5. CASE k # 0 /\ A = "openai"
    <3>1. /\ Len(all) >= 3 /\ IsChunk(all[Len(all) - 1], "finish", NoUsage)
          /\ IsChunk(all[Len(all)], "usage", U)
          /\ \A i \in 2 .. Len(all) - 2 : IsDelta(all[i])
      BY <1>1, <2>5 DEF ChunksAre
    <3>2. (k < n - 2 => last \in Deltas) /\ (k = n - 2 => last = "finish")
      BY <1>2, <2>1, <2>5 DEF Stages
    <3>3. /\ k < n - 2 => MayFollow(last, "text") /\ MayFollow(last, "tool") /\ MayFollow(last, "finish")
          /\ k = n - 2 => MayFollow(last, "usage")
      BY <3>2 DEF MayFollow
    <3>4. NoUsage \in {NoUsage, U}
      OBVIOUS
    <3>5. CASE k = n - 2
      <4>1. IsChunk(c, "usage", U)
        BY <1>2, <3>1, <3>5
      <4>2. "usage" \in Stages(A, n, k + 1, st.role)
        BY <1>2, <2>5, <3>5 DEF Stages
      <4> HIDE DEF c
      <4>3. Effect(A, U, n, k, last, Yield(st, <<c>>))
        BY <1>2, <2>1, <3>3, <3>5, <4>1, <4>2, Passes
      <4> QED BY <2>2, <4>3
    <3>6. CASE k = n - 3
      <4>1. IsChunk(c, "finish", NoUsage) /\ k < n - 2 /\ k + 1 # n - 1
        <5>1. k + 1 = Len(all) - 1
          BY <1>2, <3>6
        <5> QED BY <1>2, <3>1, <3>6, <5>1
      <4>2. "finish" \in Stages(A, n, k + 1, st.role)
        BY <1>2, <2>5, <3>6 DEF Stages
      <4> HIDE DEF c
      <4>3. Effect(A, U, n, k, last, Yield(st, <<c>>))
        BY <1>2, <2>1, <3>3, <3>4, <4>1, <4>2, Passes
      <4> QED BY <2>2, <4>3
    <3>7. CASE k # n - 2 /\ k # n - 3
      <4>1. /\ k + 1 \in 2 .. Len(all) - 2 /\ k + 1 # n - 1 /\ k + 1 < n - 2 /\ k + 1 # 0
            /\ k < n - 2
        BY <1>2, <2>1, <2>5, <3>7
      <4>2. IsDelta(c)
        BY <3>1, <4>1
      <4>3. {"text", "tool"} \subseteq Stages(A, n, k + 1, st.role)
        BY <2>5, <4>1 DEF Stages, Deltas
      <4> HIDE DEF c
      <4>5. CASE IsChunk(c, "text", NoUsage)
        <5>1. Effect(A, U, n, k, last, Yield(st, <<c>>))
          BY <1>2, <2>1, <3>3, <3>4, <4>1, <4>3, <4>5, Passes
        <5> QED BY <2>2, <5>1
      <4>6. CASE IsChunk(c, "tool", NoUsage)
        <5>1. Effect(A, U, n, k, last, Yield(st, <<c>>))
          BY <1>2, <2>1, <3>3, <3>4, <4>1, <4>3, <4>6, Passes
        <5> QED BY <2>2, <5>1
      <4> QED BY <4>2, <4>5, <4>6 DEF IsDelta
    <3> QED BY <3>5, <3>6, <3>7
  <2> QED BY <2>3, <2>4, <2>5
<1> QED BY <1>3, <1>4

(* A chunk that did not parse is skipped. *)
LEMMA OpenAIBlank ==
    ASSUME NEW A \in {"openai", "mistral"}, NEW U, NEW n, NEW k, NEW st, NEW last
    PROVE  BlankEffect(A, U, n, k, last, OpenAIEvent(st, Ev("unknown")))
<1>1. OpenAIEvent(st, Ev("unknown")) = Yield(st, <<>>)
  BY EvIs, OpenAIArms
<1>2. ChunksOK(<<>>, last, {U})
  BY NoChunks
<1>3. A \notin {"gemini", "cohere"}
  OBVIOUS
<1>4. BlankEffect(A, U, n, k, last, Yield(st, <<>>))
  BY <1>2, <1>3, YieldIs DEF BlankEffect
<1> QED BY <1>1, <1>4

-----------------------------------------------------------------------------
(* The adapters together. *)
AllAdapters == {"openai", "mistral", "anthropic", "gemini", "cohere"}
Usages == [in : Nat, out : Nat]

(* What an adapter knows of the cost once it has seen a whole stream. *)
CostOf(adapter, usage) ==
    IF adapter \in {"openai", "mistral"} THEN usage ELSE readUsage(usage)

(* An answer's usage. *)
LEMMA AnswerUsage ==
    ASSUME NEW answer \in Answers
    PROVE  answer.usage \in Usages \cup {NoUsage}
BY ProviderCallAssumption DEF Usages

(* Its cost: only OpenAI and Mistral may not know it. *)
LEMMA CostIs ==
    ASSUME NEW A, NEW answer \in Answers
    PROVE  /\ CostOf(A, answer.usage) \in Usages \cup {NoUsage}
           /\ A \notin {"openai", "mistral"} =>
                 /\ CostOf(A, answer.usage) \in Usages
                 /\ CostOf(A, answer.usage) = readUsage(answer.usage)
           /\ A \in {"openai", "mistral"} => CostOf(A, answer.usage) = answer.usage
           /\ answer.usage # NoUsage => CostOf(A, answer.usage) = answer.usage
<1>1. readUsage(answer.usage) \in Usages
  <2>1. Zero \in Usages
    BY DEF Zero, Usages
  <2> QED BY <2>1, AnswerUsage DEF readUsage
<1> QED BY <1>1, AnswerUsage DEF CostOf, readUsage

(* No usage is no usage. *)
LEMMA UsageIsNot ==
    ASSUME NEW u \in Usages
    PROVE  u # NoUsage
BY DEF Usages, NoUsage

(* The shape of a stream. *)
LEMMA ShapeIs ==
    ASSUME NEW A \in AllAdapters, NEW usage
    PROVE  /\ A \notin {"openai", "mistral"} => ShapeOf(A, usage) = A
           /\ A \in {"openai", "mistral"} => ShapeOf(A, usage) \in {"openai", "mistral"}
           /\ ShapeOf(A, usage) \in AllAdapters
           /\ ShapeOf(A, usage) \in {"gemini", "cohere"} <=> A \in {"gemini", "cohere"}
           /\ ShapeOf(A, usage) \in {"anthropic", "cohere"} <=> A \in {"anthropic", "cohere"}
           /\ ShapeOf(A, usage) \in {"openai", "mistral"} <=> A \in {"openai", "mistral"}
           /\ ShapeOf(A, usage) = "anthropic" <=> A = "anthropic"
BY DEF ShapeOf, AllAdapters

(* Which script and which turn an adapter has. *)
LEMMA ScriptIs ==
    ASSUME NEW answer
    PROVE  /\ Script("anthropic", answer) = AnthropicScript(answer)
           /\ Script("gemini", answer) = GeminiScript(answer)
           /\ Script("cohere", answer) = CohereScript(answer)
           /\ Script("openai", answer) = OpenAIScript("openai", answer)
           /\ Script("mistral", answer) = OpenAIScript("mistral", answer)
BY DEF Script

LEMMA NormaliseIs ==
    ASSUME NEW st, NEW ev
    PROVE  /\ Normalise("anthropic", st, ev) = AnthropicEvent(st, ev)
           /\ Normalise("gemini", st, ev) = GeminiEvent(st, ev)
           /\ Normalise("cohere", st, ev) = CohereEvent(st, ev)
           /\ Normalise("openai", st, ev) = OpenAIEvent(st, ev)
           /\ Normalise("mistral", st, ev) = OpenAIEvent(st, ev)
BY DEF Normalise

(* A script has events. *)
LEMMA ScriptLen ==
    ASSUME NEW A \in AllAdapters, NEW answer \in Answers
    PROVE  /\ IsSeq(Script(A, answer)) /\ Len(Script(A, answer)) \in Nat \ {0}
           /\ DOMAIN Script(A, answer) = 1 .. Len(Script(A, answer))
<1> DEFINE s == Script(A, answer)
<1>1. IsSeq(s) /\ Len(s) \in Nat /\ Len(s) >= 1
  <2>1. CASE A = "anthropic"
    <3>1. AnthropicIs(s, readUsage(answer.usage))
      BY <2>1, AnthropicShape, ScriptIs
    <3> HIDE DEF s
    <3>2. IsSeq(s) /\ Len(s) \in Nat /\ Len(s) >= 4
      BY <3>1, Zenon DEF AnthropicIs
    <3> QED BY <3>2
  <2>2. CASE A = "gemini"
    <3>1. GeminiIs(s, readUsage(answer.usage))
      BY <2>2, GeminiShape, ScriptIs
    <3> HIDE DEF s
    <3> QED BY <3>1, Zenon DEF GeminiIs
  <2>3. CASE A = "cohere"
    <3>1. CohereIs(s, answer.parts, readUsage(answer.usage))
      BY <2>3, CohereShape, ScriptIs
    <3> HIDE DEF s
    <3>2. IsSeq(s) /\ Len(s) \in Nat /\ Len(s) >= 2
      BY <3>1, Zenon DEF CohereIs
    <3> QED BY <3>2
  <2>4. CASE A \in {"openai", "mistral"}
    <3>1. OpenAIIs(ShapeOf(A, answer.usage), s, answer.usage)
      BY <2>4, OpenAIShape, ScriptIs
    <3> HIDE DEF s
    <3>2. PICK all : ChunksAre(ShapeOf(A, answer.usage), all, answer.usage) /\ IsSeq(s) /\ Len(s) = Len(all) + 1
      BY <3>1, Zenon DEF OpenAIIs
    <3>3. Len(all) \in Nat
      BY <3>2, Zenon DEF ChunksAre
    <3> QED BY <3>2, <3>3
  <2> QED BY <2>1, <2>2, <2>3, <2>4 DEF AllAdapters
<1> HIDE DEF s
<1>2. IsSeq(s) /\ Len(s) \in Nat \ {0} /\ DOMAIN s = 1 .. Len(s)
  BY <1>1, SeqDomain
<1> QED BY <1>2 DEF s

(* What an event, or what is left of it, does. *)
LEMMA TurnIs ==
    ASSUME NEW A \in AllAdapters, NEW answer \in Answers, NEW s, s = Script(A, answer),
           NEW S, S = ShapeOf(A, answer.usage), NEW U, U = CostOf(A, answer.usage),
           NEW n, n = Len(s), NEW k \in 0 .. n - 1, NEW st, NEW last,
           StateAt(S, U, n, k, st), last \in Stages(S, n, k, st.role)
    PROVE  /\ Effect(S, U, n, k, last, Normalise(A, st, s[k + 1]))
           /\ BlankEffect(S, U, n, k, last, Normalise(A, st, Ev("unknown")))
           /\ A \in {"anthropic", "cohere"} =>
                 BlankEffect(S, U, n, k, last, Normalise(A, st, Ev(s[k + 1].type)))
<1> DEFINE t == s[k + 1].type
<1>0. /\ A \notin {"openai", "mistral"} =>
            S = A /\ U = readUsage(answer.usage) /\ U \in [in : Nat, out : Nat]
      /\ A \in {"openai", "mistral"} => S \in {"openai", "mistral"} /\ U = answer.usage
  <2>1. /\ A \notin {"openai", "mistral"} => S = A
        /\ A \in {"openai", "mistral"} => S \in {"openai", "mistral"}
    BY ShapeIs
  <2>2. /\ A \notin {"openai", "mistral"} => U \in Usages /\ U = readUsage(answer.usage)
        /\ A \in {"openai", "mistral"} => U = answer.usage
    BY CostIs
  <2> QED BY <2>1, <2>2 DEF Usages
<1> HIDE DEF t
<1>n. n \in Nat /\ k \in 0 .. n
  <2>1. n \in Nat
    BY ScriptLen
  <2> QED BY <2>1
<1>1. CASE A = "anthropic"
  <2>0. S = "anthropic" /\ U = readUsage(answer.usage) /\ U \in [in : Nat, out : Nat]
    BY <1>0, <1>1
  <2>1. AnthropicIs(s, U)
    BY <1>1, <2>0, AnthropicShape, ScriptIs
  <2>2. StateAt("anthropic", U, n, k, st) /\ last \in Stages("anthropic", n, k, st.role)
    BY <2>0
  <2>3. Effect("anthropic", U, n, k, last, AnthropicEvent(st, s[k + 1]))
    BY <2>0, <2>1, <2>2, AnthropicEffect
  <2>4. /\ BlankEffect("anthropic", U, n, k, last, AnthropicEvent(st, Ev("unknown")))
        /\ BlankEffect("anthropic", U, n, k, last, AnthropicEvent(st, Ev(t)))
    <3>1. t \in {s[k + 1].type, "unknown"} /\ "unknown" \in {s[k + 1].type, "unknown"}
      BY DEF t
    <3> QED BY <2>0, <2>1, <2>2, <3>1, AnthropicBlank
  <2> QED BY <1>1, <2>0, <2>3, <2>4, NormaliseIs DEF t
<1>2. CASE A = "gemini"
  <2>0. S = "gemini" /\ U = readUsage(answer.usage) /\ U \in [in : Nat, out : Nat]
    BY <1>0, <1>2
  <2>1. GeminiIs(s, U)
    BY <1>2, <2>0, GeminiShape, ScriptIs
  <2>2. StateAt("gemini", U, n, k, st) /\ last \in Stages("gemini", n, k, st.role)
    BY <2>0
  <2>3. Effect("gemini", U, n, k, last, GeminiEvent(st, s[k + 1]))
    BY <2>0, <2>1, <2>2, GeminiEffect
  <2>4. BlankEffect("gemini", U, n, k, last, GeminiEvent(st, Ev("unknown")))
    BY <1>n, <2>2, GeminiBlank
  <2>5. A \notin {"anthropic", "cohere"}
    BY <1>2
  <2> QED BY <1>2, <2>0, <2>3, <2>4, <2>5, NormaliseIs
<1>3. CASE A = "cohere"
  <2>0. S = "cohere" /\ U = readUsage(answer.usage) /\ U \in [in : Nat, out : Nat]
    BY <1>0, <1>3
  <2>1. CohereIs(s, answer.parts, U)
    BY <1>3, <2>0, CohereShape, ScriptIs
  <2>2. StateAt("cohere", U, n, k, st) /\ last \in Stages("cohere", n, k, st.role)
    BY <2>0
  <2>3. Effect("cohere", U, n, k, last, CohereEvent(st, s[k + 1]))
    BY <2>0, <2>1, <2>2, CohereEffect
  <2>4. /\ BlankEffect("cohere", U, n, k, last, CohereEvent(st, Ev("unknown")))
        /\ BlankEffect("cohere", U, n, k, last, CohereEvent(st, Ev(t)))
    <3>1. t \in {s[k + 1].type, "unknown"} /\ "unknown" \in {s[k + 1].type, "unknown"}
      BY DEF t
    <3> QED BY <2>0, <2>1, <2>2, <3>1, CohereBlank
  <2> QED BY <1>3, <2>0, <2>3, <2>4, NormaliseIs DEF t
<1>4. CASE A \in {"openai", "mistral"}
  <2>0. S \in {"openai", "mistral"} /\ U = answer.usage
    BY <1>0, <1>4
  <2>1. OpenAIIs(S, s, U)
    <3>1. s = OpenAIScript(A, answer)
      BY <1>4, ScriptIs
    <3>2. OpenAIIs(ShapeOf(A, answer.usage), OpenAIScript(A, answer), answer.usage)
      BY <1>4, OpenAIShape
    <3> QED BY <2>0, <3>1, <3>2
  <2>3. Effect(S, U, n, k, last, OpenAIEvent(st, s[k + 1]))
    BY <2>0, <2>1, OpenAIEffect
  <2>4. BlankEffect(S, U, n, k, last, OpenAIEvent(st, Ev("unknown")))
    BY <2>0, OpenAIBlank
  <2>5. A \notin {"anthropic", "cohere"}
    BY <1>4
  <2>6. \A ev : Normalise(A, st, ev) = OpenAIEvent(st, ev)
    BY <1>4, NormaliseIs
  <2> QED BY <2>3, <2>4, <2>5, <2>6
<1> QED BY <1>1, <1>2, <1>3, <1>4 DEF AllAdapters

(* The chunks the adapters end a stream with. *)
Closing(A, last, usage, chunks) ==
    /\ ChunksOK(chunks, last, {usage})
    /\ A \in {"gemini", "cohere"} /\ usage # NoUsage => HasUsage(chunks)

(* What an adapter adds when the body is over: the closing chunks of Gemini and *)
(* Cohere, nothing of the others.                                           *)
LEMMA EndIs ==
    ASSUME NEW A, NEW st, NEW last, st.role \in BOOLEAN,
           last \in IF st.role THEN Deltas ELSE {"none"}
    PROVE  Closing(A, last, st.usage, NormaliseEnd(A, st))
<1> DEFINE V == {st.usage}
           rs == EmitRole(st)
           mid == KindOf(rs, last)
<1>1. ASSUME NEW reason
      PROVE  LET fs == <<makeFinishChunk(reason), makeUsageChunk(st.usage)>> IN
             ChunksOK(rs \o fs, last, V) /\ (st.usage # NoUsage => HasUsage(rs \o fs))
  <2> DEFINE f == makeFinishChunk(reason)
             u == makeUsageChunk(st.usage)
  <2>1. IsChunk(f, "finish", NoUsage) /\ IsChunk(u, "usage", st.usage)
    BY FinishChunk, UsageChunk
  <2>2. {NoUsage, st.usage} \subseteq {NoUsage} \cup V
    OBVIOUS
  <2> HIDE DEF f, u, V
  <2>3. ChunksOK(rs, last, V) /\ mid \in Deltas
    <3>1. RoleStage(st, last)
      BY DEF RoleStage
    <3> QED BY <3>1, RoleEmits
  <2>4. MayFollow(mid, "finish") /\ MayFollow("finish", "usage")
    BY <2>3 DEF MayFollow
  <2> HIDE DEF mid
  <2>5. ChunksOK(<<f, u>>, mid, V) /\ (st.usage # NoUsage => HasUsage(<<f, u>>))
    BY <2>1, <2>2, <2>4, TwoChunks
  <2> DEFINE fs == <<f, u>>
  <2> HIDE DEF fs, rs
  <2>6. ChunksOK(rs, last, V) /\ ChunksOK(fs, KindOf(rs, last), V)
    BY <2>3, <2>5 DEF fs, mid
  <2>7. ChunksOK(rs \o fs, last, V \cup V) /\ (HasUsage(fs) => HasUsage(rs \o fs))
    BY <2>6, MoreChunks
  <2>8. V \cup V = V
    OBVIOUS
  <2>9. ChunksOK(rs \o fs, last, V) /\ (st.usage # NoUsage => HasUsage(rs \o fs))
    BY <2>5, <2>7, <2>8 DEF fs
  <2> QED BY <2>9 DEF fs, f, u
<1>2. CASE A = "gemini"
  <2>1. NormaliseEnd(A, st) = rs \o <<makeFinishChunk(GeminiFinish(st.reason, st.tools > 0)),
                                      makeUsageChunk(st.usage)>>
    BY <1>2 DEF NormaliseEnd, GeminiEnd
  <2> HIDE DEF rs
  <2> QED BY <1>1, <2>1 DEF Closing
<1>3. CASE A = "cohere"
  <2>1. NormaliseEnd(A, st) = rs \o <<makeFinishChunk(CohereFinish(st.reason, st.tools > 0)),
                                      makeUsageChunk(st.usage)>>
    BY <1>3 DEF NormaliseEnd, CohereEnd
  <2> HIDE DEF rs
  <2> QED BY <1>1, <2>1 DEF Closing
<1>4. CASE A \notin {"gemini", "cohere"}
  <2>1. NormaliseEnd(A, st) = <<>>
    BY <1>4 DEF NormaliseEnd
  <2>2. ChunksOK(<<>>, last, V)
    BY NoChunks
  <2> QED BY <1>4, <2>1, <2>2 DEF Closing
<1> QED BY <1>2, <1>3, <1>4

-----------------------------------------------------------------------------
(* The inductive invariant. *)
Flowing == {"pulling", "writing", "draining"}
Early == {"start", "fetching", "refusal", "rejection", "reading"}
Kinds == {"none", "role", "text", "tool", "finish", "usage", "error"}

(* Where a call may be, and what it has to show for it. *)
Control ==
    /\ req \in [adapter : Adapters, kind : {"chat", "stream", "embed"},
                answer : Answers, wantsUsage : BOOLEAN, framing : Framings]
    /\ pc \in Early \cup Flowing \cup {"ended"}
    /\ pc \in Flowing => Streaming
    /\ pc = "reading" => ~Streaming
    /\ pc = "writing" => queue # <<>>
    /\ pc \in {"writing", "draining"} => verdict = "success"
    /\ pc \in Early => verdict = NoVerdict
    /\ pc = "pulling" => verdict \in {NoVerdict, "success"}
    /\ pc # "ended" => log = <<>>
    /\ verdict # "success" => sent = <<>>
    /\ IsSeq(sent) /\ \A i \in 1 .. Len(sent) : sent[i].text \in Nat

(* Who has disturbed the call. *)
Causes ==
    /\ pc = "start" => cause = (IF gone THEN "client" ELSE "none")
    /\ pc \in {"fetching", "reading"} => cause = "none" /\ ~gone
    /\ pc = "refusal" => cause = "upstream"
    /\ pc = "rejection" => cause = "request"
    /\ pc \in Flowing =>
          /\ over = "throw" => cause = "upstream"
          /\ over # "throw" =>
                \/ cause \in {"none", "client", "body"}
                \/ cause = "upstream" /\ (queue # <<>> \/ Committed)
          /\ gone \/ fate = "reset" => cause # "none"
          /\ net # <<>> /\ ~gone /\ over = "more" => cause = "none"

(* Before the headers nothing has been read, made or counted. *)
Fresh ==
    pc \in Early =>
        /\ net = <<>> /\ fate = "eof" /\ sse = NewParser /\ ad = NewAdapter
        /\ queue = <<>> /\ over = "more" /\ sent = <<>>
        /\ tally = [in |-> PromptGuess, out |-> 0, final |-> FALSE]

(* The stream's form, and what its adapter will know of the cost. *)
Shape == ShapeOf(req.adapter, req.answer.usage)
Cost == CostOf(req.adapter, req.answer.usage)

(* Usage that may be booked: what the answer cost, or nothing when the      *)
(* adapter had to end a cut stream without it.                              *)
Payable ==
    {Cost} \cup
    {u \in {Zero} : /\ req.adapter \in {"gemini", "cohere"} /\ over = "return"
                    /\ net = <<>> /\ fate = "eof" /\ cause # "none"}

(* The usage is known to the router or on its way. *)
Costed == tally.final \/ HasUsage(queue)

(* The bytes after the first c of n frames. *)
Ahead(f, n, c) == [j \in 1 .. FrameLen(f) * n - c |-> ByteAt(f, c + j)]

(* The parser has read c bytes, and k frames and r characters of them have  *)
(* been taken.                                                              *)
AtPlace(n, k, r, c) ==
    /\ Placed(req.framing, n, k, r, c)
    /\ sse = ParserAt(req.framing, k, r, c)
    /\ net = Ahead(req.framing, n, c) \/ (net = <<>> /\ cause # "none")

(* The adapter after k events, while it wants more of them. *)
Underway(n, k, last) ==
    /\ StateAt(Shape, Cost, n, k, ad)
    /\ KindOf(queue, last) \in Stages(Shape, n, k, ad.role)
    /\ Shape \in {"openai", "mistral"} /\ k = n - 1 /\ Cost # NoUsage => Costed

Somewhere(last) ==
    \E k \in 0 .. N, r \in LineStarts(req.framing), c \in 0 .. FrameLen(req.framing) * N :
        AtPlace(N, k, r, c) /\ Underway(N, k, last)

(* An error frame has come, the last thing of the body: it is queued or taken. *)
Struck(last) ==
    /\ req.adapter \in {"openai", "mistral"} /\ over = "more"
    /\ net = <<>> /\ sse = NewParser /\ cause # "none"
    /\ queue = IF last = "error" THEN <<>> ELSE <<Chunk("error")>>

(* The chunks of the answer are in order. *)
Regular(last) ==
    /\ ChunksOK(queue, last, Payable)
    /\ over = "more" => Somewhere(last)

(* `last' is the kind of the last chunk taken from the queue. *)
Ordered(last) ==
    /\ ~gone => last = KindOf(sent, "none")
    /\ Regular(last) \/ Struck(last)

Flow ==
    /\ over \in {"more", "return", "throw"}
    /\ pc \in Flowing => \E last \in Kinds : Ordered(last)

(* The router's count. *)
Tallied ==
    pc # "ended" =>
        /\ tally \in [in : Nat, out : Nat, final : BOOLEAN]
        /\ tally.final => [in |-> tally.in, out |-> tally.out] \in Payable
        /\ ~tally.final => tally.in = PromptGuess /\ tally.out >= Estimate
        /\ ~tally.final /\ pc = "writing" =>
              tally.out >= Estimate + countDeltaTokens(queue[1]) /\ queue[1].usage = NoUsage
        /\ over = "return" /\ cause = "none" /\ Cost # NoUsage => Costed

IInv == Control /\ Causes /\ Fresh /\ Flow /\ Tallied /\ BlameIsRight /\ BookedExactly

(* The estimate of what the client has been shown, chunk by chunk. *)
EstimateOf(s) == FoldLeft(LAMBDA n, chunk : n + countDeltaTokens(chunk), 0, s)

(* The estimate of one delta. *)
LEMMA DeltaTokens ==
    ASSUME NEW c, c.text \in Nat
    PROVE  countDeltaTokens(c) \in Nat
<1>1. ((c.text + 2) \div 4) \in Nat
  OBVIOUS
<1> QED BY <1>1 DEF countDeltaTokens

(* The fold of the estimates is the running sum. *)
LEMMA EstimateSteps ==
    ASSUME NEW n \in Nat, NEW s, DOMAIN s = 1 .. n, \A i \in 1 .. n : s[i].text \in Nat,
           NEW g \in [0 .. n -> Nat], g[0] = 0,
           \A i \in 1 .. n : g[i] = g[i - 1] + countDeltaTokens(s[i])
    PROVE  EstimateOf(s) = g[n]
<1> DEFINE F == [x \in (1 .. n) \X Nat |-> x[2] + countDeltaTokens(s[x[1]])]
           Is(f) == f = [t \in SUBSET (1 .. n) |->
                            IF t = {} THEN 0
                            ELSE f[t \ {Max(t)}] + countDeltaTokens(s[Max(t)])]
           iter == CHOOSE f : Is(f)
<1>1. EstimateOf(s) = iter[1 .. n]
  BY DEF EstimateOf, FoldLeft, MapThenFoldSet
<1>0. \A i \in 1 .. n : countDeltaTokens(s[i]) \in Nat
  BY DeltaTokens
<1>2. F \in [(1 .. n) \X Nat -> Nat]
  BY <1>0, SMTT(20)
<1>3. \A i \in 1 .. n, p \in Nat : F[<<i, p>>] = p + countDeltaTokens(s[i])
  OBVIOUS
<1> HIDE DEF F
<1>4. 0 \in Nat
  OBVIOUS
<1>5. PICK h \in [SUBSET (1 .. n) -> Nat] : Folds(h, n, 0, F)
  BY <1>2, <1>4, FoldExists
<1>6. Is(h)
  <2> SUFFICES ASSUME NEW t \in SUBSET (1 .. n)
               PROVE  h[t] = IF t = {} THEN 0
                             ELSE h[t \ {Max(t)}] + countDeltaTokens(s[Max(t)])
    OBVIOUS
  <2>1. h[t] = IF t = {} THEN 0 ELSE F[<<Max(t), h[t \ {Max(t)}]>>]
    BY <1>5 DEF Folds
  <2>2. t # {} => Max(t) \in 1 .. n
    BY MaxOf
  <2>3. h[t \ {Max(t)}] \in Nat
    OBVIOUS
  <2> QED BY <2>1, <2>2, <2>3, <1>3
<1>7. Is(iter)
  <2> HIDE DEF Is
  <2> QED BY <1>6
<1> HIDE DEF iter
<1>8. \A t \in SUBSET (1 .. n) :
        iter[t] = IF t = {} THEN 0 ELSE iter[t \ {Max(t)}] + countDeltaTokens(s[Max(t)])
  BY <1>7
<1> DEFINE P == {i \in 0 .. n : iter[1 .. i] = g[i]}
<1>9. 0 \in P
  <2>1. 1 .. 0 = {} /\ {} \in SUBSET (1 .. n) /\ 0 \in 0 .. n
    OBVIOUS
  <2>2. iter[{}] = g[0]
    BY <2>1, <1>8
  <2> QED BY <2>1, <2>2
<1>10. \A i \in 0 .. n - 1 : i \in P => i + 1 \in P
  <2> SUFFICES ASSUME NEW i \in 0 .. n - 1, i \in P PROVE i + 1 \in P
    OBVIOUS
  <2>1. /\ i \in Nat /\ i + 1 \in 1 .. n /\ i + 1 \in 0 .. n /\ (i + 1) - 1 = i
        /\ 1 .. i + 1 \in SUBSET (1 .. n) /\ 1 .. i + 1 # {}
        /\ (1 .. i + 1) \ {i + 1} = 1 .. i /\ Max(1 .. i + 1) = i + 1
    BY Climb
  <2>3. iter[1 .. i + 1] = iter[1 .. i] + countDeltaTokens(s[i + 1])
    BY <2>1, <1>8
  <2>4. g[i + 1] = g[i] + countDeltaTokens(s[i + 1])
    BY <2>1
  <2> QED BY <2>1, <2>3, <2>4
<1>11. P \in SUBSET (0 .. n) /\ 0 \in Nat /\ n \in Nat /\ n \in 0 .. n
  OBVIOUS
<1>12. n \in P
  <2> HIDE DEF P
  <2> QED BY <1>9, <1>10, <1>11, Induction
<1> QED BY <1>1, <1>12

(* Partial sums exist. *)
Sums(g, n, s) ==
    /\ g \in [0 .. n -> Nat] /\ g[0] = 0
    /\ \A i \in 1 .. n : g[i] = g[i - 1] + countDeltaTokens(s[i])

(* The running sum exists. *)
LEMMA SumsExist ==
    ASSUME NEW n \in Nat, NEW s, \A i \in 1 .. n : s[i].text \in Nat
    PROVE  \E g : Sums(g, n, s)
<1> DEFINE P == {m \in 0 .. n : \E g : Sums(g, m, s)}
<1>1. 0 \in P
  <2> DEFINE g == [i \in 0 .. 0 |-> 0]
  <2>1. g \in [0 .. 0 -> Nat] /\ g[0] = 0 /\ 1 .. 0 = {} /\ 0 \in 0 .. n
    OBVIOUS
  <2> HIDE DEF g
  <2>2. Sums(g, 0, s)
    BY <2>1 DEF Sums
  <2> QED BY <2>1, <2>2
<1>2. \A m \in 0 .. n - 1 : m \in P => m + 1 \in P
  <2> SUFFICES ASSUME NEW m \in 0 .. n - 1, m \in P PROVE m + 1 \in P
    OBVIOUS
  <2>1. PICK g : Sums(g, m, s)
    OBVIOUS
  <2> DEFINE d == countDeltaTokens(s[m + 1])
             h == [i \in 0 .. m + 1 |-> IF i = m + 1 THEN g[m] + d ELSE g[i]]
  <2>0. m \in Nat /\ m + 1 \in 1 .. n /\ m + 1 \in 0 .. n /\ m \in 0 .. m /\ (m + 1) - 1 = m
    OBVIOUS
  <2>2. d \in Nat /\ g \in [0 .. m -> Nat] /\ g[m] \in Nat
    BY <2>0, <2>1, DeltaTokens DEF Sums
  <2> HIDE DEF d
  <2>3. h \in [0 .. m + 1 -> Nat] /\ h[m + 1] = g[m] + d /\ \A i \in 0 .. m : h[i] = g[i]
    BY <2>0, <2>2
  <2> HIDE DEF h
  <2>4. h[0] = 0
    BY <2>0, <2>1, <2>3 DEF Sums
  <2>5. \A i \in 1 .. m + 1 : h[i] = h[i - 1] + countDeltaTokens(s[i])
    <3> SUFFICES ASSUME NEW i \in 1 .. m + 1 PROVE h[i] = h[i - 1] + countDeltaTokens(s[i])
      OBVIOUS
    <3>1. CASE i = m + 1
      BY <2>0, <2>3, <3>1 DEF d
    <3>2. CASE i # m + 1
      <4>1. i \in 1 .. m /\ i \in 0 .. m /\ i - 1 \in 0 .. m
        BY <2>0, <3>2
      <4>2. g[i] = g[i - 1] + countDeltaTokens(s[i])
        BY <2>1, <4>1 DEF Sums
      <4> QED BY <2>3, <4>1, <4>2
    <3> QED BY <3>1, <3>2
  <2>6. Sums(h, m + 1, s)
    BY <2>3, <2>4, <2>5 DEF Sums
  <2> QED BY <2>0, <2>6
<1>3. P \in SUBSET (0 .. n) /\ 0 \in Nat /\ n \in Nat /\ n \in 0 .. n
  OBVIOUS
<1>4. n \in P
  <2> HIDE DEF P
  <2> QED BY <1>1, <1>2, <1>3, Induction
<1> QED BY <1>4

Readable(s) == IsSeq(s) /\ \A i \in 1 .. Len(s) : s[i].text \in Nat

(* Nothing sent, nothing estimated. *)
LEMMA EstimateNone == EstimateOf(<<>>) = 0
<1> DEFINE g == [i \in 0 .. 0 |-> 0]
           s == <<>>
<1>1. g \in [0 .. 0 -> Nat] /\ g[0] = 0 /\ 1 .. 0 = {} /\ DOMAIN s = 1 .. 0 /\ 0 \in Nat
  OBVIOUS
<1> HIDE DEF g, s
<1>2. EstimateOf(s) = g[0]
  BY <1>1, EstimateSteps
<1> QED BY <1>1, <1>2 DEF s

(* The estimate is a number. *)
LEMMA EstimateNat ==
    ASSUME NEW s, Readable(s)
    PROVE  EstimateOf(s) \in Nat
<1>1. Len(s) \in Nat /\ DOMAIN s = 1 .. Len(s) /\ \A i \in 1 .. Len(s) : s[i].text \in Nat
  BY SeqDomain DEF Readable
<1>2. PICK g : Sums(g, Len(s), s)
  BY <1>1, SumsExist
<1>3. EstimateOf(s) = g[Len(s)]
  BY <1>1, <1>2, EstimateSteps DEF Sums
<1>4. Len(s) \in 0 .. Len(s) /\ g \in [0 .. Len(s) -> Nat]
  BY <1>1, <1>2 DEF Sums
<1> QED BY <1>3, <1>4

(* One chunk more adds its estimate. *)
LEMMA EstimateMore ==
    ASSUME NEW s, NEW c, Readable(s), c.text \in Nat
    PROVE  /\ Readable(s \o <<c>>)
           /\ EstimateOf(s \o <<c>>) = EstimateOf(s) + countDeltaTokens(c)
<1> DEFINE t == <<c>>
           u == s \o t
           n == Len(s)
<1>1. IsSeq(t) /\ Len(t) = 1 /\ t[1] = c
  BY TuplesAreSeqs
<1>2. n \in Nat /\ DOMAIN s = 1 .. n /\ (\A i \in 1 .. n : s[i].text \in Nat) /\ IsSeq(s)
  BY SeqDomain DEF Readable
<1> HIDE DEF t, n
<1>3. IsCat(u, s, t)
  BY <1>1, <1>2, Catenated
<1> HIDE DEF u
<1>4. /\ IsSeq(u) /\ DOMAIN u = 1 .. Len(u) /\ Len(u) = n + 1
      /\ \A i \in 1 .. n : u[i] = s[i]
      /\ u[n + 1] = c
  <2>1. 1 \in 1 .. 1
    OBVIOUS
  <2>2. /\ IsSeq(u) /\ DOMAIN u = 1 .. Len(u) /\ Len(u) = n + Len(t)
        /\ (\A i \in 1 .. n : u[i] = s[i]) /\ \A i \in 1 .. Len(t) : u[n + i] = t[i]
    <3>1. /\ IsSeq(u) /\ DOMAIN u = 1 .. Len(u) /\ Len(u) = Len(s) + Len(t)
          /\ \A i \in 1 .. Len(s) : u[i] = s[i]
          /\ \A i \in 1 .. Len(t) : u[Len(s) + i] = t[i]
      BY <1>3, CatParts
    <3> QED BY <3>1, Zenon DEF n
  <2> QED BY <1>1, <2>1, <2>2
<1>5. \A i \in 1 .. n + 1 : u[i].text \in Nat
  <2>1. \A i \in 1 .. n + 1 : i \in 1 .. n \/ i = n + 1
    BY <1>2
  <2> QED BY <1>2, <1>4, <2>1
<1>6. n + 1 \in Nat /\ n + 1 \in 1 .. n + 1 /\ n \in 0 .. n /\ n \in 0 .. n + 1 /\ (n + 1) - 1 = n
      /\ \A i \in 1 .. n : i \in 1 .. n + 1 /\ i - 1 \in 0 .. n /\ i \in 0 .. n /\ i \in 0 .. n + 1 /\ i - 1 \in 0 .. n + 1
  BY <1>2
<1>7. PICK g : Sums(g, n + 1, u)
  BY <1>5, <1>6, SumsExist
<1>8. g \in [0 .. n + 1 -> Nat] /\ g[0] = 0 /\ \A i \in 1 .. n + 1 : g[i] = g[i - 1] + countDeltaTokens(u[i])
  BY <1>7 DEF Sums
<1>9. EstimateOf(u) = g[n + 1]
  BY <1>4, <1>5, <1>6, <1>8, EstimateSteps, ZenonT(40)
<1> DEFINE h == [i \in 0 .. n |-> g[i]]
<1>10. /\ h \in [0 .. n -> Nat] /\ h[0] = 0 /\ h[n] = g[n]
       /\ \A i \in 1 .. n : h[i] = h[i - 1] + countDeltaTokens(s[i])
  <2>1. h \in [0 .. n -> Nat] /\ \A i \in 0 .. n : h[i] = g[i]
    <3>1. \A i \in 0 .. n : i \in 0 .. n + 1
      BY <1>2
    <3> QED BY <1>8, <3>1
  <2> HIDE DEF h
  <2>2. 0 \in 0 .. n
    BY <1>2
  <2>3. \A i \in 1 .. n : h[i] = h[i - 1] + countDeltaTokens(s[i])
    BY <1>4, <1>6, <1>8, <2>1
  <2> QED BY <1>6, <1>8, <2>1, <2>2, <2>3
<1> HIDE DEF h
<1>11. EstimateOf(s) = h[n]
  BY <1>2, <1>10, EstimateSteps
<1>12. g[n + 1] = g[n] + countDeltaTokens(c)
  BY <1>4, <1>6, <1>8
<1>13. Readable(u)
  BY <1>4, <1>5 DEF Readable
<1> QED BY <1>9, <1>10, <1>11, <1>12, <1>13 DEF u, t

(* The model's Estimate. *)
LEMMA EstimateIs == Estimate = EstimateOf(sent) /\ Estimate' = EstimateOf(sent')
<1>1. Estimate = EstimateOf(sent)
  BY DEF Estimate, EstimateOf
<1>2. Estimate' = EstimateOf(sent')
  BY DEF Estimate, EstimateOf, FoldLeft, MapThenFoldSet, countDeltaTokens
<1> QED BY <1>1, <1>2

-----------------------------------------------------------------------------
(* Steps that end the call. *)
Entry(usage, status) == [usage |-> usage, status |-> status]

(* A ledger of one row, and of none. *)
LEMMA OneRow ==
    ASSUME NEW row
    PROVE  /\ Append(<<>>, row) = <<row>> /\ Len(<<row>>) = 1
           /\ DOMAIN <<row>> = {1} /\ <<row>>[1] = row
<1>1. DOMAIN <<row>> = 1 .. 1 /\ 1 .. 1 = {1}
  OBVIOUS
<1> QED BY <1>1

LEMMA NoRow == Len(<<>>) = 0 /\ DOMAIN <<>> = {}
<1>1. DOMAIN <<>> = 1 .. 0 /\ 1 .. 0 = {} /\ Len(<<>>) = 0
  OBVIOUS
<1> QED BY <1>1

(* A row that may be booked when the call has been disturbed. *)
Bookable(usage) ==
    \/ Reported /\ usage = req.answer.usage
    \/ usage.in = PromptGuess /\ usage.out >= Estimate
    \/ usage = Zero /\ req.adapter \in {"gemini", "cohere"} /\ fate = "eof"
    \/ usage = Zero /\ ~Reported /\ req.adapter \notin {"openai", "mistral"}

(* What the cost says of the answer's usage. *)
LEMMA CostSays ==
    /\ Reported => Cost = req.answer.usage
    /\ ~Reported /\ req.adapter \in {"openai", "mistral"} => Cost = NoUsage
    /\ ~Reported /\ req.adapter \notin {"openai", "mistral"} => Cost = Zero
BY DEF Reported, Cost, CostOf, readUsage

(* What the router has counted may be booked at any moment. *)
LEMMA CountIsBookable ==
    ASSUME Tallied, pc # "ended"
    PROVE  Bookable([in |-> tally.in, out |-> tally.out])
<1> DEFINE u == [in |-> tally.in, out |-> tally.out]
<1>1. CASE tally.final
  <2>1. u \in Payable /\ tally \in [in : Nat, out : Nat, final : BOOLEAN]
    BY <1>1 DEF Tallied
  <2>2. u # NoUsage
    <3>1. u \in Usages
      BY <2>1 DEF Usages
    <3> HIDE DEF u
    <3> QED BY <3>1, UsageIsNot
  <2> HIDE DEF u
  <2>3. Bookable(u)
    <3>1. CASE u = Cost
      BY <2>2, <3>1, CostSays DEF Bookable
    <3> QED BY <2>1, <3>1 DEF Payable, Bookable
  <2> QED BY <2>3 DEF u
<1>2. CASE ~tally.final
  <2>1. tally.in = PromptGuess /\ tally.out >= Estimate
    BY <1>2 DEF Tallied
  <2>2. u.in = tally.in /\ u.out = tally.out
    OBVIOUS
  <2> QED BY <2>1, <2>2 DEF Bookable
<1> QED BY <1>1, <1>2

(* Throw ends the call as the invariant wants it, whatever step threw. *)
LEMMA Thrown ==
    ASSUME NEW error, IInv, pc # "ended", Throw(error), UNCHANGED <<req, stream>>,
           Committed => cause' # "none",
           ~Committed /\ Retryable(error) => cause' = "upstream",
           ~Committed /\ ~Retryable(error) => cause' \in {"client", "request", "body", "timeout"}
    PROVE  IInv'
<1>1. /\ pc' = "ended" /\ req' = req /\ tally' = tally /\ sent' = sent /\ fate' = fate
      /\ over' = over
  BY DEF Throw, stream
<1>2. Control /\ Tallied /\ Flow
  BY DEF IInv
<1>3. log = <<>> /\ pc \in Early \cup Flowing
  BY <1>2 DEF Control
<1>4. Committed => Streaming
  BY <1>2, <1>3 DEF Control, Committed, NoVerdict
<1>5. Committed => verdict' = verdict
  BY DEF Throw
<1>6. ~Committed => verdict' \in {"failure", "release"} /\ log' = log
  BY DEF Throw
<1>7. Control'
  <2>1. verdict' # "success" => sent' = <<>>
    BY <1>1, <1>2, <1>5, <1>6 DEF Control, Committed
  <2>2. "ended" \notin Flowing /\ "ended" \notin Early
    BY DEF Flowing, Early
  <2> QED BY <1>1, <1>2, <2>1, <2>2 DEF Control
<1>8. Causes' /\ Fresh' /\ Flow' /\ Tallied'
  BY <1>1, <1>2 DEF Causes, Fresh, Flow, Tallied, Flowing, Early
<1>9. BlameIsRight'
  <2>1. CASE Committed
    BY <1>5, <2>1 DEF BlameIsRight, Committed
  <2>2. CASE ~Committed
    <3>1. verdict' = IF Retryable(error) THEN "failure" ELSE "release"
      BY <2>2 DEF Throw
    <3> QED BY <2>2, <3>1 DEF BlameIsRight
  <2> QED BY <2>1, <2>2
<1>10. BookedExactly'
  <2>1. CASE Committed
    <3> DEFINE u == [in |-> tally.in, out |-> tally.out]
    <3>1. Bookable(u)
      BY <1>2, <1>3, CountIsBookable DEF Early, Flowing
    <3>2. Bookable(u)'
      <4>1. Estimate' = Estimate
        BY <1>1, EstimateIs
      <4>2. ((u = req.answer.usage)' <=> (u = req.answer.usage)) /\ (Reported' <=> Reported)
        BY <1>1 DEF Reported
      <4> QED BY <1>1, <3>1, <4>1, <4>2 DEF Bookable
    <3> DEFINE row == Entry(u, 502)
    <3>3. log' = Append(<<>>, row)
      BY <1>3, <2>1 DEF Throw, Entry
    <3>4. row.usage = u
      BY DEF Entry
    <3>u. u' = u
      BY <1>1
    <3> HIDE DEF row, u
    <3>5. Len(log') = 1 /\ DOMAIN log' = {1} /\ log'[1] = row
      BY <3>3, OneRow
    <3>6. Committed' /\ cause' # "none"
      BY <1>5, <2>1 DEF Committed
    <3> QED BY <1>1, <3>2, <3>4, <3>5, <3>6, <3>u DEF BookedExactly, Bookable
  <2>2. CASE ~Committed
    <3>1. log' = <<>> /\ ~Committed'
      BY <1>3, <1>6, <2>2 DEF Committed
    <3> QED BY <3>1, NoRow DEF BookedExactly
  <2> QED BY <2>1, <2>2
<1> QED BY <1>7, <1>8, <1>9, <1>10 DEF IInv

(* Steps that keep the call where nothing has been read. *)
LEMMA StaysEarly ==
    ASSUME IInv, pc \in Early, pc' \in Early, UNCHANGED <<req, stream, verdict, ledger>>,
           pc' = "reading" => ~Streaming, Causes'
    PROVE  IInv'
<1>1. /\ req' = req /\ net' = net /\ fate' = fate /\ sse' = sse /\ ad' = ad /\ queue' = queue
      /\ over' = over /\ verdict' = verdict /\ tally' = tally /\ sent' = sent /\ log' = log
  BY DEF stream, ledger
<1>2. /\ pc # "ended" /\ pc' # "ended" /\ pc \notin Flowing /\ pc' \notin Flowing
      /\ pc' # "pulling" /\ pc' \notin {"writing", "draining"} /\ pc' # "writing"
  BY DEF Early, Flowing
<1>3. Control'
  <2>1. Control
    BY DEF IInv
  <2> QED BY <1>1, <1>2, <2>1 DEF Control, Streaming
<1>4. Fresh' /\ Flow'
  BY <1>1, <1>2 DEF IInv, Fresh, Flow
<1>5. Tallied'
  <2>1. tally = [in |-> PromptGuess, out |-> 0, final |-> FALSE] /\ over = "more"
    BY DEF IInv, Fresh
  <2>2. Tallied /\ Estimate' = Estimate
    BY <1>1, EstimateIs DEF IInv
  <2>3. tally.final = FALSE
    BY <2>1
  <2> QED BY <1>1, <1>2, <2>1, <2>2, <2>3 DEF Tallied
<1>6. verdict = NoVerdict /\ log = <<>>
  BY <1>2 DEF IInv, Control
<1>7. BlameIsRight' /\ BookedExactly'
  BY <1>1, <1>2, <1>6, NoRow DEF BlameIsRight, BookedExactly, NoVerdict
<1> QED BY <1>3, <1>4, <1>5, <1>7 DEF IInv

(* Before the stream nothing is committed. *)
LEMMA EarlyFacts ==
    ASSUME IInv, pc \in Early
    PROVE  pc # "ended" /\ ~Committed /\ Causes /\ pc \notin Flowing
BY DEF IInv, Control, Early, Flowing, Committed, NoVerdict

(* The steps before the headers, each keeping the invariant. *)
LEMMA StepBegin ==
    ASSUME IInv, Begin
    PROVE  IInv'
<1>1. pc = "start" /\ UNCHANGED <<req, gone, stream>>
  BY DEF Begin
<1>2. pc \in Early
  BY <1>1 DEF Early
<1>3. pc # "ended" /\ ~Committed /\ cause = IF gone THEN "client" ELSE "none"
  BY <1>1, <1>2, EarlyFacts DEF Causes
<1>4. CASE req.kind = "embed" /\ req.adapter = "anthropic"
  <2>1. Throw("client") /\ cause' \in {"client", "request"}
    BY <1>3, <1>4 DEF Begin, Blame
  <2>2. ~Retryable("client")
    BY DEF Retryable
  <2> QED BY <1>1, <1>3, <2>1, <2>2, Thrown
<1>5. CASE ~(req.kind = "embed" /\ req.adapter = "anthropic") /\ gone
  <2>1. Throw("aborted") /\ cause' \in {"client", "request"}
    BY <1>3, <1>5 DEF Begin
  <2>2. ~Retryable("aborted")
    BY DEF Retryable
  <2> QED BY <1>1, <1>3, <2>1, <2>2, Thrown
<1>6. CASE ~(req.kind = "embed" /\ req.adapter = "anthropic") /\ ~gone
  <2>1. pc' = "fetching" /\ UNCHANGED <<verdict, ledger, cause>>
    BY <1>6 DEF Begin
  <2>2. pc' \in Early /\ Causes'
    BY <1>1, <1>3, <1>6, <2>1 DEF Early, Flowing, Causes
  <2> QED BY <1>1, <1>2, <2>1, <2>2, StaysEarly
<1> QED BY <1>4, <1>5, <1>6

LEMMA StepFault ==
    ASSUME IInv, NetworkFault \/ EmptyBody
    PROVE  IInv'
<1>1. /\ pc = "fetching" /\ UNCHANGED <<req, gone, stream>> /\ Blame("upstream")
      /\ \E e \in {"network", "provider"} : Throw(e)
  BY DEF NetworkFault, EmptyBody
<1>2. pc \in Early
  BY <1>1 DEF Early
<1>3. pc # "ended" /\ ~Committed /\ cause = "none"
  BY <1>1, <1>2, EarlyFacts DEF Causes
<1>4. PICK e \in {"network", "provider"} : Throw(e)
  BY <1>1
<1>5. Retryable(e) /\ cause' = "upstream"
  BY <1>1, <1>3 DEF Retryable, Blame
<1> QED BY <1>1, <1>3, <1>4, <1>5, Thrown

(* What an error response is taken for. *)
LEMMA Refused ==
    ASSUME IInv, pc \in {"refusal", "rejection"}, Throw(RefusalError), UNCHANGED <<req, stream>>,
           cause' = cause
    PROVE  IInv'
<1>1. pc \in Early
  BY DEF Early
<1>2. pc # "ended" /\ ~Committed /\ Causes
  BY <1>1, EarlyFacts
<1>3. CASE pc = "refusal"
  <2>1. RefusalError = "provider" /\ cause = "upstream"
    BY <1>2, <1>3 DEF Causes, RefusalError
  <2>2. Throw("provider") /\ Retryable("provider")
    BY <2>1 DEF Retryable
  <2> QED BY <1>2, <2>1, <2>2, Thrown
<1>4. CASE pc = "rejection"
  <2>1. RefusalError = "client" /\ cause = "request"
    BY <1>2, <1>4 DEF Causes, RefusalError
  <2>2. Throw("client") /\ ~Retryable("client")
    BY <2>1 DEF Retryable
  <2> QED BY <1>2, <2>1, <2>2, Thrown
<1> QED BY <1>3, <1>4

LEMMA StepRefusalRead ==
    ASSUME IInv, RefusalRead
    PROVE  IInv'
BY Refused DEF RefusalRead

LEMMA StepTimer ==
    ASSUME IInv, TimerFires
    PROVE  IInv'
<1>1. UNCHANGED <<req, gone, stream>>
  BY DEF TimerFires
<1>2. CASE pc = "fetching" /\ Throw("timeout") /\ Blame("upstream")
  <2>1. pc \in Early /\ Retryable("timeout")
    BY <1>2 DEF Early, Retryable
  <2>2. pc # "ended" /\ ~Committed /\ cause = "none"
    BY <1>2, <2>1, EarlyFacts DEF Causes
  <2>3. cause' = "upstream"
    BY <1>2, <2>2 DEF Blame
  <2> QED BY <1>1, <1>2, <2>1, <2>2, <2>3, Thrown
<1>3. CASE pc = "reading" /\ Throw("aborted") /\ Blame("timeout")
  <2>1. pc \in Early /\ ~Retryable("aborted")
    BY <1>3 DEF Early, Retryable
  <2>2. pc # "ended" /\ ~Committed /\ cause = "none"
    BY <1>3, <2>1, EarlyFacts DEF Causes
  <2>3. cause' = "timeout"
    BY <1>3, <2>2 DEF Blame
  <2> QED BY <1>1, <1>3, <2>1, <2>2, <2>3, Thrown
<1>4. CASE pc \in {"refusal", "rejection"} /\ Throw(RefusalError) /\ UNCHANGED cause
  BY <1>1, <1>4, Refused
<1> QED BY <1>2, <1>3, <1>4 DEF TimerFires

LEMMA StepRefused ==
    ASSUME IInv, NEW who \in {"upstream", "request"}, HeadersRefused(who)
    PROVE  IInv'
<1>1. /\ pc = "fetching" /\ Blame(who) /\ UNCHANGED <<req, gone, stream, verdict, ledger>>
      /\ pc' = IF who = "upstream" THEN "refusal" ELSE "rejection"
  BY DEF HeadersRefused
<1>2. pc \in Early
  BY <1>1 DEF Early
<1>3. cause = "none"
  BY <1>1, <1>2, EarlyFacts DEF Causes
<1>4. pc' \in Early /\ pc' # "reading" /\ Causes'
  BY <1>1, <1>3 DEF Early, Flowing, Causes, Blame
<1> QED BY <1>1, <1>2, <1>4, StaysEarly

LEMMA StepBroken ==
    ASSUME IInv, BodyGarbled \/ BodyBroken
    PROVE  IInv'
<1>1. pc = "reading" /\ UNCHANGED <<req, gone, stream>>
  BY DEF BodyGarbled, BodyBroken
<1>2. pc \in Early
  BY <1>1 DEF Early
<1>3. pc # "ended" /\ ~Committed /\ cause = "none"
  BY <1>1, <1>2, EarlyFacts DEF Causes
<1>4. CASE BodyGarbled
  <2>1. Throw("provider") /\ Retryable("provider") /\ cause' = "upstream"
    BY <1>3, <1>4 DEF BodyGarbled, Blame, Retryable
  <2> QED BY <1>1, <1>3, <2>1, Thrown
<1>5. CASE BodyBroken
  <2>1. Throw("reset") /\ ~Retryable("reset") /\ cause' = "body"
    BY <1>3, <1>5 DEF BodyBroken, Blame, Retryable
  <2> QED BY <1>1, <1>3, <2>1, Thrown
<1> QED BY <1>4, <1>5

(* What the request says. *)
LEMMA Requested ==
    ASSUME Control
    PROVE  /\ req.adapter \in AllAdapters /\ req.answer \in Answers /\ req.framing \in Forms
           /\ N \in Nat \ {0} /\ DOMAIN NativeEvents = 1 .. N /\ N = Len(Script(req.adapter, req.answer))
           /\ Cost \in Usages \cup {NoUsage} /\ (req.adapter \notin {"openai", "mistral"} => Cost \in Usages)
           /\ req.wantsUsage \in BOOLEAN
<1>1. req.adapter \in Adapters /\ req.answer \in Answers /\ req.framing \in Framings /\ req.wantsUsage \in BOOLEAN
  BY DEF Control
<1>2. req.adapter \in AllAdapters /\ req.framing \in Forms
  BY <1>1, ProviderCallAssumption DEF AllAdapters, Forms
<1>3. Cost \in Usages \cup {NoUsage} /\ (req.adapter \notin {"openai", "mistral"} => Cost \in Usages)
  BY <1>1, CostIs DEF Cost
<1> QED BY <1>1, <1>2, <1>3, ScriptLen DEF N, NativeEvents

(* translateResponse keeps the usage, or fills one in. *)
LEMMA WholeUsage ==
    ASSUME NEW adapter, NEW answer, NEW counted
    PROVE  translateResponse(adapter, answer, counted).usage =
             IF adapter = "anthropic" THEN answer.usage
             ELSE IF adapter \in {"gemini", "cohere"} THEN readUsage(answer.usage)
             ELSE IF answer.usage = NoUsage THEN [in |-> counted, out |-> 0]
             ELSE answer.usage
<1>1. \A tools, finish, usage : Message(answer, tools, finish, usage).usage = usage
  BY DEF Message
<1>2. /\ AnthropicResponse(answer).usage = answer.usage
      /\ GeminiResponse(answer).usage = readUsage(answer.usage)
      /\ CohereResponse(answer).usage = readUsage(answer.usage)
      /\ OpenAIResponse(answer, counted).usage =
            IF answer.usage = NoUsage THEN [in |-> counted, out |-> 0] ELSE answer.usage
  BY <1>1 DEF AnthropicResponse, GeminiResponse, CohereResponse, OpenAIResponse
<1>3. /\ adapter = "anthropic" => translateResponse(adapter, answer, counted) = AnthropicResponse(answer)
      /\ adapter = "gemini" => translateResponse(adapter, answer, counted) = GeminiResponse(answer)
      /\ adapter = "cohere" => translateResponse(adapter, answer, counted) = CohereResponse(answer)
      /\ adapter \notin {"anthropic", "gemini", "cohere"} =>
            translateResponse(adapter, answer, counted) = OpenAIResponse(answer, counted)
  BY DEF translateResponse
<1> QED BY <1>2, <1>3

(* A whole answer is booked with its usage, or what stands for it. *)
LEMMA StepBody ==
    ASSUME IInv, BodyArrives
    PROVE  IInv'
<1> DEFINE u == IF req.kind = "chat" THEN translateResponse(req.adapter, req.answer, PromptGuess).usage
                ELSE [in |-> embed, out |-> 0]
           row == Entry(u, 200)
<1>1. /\ pc = "reading" /\ UNCHANGED <<req, gone, stream, cause>> /\ pc' = "ended"
      /\ verdict' = "success" /\ tally' = tally /\ sent' = sent
      /\ log' = Append(log, row)
  BY DEF BodyArrives, Answered, Entry
<1>2. pc \in Early
  BY <1>1 DEF Early
<1>3. Control /\ Flow /\ log = <<>> /\ ~Streaming
  BY <1>1 DEF IInv, Control
<1>4. req' = req /\ over' = over /\ cause' = cause
  BY <1>1 DEF stream
<1>5. Control'
  <2>1. "ended" \notin Flowing /\ "ended" \notin Early
    BY DEF Flowing, Early
  <2> QED BY <1>1, <1>3, <1>4, <2>1 DEF Control
<1>6. Causes' /\ Fresh' /\ Flow' /\ Tallied'
  BY <1>1, <1>3, <1>4 DEF Causes, Fresh, Flow, Tallied, Flowing, Early
<1>7. BlameIsRight'
  BY <1>1 DEF BlameIsRight
<1>8. /\ row.usage = u
      /\ req.kind = "chat" =>
            u = IF Reported THEN req.answer.usage
                ELSE IF req.adapter \in {"openai", "mistral"} THEN [in |-> PromptGuess, out |-> 0]
                ELSE Zero
  <2>1. row.usage = u
    BY DEF Entry
  <2>2. ASSUME req.kind = "chat"
        PROVE  u = IF Reported THEN req.answer.usage
                   ELSE IF req.adapter \in {"openai", "mistral"} THEN [in |-> PromptGuess, out |-> 0]
                   ELSE Zero
    <3>1. req.adapter \in AllAdapters
      BY <1>3, Requested
    <3>2. req.adapter = "anthropic" => Reported
      BY <2>2 DEF BodyArrives, Shaped, Reported
    <3>3. u = IF req.adapter = "anthropic" THEN req.answer.usage
              ELSE IF req.adapter \in {"gemini", "cohere"} THEN readUsage(req.answer.usage)
              ELSE IF req.answer.usage = NoUsage THEN [in |-> PromptGuess, out |-> 0]
              ELSE req.answer.usage
      BY <2>2, WholeUsage
    <3> HIDE DEF u, row
    <3> QED BY <3>1, <3>2, <3>3 DEF Reported, readUsage, AllAdapters
  <2> QED BY <2>1, <2>2
<1>9. req.kind \in {"chat", "embed"}
  BY <1>3 DEF Control, Streaming
<1> HIDE DEF u, row
<1>10. Len(log') = 1 /\ DOMAIN log' = {1} /\ log'[1] = row
  BY <1>1, <1>3, OneRow
<1>11. BookedExactly'
  <2>1. Committed' /\ ~Streaming' /\ (Reported' <=> Reported)
    BY <1>1, <1>3, <1>4 DEF Committed, Streaming, Reported
  <2>2. log'[1].usage = u
    BY <1>8, <1>10
  <2> QED BY <1>1, <1>4, <1>8, <1>9, <1>10, <2>1, <2>2 DEF BookedExactly
<1> QED BY <1>5, <1>6, <1>7, <1>11 DEF IInv

-----------------------------------------------------------------------------
(* The stream's beginning. *)
LEMMA PlaceZero ==
    ASSUME NEW f \in Forms, NEW n \in Nat \ {0}
    PROVE  Placed(f, n, 0, 0, 0) /\ ParserAt(f, 0, 0, 0) = NewParser /\ Ahead(f, n, 0) = Bytes(f, n)
<1>0. /\ FrameLen(f) \in Nat \ {0} /\ TextLen(f) \in Nat \ {0}
      /\ Lead(f) \in Nat \ {0} /\ TextLen(f) - EndLen(f) # 0
  BY DEF Forms, FrameLen, TextLen, Lead, EndLen
<1>1. 0 \div FrameLen(f) = 0 /\ (0 % FrameLen(f)) = 0 /\ TextLen(f) * 0 = 0
  BY <1>0
<1>2. Chars(f, 0) = 0 /\ Taken(f, 0, 0) = 0 /\ Carry(f, 0) = NoByte
  BY <1>0, <1>1 DEF Chars, Taken, Carry
<1>3. LinesAt(f, 0, 0) = <<>> /\ NameAt(f, 0, 0) = 0
  BY <1>0 DEF LinesAt, NameAt
<1>4. Row(f, 0, 0) = <<>>
  BY RowNone
<1>5. ParserAt(f, 0, 0, 0) = NewParser
  <2>1. Chars(f, 0) - Taken(f, 0, 0) = 0
    BY <1>2
  <2> QED BY <1>2, <1>3, <1>4, <2>1 DEF ParserAt, NewParser
<1>6. 0 \in LineStarts(f)
  BY DEF LineStarts
<1>7. FrameLen(f) * n \in Nat
  BY <1>0
<1>8. Placed(f, n, 0, 0, 0)
  BY <1>2, <1>6, <1>7 DEF Placed
<1>9. Ahead(f, n, 0) = Bytes(f, n)
  <2>1. FrameLen(f) * n - 0 = FrameLen(f) * n /\ \A j \in 1 .. FrameLen(f) * n : 0 + j = j
    BY <1>7
  <2> QED BY <2>1 DEF Ahead, Bytes
<1> QED BY <1>5, <1>8, <1>9

(* A new adapter is at its beginning. *)
LEMMA AdapterZero ==
    ASSUME NEW A \in AllAdapters, NEW answer \in Answers, NEW n, n = Len(Script(A, answer)),
           NEW S, S = ShapeOf(A, answer.usage), NEW U
    PROVE  /\ StateAt(S, U, n, 0, NewAdapter) /\ Stages(S, n, 0, NewAdapter.role) = {"none"}
           /\ S \in {"openai", "mistral"} => n - 1 # 0
<1> DEFINE s == Script(A, answer)
<1>0. /\ A \notin {"openai", "mistral"} => S = A
      /\ A \in {"openai", "mistral"} => S \in {"openai", "mistral"}
  BY ShapeIs
<1>1. n \in Nat \ {0}
  BY ScriptLen
<1>2. S = "anthropic" => n >= 4
  <2> HAVE S = "anthropic"
  <2>0. A = "anthropic"
    BY <1>0
  <2>1. AnthropicIs(s, readUsage(answer.usage))
    BY <2>0, AnthropicShape, ScriptIs
  <2> HIDE DEF s
  <2> QED BY <2>1, Zenon DEF AnthropicIs, s
<1>3. S \in {"openai", "mistral"} => n - 1 # 0
  <2> HAVE S \in {"openai", "mistral"}
  <2>0. A \in {"openai", "mistral"}
    BY <1>0
  <2>1. OpenAIIs(S, s, answer.usage)
    <3>1. s = OpenAIScript(A, answer)
      BY <2>0, ScriptIs
    <3>2. OpenAIIs(ShapeOf(A, answer.usage), OpenAIScript(A, answer), answer.usage)
      BY <2>0, OpenAIShape
    <3> HIDE DEF s
    <3> QED BY <3>1, <3>2
  <2> HIDE DEF s
  <2>2. PICK all : ChunksAre(S, all, answer.usage) /\ IsSeq(s) /\ Len(s) = Len(all) + 1
    BY <2>1, Zenon DEF OpenAIIs
  <2>3. Len(all) \in Nat
    BY <2>2, Zenon DEF ChunksAre
  <2>4. Len(all) >= 2 \/ Len(all) >= 3
    BY <2>2, Zenon DEF ChunksAre
  <2> QED BY <2>2, <2>3, <2>4 DEF s
<1>4. DOMAIN NewAdapter = Fields /\ NewAdapter.role = FALSE /\ NewAdapter.usage = Zero
  BY DEF NewAdapter, Fields
<1>5. UsageAt(S, U, n, 0) = Zero
  <2>1. CASE S = "anthropic"
    <3>1. ~(0 >= n - 1) /\ ~(0 >= 1)
      BY <1>1, <1>2, <2>1
    <3> QED BY <2>1, <3>1 DEF UsageAt, Zero
  <2>2. CASE S # "anthropic"
    <3>1. 0 # n
      BY <1>1
    <3> QED BY <2>2, <3>1 DEF UsageAt
  <2> QED BY <2>1, <2>2
<1>6. 0 < n /\ ~(0 >= 1)
  BY <1>1
<1>7. StateAt(S, U, n, 0, NewAdapter)
  <2>1. NewAdapter.role \in BOOLEAN
    BY <1>4, Zenon
  <2> QED BY <1>4, <1>5, <1>6, <2>1 DEF StateAt
<1>8. Stages(S, n, 0, NewAdapter.role) = {"none"}
  BY <1>4 DEF Stages
<1> QED BY <1>3, <1>7, <1>8

LEMMA SameScript ==
    ASSUME req' = req
    PROVE  N' = N /\ NativeEvents' = NativeEvents /\ Shape' = Shape /\ Cost' = Cost
BY DEF N, NativeEvents, Shape, Cost

(* The stream begins: no byte read, no event seen, no chunk made. *)
LEMMA StepHeaders ==
    ASSUME IInv, HeadersOk
    PROVE  IInv'
<1>1. /\ pc = "fetching" /\ pc' = (IF Streaming THEN "pulling" ELSE "reading")
      /\ net' = IF Streaming THEN Wire ELSE <<>>
      /\ req' = req /\ gone' = gone /\ fate' = fate /\ sse' = sse /\ ad' = ad /\ queue' = queue
      /\ over' = over /\ verdict' = verdict /\ UNCHANGED ledger /\ cause' = cause
  BY DEF HeadersOk
<1>2. pc \in Early
  BY <1>1 DEF Early
<1>3. Causes /\ Fresh /\ Control /\ Tallied
  BY DEF IInv
<1>4. cause = "none" /\ ~gone
  BY <1>1, <1>3 DEF Causes
<1>5. /\ net = <<>> /\ fate = "eof" /\ sse = NewParser /\ ad = NewAdapter
      /\ queue = <<>> /\ over = "more" /\ sent = <<>>
      /\ tally = [in |-> PromptGuess, out |-> 0, final |-> FALSE]
  BY <1>2, <1>3 DEF Fresh
<1>6. CASE ~Streaming
  <2>1. pc' = "reading" /\ UNCHANGED <<req, stream, verdict, ledger>>
    BY <1>1, <1>5, <1>6 DEF stream
  <2>2. pc' \in Early /\ Causes'
    BY <1>1, <1>4, <2>1 DEF Early, Causes, Flowing
  <2> QED BY <1>2, <1>6, <2>1, <2>2, StaysEarly
<1>7. CASE Streaming
  <2>1. pc' = "pulling" /\ net' = Wire /\ tally' = tally /\ sent' = sent /\ log' = log
    BY <1>1, <1>7 DEF ledger
  <2>2. Control'
    BY <1>1, <1>2, <1>3, <2>1 DEF Control, Flowing, Early, Streaming, NoVerdict
  <2>3. Causes' /\ Fresh'
    BY <1>1, <1>4, <1>5, <2>1 DEF Causes, Fresh, Flowing, Early
  <2>4. Flow'
    <3> DEFINE f == req.framing
               A == req.adapter
               S == Shape
               U == Cost
    <3>1. /\ f \in Forms /\ N \in Nat \ {0} /\ DOMAIN NativeEvents = 1 .. N /\ A \in AllAdapters
          /\ req.answer \in Answers /\ N = Len(Script(A, req.answer))
      BY <1>3, Requested
    <3>2. Wire = Bytes(f, N)
      BY <3>1, WireIs
    <3>3. Placed(f, N, 0, 0, 0) /\ ParserAt(f, 0, 0, 0) = NewParser /\ Ahead(f, N, 0) = Bytes(f, N)
      BY <3>1, PlaceZero
    <3>4. /\ StateAt(S, U, N, 0, NewAdapter) /\ Stages(S, N, 0, NewAdapter.role) = {"none"}
          /\ S \in {"openai", "mistral"} => N - 1 # 0
      BY <3>1, AdapterZero DEF Shape
    <3>5. KindOf(<<>>, "none") = "none" /\ \A V : ChunksOK(<<>>, "none", V)
      BY NoChunks
    <3>6. N' = N /\ Shape' = Shape /\ Cost' = Cost
      BY <1>1, SameScript
    <3>7. 0 \in 0 .. N /\ 0 \in LineStarts(f) /\ 0 \in 0 .. FrameLen(f) * N
      <4>1. 0 \in 0 .. N
        BY <3>1
      <4> QED BY <3>3, <4>1 DEF Placed
    <3>8. AtPlace(N, 0, 0, 0)'
      BY <1>1, <1>5, <2>1, <3>2, <3>3, <3>6 DEF AtPlace
    <3>9. Underway(N, 0, "none")'
      <4>1. (S \in {"openai", "mistral"} => 0 # N - 1)
        BY <3>1, <3>4
      <4> QED BY <1>1, <1>5, <3>4, <3>5, <3>6, <4>1 DEF Underway
    <3>10. Somewhere("none")'
      BY <1>1, <3>6, <3>7, <3>8, <3>9 DEF Somewhere
    <3>11. Ordered("none")'
      BY <1>1, <1>5, <2>1, <3>5, <3>10 DEF Ordered, Regular
    <3> QED BY <1>1, <1>5, <3>11 DEF Flow, Kinds
  <2>5. Tallied'
    <3>1. Estimate' = Estimate
      BY <2>1, EstimateIs
    <3>2. tally.final = FALSE /\ pc # "ended" /\ pc' # "ended" /\ pc' # "writing" /\ over' # "return"
      BY <1>1, <1>5, <2>1
    <3> QED BY <1>3, <2>1, <3>1, <3>2 DEF Tallied
  <2>6. verdict = NoVerdict /\ log = <<>>
    BY <1>2, <1>3 DEF Control, Early
  <2>7. BlameIsRight' /\ BookedExactly'
    BY <1>1, <2>1, <2>6, NoRow DEF BlameIsRight, BookedExactly, NoVerdict
  <2> QED BY <2>2, <2>3, <2>4, <2>5, <2>7 DEF IInv
<1> QED BY <1>6, <1>7

-----------------------------------------------------------------------------
(* Steps of a stream. *)
LEMMA FlowingFacts ==
    ASSUME IInv, pc \in Flowing
    PROVE  /\ Control /\ Causes /\ Flow /\ Tallied
           /\ pc # "ended" /\ pc \notin Early /\ Streaming /\ log = <<>>
           /\ verdict \in {NoVerdict, "success"}
           /\ \E last \in Kinds : Ordered(last)
<1>1. Control /\ Causes /\ Flow /\ Tallied
  BY DEF IInv
<1>2. pc # "ended" /\ pc \notin Early
  BY DEF Flowing, Early
<1>3. Streaming /\ log = <<>>
  BY <1>1, <1>2 DEF Control
<1>4. verdict \in {NoVerdict, "success"}
  BY <1>1 DEF Control, Flowing
<1>5. \E last \in Kinds : Ordered(last)
  BY <1>1 DEF Flow
<1> QED BY <1>1, <1>2, <1>3, <1>4, <1>5

(* A step inside the stream books nothing and blames no one. *)
LEMMA StillFlowing ==
    ASSUME IInv, pc \in Flowing, pc' \in Flowing, log' = log, verdict' \in {NoVerdict, "success"}
    PROVE  Fresh' /\ BlameIsRight' /\ BookedExactly'
<1>1. log' = <<>> /\ pc' # "ended" /\ pc' \notin Early
  BY FlowingFacts DEF Flowing, Early
<1>2. Fresh' /\ BlameIsRight'
  BY <1>1 DEF Fresh, BlameIsRight, NoVerdict
<1> QED BY <1>1, <1>2, NoRow DEF BookedExactly

(* A usage that may be paid stays payable. *)
LEMMA PayableGrows ==
    ASSUME req' = req,
           over = "return" /\ net = <<>> /\ fate = "eof" /\ cause # "none" =>
               over' = "return" /\ net' = <<>> /\ fate' = "eof" /\ cause' # "none"
    PROVE  Payable \subseteq Payable'
BY SameScript DEF Payable

(* More usages allowed. *)
LEMMA ChunksWiden ==
    ASSUME NEW chunks, NEW last, NEW V, NEW W, ChunksOK(chunks, last, V), V \subseteq W
    PROVE  ChunksOK(chunks, last, W)
BY DEF ChunksOK

(* `usage' is a stage only after `finish'. *)
LEMMA UsageStage ==
    ASSUME NEW A, NEW n, NEW k, NEW role, "usage" \in Stages(A, n, k, role)
    PROVE  "finish" \in Stages(A, n, k, role)
BY DEF Stages, Deltas

(* The place in the stream, when a step leaves parser and adapter alone. *)
LEMMA StaysSomewhere ==
    ASSUME NEW last, NEW m, Somewhere(last), req' = req, sse' = sse, ad' = ad,
           net' = net \/ (net' = <<>> /\ cause' # "none"),
           cause # "none" => cause' = cause,
           \/ KindOf(queue', m) = KindOf(queue, last)
           \/ KindOf(queue, last) = "usage" /\ KindOf(queue', m) = "finish",
           Costed => Costed'
    PROVE  Somewhere(m)'
<1>1. PICK k \in 0 .. N, r \in LineStarts(req.framing), c \in 0 .. FrameLen(req.framing) * N :
            AtPlace(N, k, r, c) /\ Underway(N, k, last)
  BY DEF Somewhere
<1>2. N' = N /\ Shape' = Shape /\ Cost' = Cost
  BY SameScript
<1>3. AtPlace(N, k, r, c)'
  BY <1>1, <1>2 DEF AtPlace
<1>4. KindOf(queue', m) \in Stages(Shape, N, k, ad.role)
  BY <1>1, UsageStage DEF Underway
<1>5. Underway(N, k, m)'
  BY <1>1, <1>2, <1>4 DEF Underway
<1> QED BY <1>1, <1>2, <1>3, <1>5 DEF Somewhere

(* The order, when a step leaves parser, adapter and queue alone. *)
LEMMA StaysOrdered ==
    ASSUME NEW last, Ordered(last), req' = req, sse' = sse, ad' = ad, queue' = queue, over' = over,
           net' = net \/ (net' = <<>> /\ cause' # "none"),
           cause # "none" => cause' = cause,
           Costed => Costed', Payable \subseteq Payable',
           gone' \/ (~gone /\ sent' = sent)
    PROVE  Ordered(last)'
<1>1. (~gone => last = KindOf(sent, "none"))'
  BY DEF Ordered
<1>2. CASE Regular(last)
  <2>1. over = "more" => Somewhere(last)'
    BY <1>2, StaysSomewhere DEF Regular
  <2>2. ChunksOK(queue, last, Payable')
    BY <1>2, ChunksWiden DEF Regular
  <2> QED BY <1>1, <2>1, <2>2 DEF Ordered, Regular
<1>3. CASE Struck(last)
  BY <1>1, <1>3 DEF Ordered, Struck
<1> QED BY <1>2, <1>3 DEF Ordered

(* The client leaves. *)
LEMMA StepDisconnect ==
    ASSUME IInv, Disconnect
    PROVE  IInv'
<1>1. /\ ~gone /\ pc # "ended" /\ gone' = TRUE /\ Blame("client") /\ req' = req /\ UNCHANGED stream
      /\ net' = net /\ fate' = fate /\ sse' = sse /\ ad' = ad /\ queue' = queue /\ over' = over
  BY DEF Disconnect, stream
<1>2. cause' = IF cause = "none" THEN "client" ELSE cause
  BY <1>1 DEF Blame
<1>3. CASE pc \in {"fetching", "reading"}
  <2>1. Throw("aborted") /\ ~Retryable("aborted") /\ pc \in Early
    BY <1>3 DEF Disconnect, Retryable, Early
  <2>2. ~Committed /\ cause = "none"
    BY <1>3, <2>1, EarlyFacts DEF Causes
  <2>3. cause' = "client"
    BY <1>2, <2>2
  <2> QED BY <1>1, <2>1, <2>2, <2>3, Thrown
<1>4. CASE pc \in {"refusal", "rejection"}
  <2>1. Throw(RefusalError) /\ pc \in Early
    BY <1>4 DEF Disconnect, Early
  <2>2. cause # "none"
    BY <1>4, <2>1, EarlyFacts DEF Causes
  <2> QED BY <1>1, <1>2, <1>4, <2>1, <2>2, Refused
<1>5. CASE pc \notin {"fetching", "reading", "refusal", "rejection"}
  <2>1. UNCHANGED <<pc, timer, verdict, ledger>>
    BY <1>5 DEF Disconnect
  <2>2. pc' = pc /\ verdict' = verdict /\ tally' = tally /\ sent' = sent /\ log' = log
    BY <2>1 DEF ledger
  <2>3. CASE pc = "start"
    <3>1. pc \in Early /\ pc' \in Early /\ pc' # "reading" /\ pc' # "fetching"
      BY <2>2, <2>3 DEF Early
    <3>2. cause = "none"
      BY <1>1, <2>3, <3>1, EarlyFacts DEF Causes
    <3>3. Causes'
      BY <1>1, <1>2, <2>2, <2>3, <3>2 DEF Causes, Flowing
    <3> QED BY <1>1, <2>1, <3>1, <3>3, StaysEarly
  <2>4. CASE pc \in Flowing
    <3>1. /\ Control /\ Causes /\ Flow /\ Tallied /\ pc # "ended" /\ Streaming /\ log = <<>>
          /\ verdict \in {NoVerdict, "success"}
      BY <2>4, FlowingFacts
    <3>2. PICK last \in Kinds : Ordered(last)
      BY <2>4, FlowingFacts
    <3>3. Fresh' /\ BlameIsRight' /\ BookedExactly'
      BY <2>2, <2>4, <3>1, StillFlowing
    <3>4. Control'
      BY <1>1, <2>2, <3>1 DEF Control, Streaming
    <3>5. Causes'
      BY <1>1, <1>2, <2>2, <2>4, <3>1 DEF Causes, Flowing, Committed
    <3>6. Payable \subseteq Payable'
      BY <1>1, <1>2, PayableGrows
    <3>7. Costed' = Costed
      BY <1>1, <2>2 DEF Costed
    <3>8. Flow'
      <4>3. Ordered(last)'
        BY <1>1, <1>2, <3>2, <3>6, <3>7, StaysOrdered
      <4> QED BY <1>1, <3>1, <4>3 DEF Flow
    <3>9. Tallied'
      <4>1. Estimate' = Estimate /\ cause' # "none" /\ Cost' = Cost
        BY <1>1, <1>2, <2>2, EstimateIs, SameScript
      <4> QED BY <1>1, <2>2, <3>1, <3>6, <4>1 DEF Tallied
    <3> QED BY <3>3, <3>4, <3>5, <3>8, <3>9 DEF IInv
  <2> QED BY <1>1, <1>5, <2>3, <2>4 DEF IInv, Control, Early, Flowing
<1> QED BY <1>3, <1>4, <1>5

(* The connection is cut or the body ends early: what is lost was still ahead. *)
LEMMA StepCut ==
    ASSUME IInv, NEW end \in {"eof", "reset"}, Cut(end)
    PROVE  IInv'
<1>1. /\ pc = "pulling" /\ ~gone /\ net # <<>> /\ net' = <<>> /\ fate' = end /\ Blame("body")
      /\ req' = req /\ pc' = pc /\ gone' = gone /\ sse' = sse /\ ad' = ad /\ queue' = queue
      /\ over' = over /\ verdict' = verdict /\ tally' = tally /\ sent' = sent /\ log' = log
  BY DEF Cut, ledger
<1>2. cause' = IF cause = "none" THEN "body" ELSE cause
  BY <1>1 DEF Blame
<1>3. pc \in Flowing /\ pc' \in Flowing
  BY <1>1 DEF Flowing
<1>4. /\ Control /\ Causes /\ Flow /\ Tallied /\ pc # "ended" /\ Streaming /\ log = <<>>
      /\ verdict \in {NoVerdict, "success"}
  BY <1>3, FlowingFacts
<1>5. PICK last \in Kinds : Ordered(last)
  BY <1>3, FlowingFacts
<1>6. Fresh' /\ BlameIsRight' /\ BookedExactly'
  BY <1>1, <1>3, <1>4, StillFlowing
<1>7. Control'
  BY <1>1, <1>4 DEF Control, Streaming
<1>8. Causes'
  BY <1>1, <1>2, <1>3, <1>4 DEF Causes, Flowing, Committed
<1>9. Payable \subseteq Payable'
  BY <1>1, <1>2, PayableGrows
<1>10. Costed' = Costed
  BY <1>1 DEF Costed
<1>11. Flow'
  <2>3. Ordered(last)'
    BY <1>1, <1>2, <1>5, <1>9, <1>10, StaysOrdered
  <2> QED BY <1>1, <1>4, <2>3 DEF Flow
<1>12. Tallied'
  <2>1. Estimate' = Estimate /\ cause' # "none"
    BY <1>1, <1>2, EstimateIs
  <2> QED BY <1>1, <1>4, <1>9, <2>1 DEF Tallied
<1> QED BY <1>6, <1>7, <1>8, <1>11, <1>12 DEF IInv

(* The client takes bytes again. *)
LEMMA StepDrained ==
    ASSUME IInv, Drained
    PROVE  IInv'
<1>1. /\ pc = "draining" /\ ~gone /\ pc' = "pulling"
      /\ req' = req /\ gone' = gone /\ net' = net /\ fate' = fate /\ sse' = sse /\ ad' = ad
      /\ queue' = queue /\ over' = over /\ verdict' = verdict /\ tally' = tally /\ sent' = sent
      /\ log' = log /\ cause' = cause
  BY DEF Drained, ledger, stream
<1>3. pc \in Flowing /\ pc' \in Flowing
  BY <1>1 DEF Flowing
<1>4. /\ Control /\ Causes /\ Flow /\ Tallied /\ pc # "ended" /\ Streaming /\ log = <<>>
      /\ verdict \in {NoVerdict, "success"}
  BY <1>3, FlowingFacts
<1>5. PICK last \in Kinds : Ordered(last)
  BY <1>3, FlowingFacts
<1>6. Fresh' /\ BlameIsRight' /\ BookedExactly'
  BY <1>1, <1>3, <1>4, StillFlowing
<1>7. Control'
  BY <1>1, <1>3, <1>4 DEF Control, Streaming, Early
<1>8. Causes'
  BY <1>1, <1>3, <1>4 DEF Causes, Flowing, Committed
<1>9. Payable \subseteq Payable' /\ Payable' = Payable
  BY <1>1, SameScript DEF Payable
<1>10. Costed' = Costed
  BY <1>1 DEF Costed
<1>11. Flow'
  <2>3. Ordered(last)'
    BY <1>1, <1>5, <1>9, <1>10, StaysOrdered
  <2> QED BY <1>1, <1>4, <2>3 DEF Flow
<1>12. Tallied'
  <2>1. Estimate' = Estimate /\ Cost' = Cost
    BY <1>1, EstimateIs, SameScript
  <2> QED BY <1>1, <1>4, <1>9, <1>10, <2>1 DEF Tallied
<1> QED BY <1>6, <1>7, <1>8, <1>11, <1>12 DEF IInv

(* Anthropic's error event throws; OpenAI's and Mistral's is passed on. *)
LEMMA ErrorTurn ==
    ASSUME NEW st
    PROVE  /\ Normalise("anthropic", st, ErrorEvent).end = "throw"
           /\ Normalise("anthropic", st, ErrorEvent).chunks = <<>>
           /\ \A A \in {"openai", "mistral"} :
                 /\ Normalise(A, st, ErrorEvent).end = "more"
                 /\ Normalise(A, st, ErrorEvent).chunks = <<Chunk("error")>>
<1>1. ErrorEvent.type = "error" /\ ErrorEvent.chunk = Chunk("error")
  <2> DEFINE v == Ev("error")
             c == Chunk("error")
  <2>1. v.type = "error" /\ DOMAIN v = {"type", "index", "parts", "reason", "usage", "chunk"}
    BY EvIs
  <2>2. [v EXCEPT !.chunk = c].type = "error" /\ [v EXCEPT !.chunk = c].chunk = c
    <3> HIDE DEF v, c
    <3> QED BY <2>1
  <2> QED BY <2>2 DEF ErrorEvent
<1> DEFINE ev == ErrorEvent
<1> HIDE DEF ev
<1>e. ev.type = "error" /\ ev.chunk = Chunk("error")
  BY <1>1 DEF ev
<1>2. AnthropicEvent(st, ev) = [Yield(st, <<>>) EXCEPT !.end = "throw"]
  BY <1>e DEF AnthropicEvent
<1>3. OpenAIEvent(st, ev) = Yield(st, <<Chunk("error")>>)
  BY <1>e, OpenAIArms
<1>4. AnthropicEvent(st, ev).end = "throw" /\ AnthropicEvent(st, ev).chunks = <<>>
  BY <1>2 DEF Yield
<1>5. OpenAIEvent(st, ev).end = "more" /\ OpenAIEvent(st, ev).chunks = <<Chunk("error")>>
  BY <1>3, YieldIs
<1>6. /\ Normalise("anthropic", st, ev) = AnthropicEvent(st, ev)
      /\ \A A \in {"openai", "mistral"} : Normalise(A, st, ev) = OpenAIEvent(st, ev)
  BY NormaliseIs
<1> QED BY <1>4, <1>5, <1>6 DEF ev

(* No place in an answer is after an error. *)
LEMMA NoErrorStage ==
    ASSUME NEW A, NEW n, NEW k, NEW role
    PROVE  "error" \notin Stages(A, n, k, role)
BY DEF Stages, Deltas

(* An error event in the stream. *)
LEMMA StepOverloaded ==
    ASSUME IInv, Overloaded
    PROVE  IInv'
<1> DEFINE step == Normalise(req.adapter, ad, ErrorEvent)
<1>1. /\ pc = "pulling" /\ ~gone /\ net # <<>> /\ net' = <<>> /\ over = "more" /\ queue = <<>>
      /\ sse = NewParser /\ req.adapter \in {"anthropic", "openai", "mistral"}
      /\ over' = step.end /\ queue' = step.chunks /\ Blame("upstream")
      /\ req' = req /\ pc' = pc /\ gone' = gone /\ sse' = sse /\ ad' = ad
      /\ verdict' = verdict /\ tally' = tally /\ sent' = sent /\ log' = log
  BY DEF Overloaded, Pulling, ledger
<1>0. /\ req.adapter = "anthropic" => step.end = "throw" /\ step.chunks = <<>>
      /\ req.adapter \in {"openai", "mistral"} => step.end = "more" /\ step.chunks = <<Chunk("error")>>
  BY ErrorTurn
<1> HIDE DEF step
<1>3. pc \in Flowing /\ pc' \in Flowing
  BY <1>1 DEF Flowing
<1>4. /\ Control /\ Causes /\ Flow /\ Tallied /\ pc # "ended" /\ Streaming /\ log = <<>>
      /\ verdict \in {NoVerdict, "success"}
  BY <1>3, FlowingFacts
<1>2. cause' = "upstream"
  BY <1>1, <1>3, <1>4 DEF Blame, Causes
<1>5. PICK last \in Kinds : Ordered(last)
  BY <1>3, FlowingFacts
<1>r. Regular(last) /\ Somewhere(last)
  BY <1>1, <1>5 DEF Ordered, Struck, Regular
<1>6. Fresh' /\ BlameIsRight' /\ BookedExactly'
  BY <1>1, <1>3, <1>4, StillFlowing
<1>7. Control'
  BY <1>1, <1>4 DEF Control, Streaming
<1>b. over' \in {"more", "throw"}
  BY <1>0, <1>1
<1>o. <<Chunk("error")>> # <<>>
  OBVIOUS
<1>8. Causes'
  <2>1. over' # "throw" => queue' # <<>>
    BY <1>0, <1>1, <1>o
  <2> QED BY <1>1, <1>2, <1>3, <2>1 DEF Causes, Flowing
<1>9. Payable \subseteq Payable' /\ Cost' = Cost
  BY <1>1, PayableGrows, SameScript
<1>11. Flow'
  <2>1. CASE req.adapter = "anthropic"
    <3>1. queue' = queue /\ over' = "throw"
      BY <1>0, <1>1, <2>1
    <3>2. ChunksOK(queue, last, Payable')
      BY <1>r, <1>9, ChunksWiden DEF Regular
    <3>3. Ordered(last)'
      BY <1>1, <1>5, <3>1, <3>2 DEF Ordered, Regular
    <3> QED BY <1>b, <3>3 DEF Flow
  <2>2. CASE req.adapter \in {"openai", "mistral"}
    <3>1. queue' = <<Chunk("error")>> /\ over' = "more"
      BY <1>0, <1>1, <2>2
    <3>2. last # "error"
      <4>1. PICK k \in 0 .. N : KindOf(queue, last) \in Stages(Shape, N, k, ad.role)
        BY <1>r DEF Somewhere, Underway
      <4>2. KindOf(queue, last) = last
        BY <1>1, NoChunks
      <4> QED BY <4>1, <4>2, NoErrorStage
    <3>3. Struck(last)'
      BY <1>1, <1>2, <2>2, <3>1, <3>2 DEF Struck
    <3>4. Ordered(last)'
      BY <1>1, <1>5, <3>3 DEF Ordered
    <3> QED BY <1>b, <3>4 DEF Flow
  <2> QED BY <1>1, <2>1, <2>2
<1>12. Tallied'
  <2>1. Estimate' = Estimate
    BY <1>1, EstimateIs
  <2> QED BY <1>1, <1>4, <1>9, <1>b, <2>1 DEF Tallied
<1> QED BY <1>6, <1>7, <1>8, <1>11, <1>12 DEF IInv

(* The read rejects. *)
LEMMA StepRejects ==
    ASSUME IInv, ReadRejects
    PROVE  IInv'
<1>1. /\ pc = "pulling" /\ over = "more" /\ queue = <<>> /\ (gone \/ fate = "reset")
      /\ Throw(IF gone THEN "aborted" ELSE "reset") /\ req' = req /\ UNCHANGED stream
      /\ cause' = cause
  BY DEF ReadRejects, Pulling
<1>3. pc \in Flowing
  BY <1>1 DEF Flowing
<1>4. Causes /\ pc # "ended"
  BY <1>3, FlowingFacts
<1>5. cause # "none" /\ (Committed \/ cause \in {"client", "body"})
  BY <1>1, <1>3, <1>4 DEF Causes
<1>6. PICK e \in {"aborted", "reset"} : Throw(e)
  BY <1>1
<1>7. ~Retryable(e)
  BY DEF Retryable
<1> QED BY <1>1, <1>4, <1>5, <1>6, <1>7, Thrown

(* The error reaches the router, and Throw ends the call. *)
LEMMA StepThrows ==
    ASSUME IInv, StreamThrows
    PROVE  IInv'
<1>1. /\ pc = "pulling" /\ over = "throw" /\ Throw("provider") /\ req' = req /\ UNCHANGED stream
      /\ cause' = cause
  BY DEF StreamThrows
<1>3. pc \in Flowing
  BY <1>1 DEF Flowing
<1>4. Causes /\ pc # "ended"
  BY <1>3, FlowingFacts
<1>5. cause = "upstream" /\ Retryable("provider")
  BY <1>1, <1>3, <1>4 DEF Causes, Retryable
<1> QED BY <1>1, <1>4, <1>5, Thrown

(* The stream ends: the count is final, or the estimate is booked. *)
LEMMA StepEnds ==
    ASSUME IInv, StreamEnds
    PROVE  IInv'
<1> DEFINE u == [in |-> tally.in, out |-> tally.out]
           row == Entry(u, 200)
<1>1. /\ pc = "pulling" /\ queue = <<>> /\ over = "return" /\ pc' = "ended" /\ verdict' = "success"
      /\ log' = Append(log, row) /\ req' = req /\ over' = over /\ fate' = fate /\ tally' = tally
      /\ sent' = sent /\ cause' = cause
  BY DEF StreamEnds, stream, Entry
<1>2. pc \in Flowing
  BY <1>1 DEF Flowing
<1>3. Control /\ Flow /\ Tallied /\ pc # "ended" /\ log = <<>>
  BY <1>2, FlowingFacts
<1>4. Control'
  <2>1. "ended" \notin Flowing /\ "ended" \notin Early
    BY DEF Flowing, Early
  <2> QED BY <1>1, <1>3, <2>1 DEF Control
<1>5. Causes' /\ Fresh' /\ Flow' /\ Tallied'
  BY <1>1, <1>3 DEF Causes, Fresh, Flow, Tallied, Flowing, Early
<1>6. BlameIsRight'
  BY <1>1 DEF BlameIsRight
<1>r. (Reported' <=> Reported) /\ Estimate' = Estimate
  BY <1>1, EstimateIs DEF Reported
<1>7. Bookable(u)'
  <2>1. Bookable(u)
    BY <1>3, CountIsBookable
  <2> QED BY <1>1, <1>r, <2>1 DEF Bookable
<1>8. cause = "none" =>
        IF Reported THEN u = req.answer.usage
        ELSE IF req.adapter \in {"openai", "mistral"}
        THEN u.in = PromptGuess /\ u.out >= Estimate
        ELSE u = Zero
  <2> HAVE cause = "none"
  <2>1. ~HasUsage(queue)
    <3>1. Len(<<>>) = 0 /\ 1 .. 0 = {}
      OBVIOUS
    <3> QED BY <1>1, <3>1 DEF HasUsage
  <2>2. tally.final => u = Cost
    BY <1>3 DEF Tallied, Payable
  <2>3. u \in Usages /\ u.in = tally.in /\ u.out = tally.out
    BY <1>3 DEF Tallied, Usages
  <2> HIDE DEF u, row
  <2>4. u # NoUsage
    BY <2>3, UsageIsNot
  <2>5. Cost # NoUsage => tally.final
    BY <1>1, <1>3, <2>1 DEF Tallied, Costed
  <2>6. CASE tally.final
    BY <2>2, <2>4, <2>6, CostSays
  <2>7. CASE ~tally.final
    <3>1. Cost = NoUsage /\ tally.in = PromptGuess /\ tally.out >= Estimate
      BY <1>3, <2>5, <2>7 DEF Tallied
    <3>2. Zero # NoUsage /\ (Reported => req.answer.usage # NoUsage)
      BY DEF Zero, NoUsage, Reported
    <3>3. ~Reported /\ req.adapter \in {"openai", "mistral"}
      BY <3>1, <3>2, CostSays
    <3> QED BY <2>3, <3>1, <3>3
  <2> QED BY <2>6, <2>7
<1>9. row.usage = u /\ u' = u
  BY <1>1 DEF Entry
<1> HIDE DEF u, row
<1>10. Len(log') = 1 /\ DOMAIN log' = {1} /\ log'[1] = row
  BY <1>1, <1>3, OneRow
<1>11. BookedExactly'
  <2>1. Committed' /\ Streaming'
    BY <1>1, <1>2, <1>3 DEF Committed, Streaming, Control
  <2>2. log'[1].usage = u
    BY <1>9, <1>10
  <2>3. req'.kind # "embed" /\ Streaming' = TRUE
    BY <2>1 DEF Streaming
  <2> QED BY <1>1, <1>7, <1>8, <1>9, <1>10, <1>r, <2>1, <2>2, <2>3 DEF BookedExactly, Bookable
<1> QED BY <1>4, <1>5, <1>6, <1>11 DEF IInv

(* A read moves bytes from the network to the parser. *)
Incoming(f, c, m) == [j \in 1 .. m |-> ByteAt(f, c + j)]

Fits(f, n, c, m) == m \in Nat /\ m <= FrameLen(f) * n - c
Advanced(f, n, c, m) ==
    /\ SubSeq(Ahead(f, n, c), 1, m) = Incoming(f, c, m)
    /\ SubSeq(Ahead(f, n, c), m + 1, Len(Ahead(f, n, c))) = Ahead(f, n, c + m)
    /\ c + m \in 0 .. FrameLen(f) * n /\ Len(Ahead(f, n, c)) = FrameLen(f) * n - c

(* A read of m bytes: the parser at c + m, the rest still ahead. *)
LEMMA Advance ==
    ASSUME NEW f, NEW n, NEW k, NEW r, NEW c, Placed(f, n, k, r, c), NEW m, Fits(f, n, c, m)
    PROVE  Advanced(f, n, c, m)
<1> DEFINE l == FrameLen(f) * n - c
           L == FrameLen(f) * n
           a == Ahead(f, n, c)
           b == Incoming(f, c, m)
           e == Ahead(f, n, c + m)
<1>1. c \in Nat /\ FrameLen(f) * n \in Nat /\ c <= FrameLen(f) * n
  <2>1. f \in Forms /\ n \in Nat /\ c \in 0 .. FrameLen(f) * n
    BY DEF Placed
  <2>2. FrameLen(f) \in Nat
    BY <2>1, FrameLens
  <2>3. FrameLen(f) * n \in Nat
    BY <2>1, <2>2
  <2> QED BY <2>1, <2>3
<1>2. l \in Nat /\ l = L - c /\ L \in Nat /\ m <= l /\ m \in Nat
  BY <1>1 DEF Fits
<1> HIDE DEF L
<1>3. a = [j \in 1 .. l |-> ByteAt(f, c + j)]
  BY DEF Ahead, L
<1> HIDE DEF l
<1> DEFINE S == {ByteAt(f, c + j) : j \in 1 .. l}
<1>4. a \in Seq(S) /\ Len(a) = l /\ \A j \in 1 .. l : a[j] = ByteAt(f, c + j)
  <2>1. \A j \in 1 .. l : ByteAt(f, c + j) \in S
    OBVIOUS
  <2> HIDE DEF S, a
  <2> QED BY <1>2, <1>3, <2>1
<1>5. IsSeq(b) /\ Len(b) = m /\ \A j \in 1 .. m : b[j] = ByteAt(f, c + j)
  <2>0. m \in Nat
    BY <1>2
  <2> DEFINE R == {ByteAt(f, c + i) : i \in 1 .. m}
  <2>1. \A j \in 1 .. m : ByteAt(f, c + j) \in R
    OBVIOUS
  <2> HIDE DEF R
  <2>2. b \in Seq(R)
    BY <2>0, <2>1 DEF Incoming
  <2>3. IsSeq(b)
    BY <2>2, SeqIs
  <2>4. Len(b) = m /\ \A j \in 1 .. m : b[j] = ByteAt(f, c + j)
    BY <1>2 DEF Incoming
  <2> QED BY <2>3, <2>4
<1>6. IsSeq(e) /\ Len(e) = l - m /\ \A j \in 1 .. l - m : e[j] = ByteAt(f, (c + m) + j)
  <2>0. l - m \in Nat /\ L - (c + m) = l - m
    BY <1>1, <1>2
  <2>1. e = [j \in 1 .. l - m |-> ByteAt(f, (c + m) + j)]
    BY <2>0 DEF Ahead, L
  <2> DEFINE T == {ByteAt(f, (c + m) + j) : j \in 1 .. l - m}
  <2>2. \A j \in 1 .. l - m : ByteAt(f, (c + m) + j) \in T
    OBVIOUS
  <2> HIDE DEF T, e
  <2>3. e \in Seq(T) /\ Len(e) = l - m /\ \A j \in 1 .. l - m : e[j] = ByteAt(f, (c + m) + j)
    BY <2>0, <2>1, <2>2
  <2> QED BY <2>3, SeqIs
<1> HIDE DEF a, b, e, S
<1>7. SubSeq(a, 1, m) = b
  <2>1. \A i \in 1 .. m : a[i] \in S /\ 1 + i - 1 = i /\ i \in 1 .. l
    BY <1>2, <1>4
  <2>2. SubSeq(a, 1, m) \in Seq(S) /\ Len(SubSeq(a, 1, m)) = m
    BY <1>2, <1>4, <2>1
  <2>3. \A i \in 1 .. m : SubSeq(a, 1, m)[i] = a[i]
    BY <1>2, <1>4, <2>1
  <2>4. IsSeq(SubSeq(a, 1, m))
    BY <2>2, SeqIs
  <2> DEFINE d == SubSeq(a, 1, m)
  <2> HIDE DEF d
  <2>5. IsSeq(d) /\ Len(d) = Len(b) /\ \A i \in 1 .. Len(d) : d[i] = b[i]
    BY <1>4, <1>5, <2>1, <2>2, <2>3, <2>4 DEF d
  <2>6. d = b
    BY <1>5, <2>5, SameSeq
  <2> QED BY <2>6 DEF d
<1>8. SubSeq(a, m + 1, Len(a)) = e
  <2> DEFINE d == SubSeq(a, m + 1, Len(a))
  <2>1. m \in 0 .. Len(a)
    BY <1>2, <1>4
  <2>2. d \in Seq(S) /\ Len(d) = Len(a) - m /\ \A j \in 1 .. Len(a) - m : d[j] = a[m + j]
    BY <1>4, <2>1, SubSeqRest
  <2> HIDE DEF d
  <2>3. \A j \in 1 .. l - m : m + j \in 1 .. l /\ c + (m + j) = (c + m) + j
    BY <1>1, <1>2
  <2>4. IsSeq(d) /\ Len(d) = Len(e) /\ \A j \in 1 .. Len(d) : d[j] = e[j]
    BY <1>4, <1>6, <2>2, <2>3, SeqIs
  <2>5. d = e
    BY <1>6, <2>4, SameSeq
  <2> QED BY <2>5 DEF d
<1>9. c + m \in 0 .. L
  BY <1>1, <1>2
<1> QED BY <1>4, <1>7, <1>8, <1>9 DEF a, b, e, l, L, Advanced

(* DecodedIs, for the bytes of one read. *)
LEMMA DecodedTo ==
    ASSUME NEW f \in Forms, NEW c \in Nat, NEW k, NEW r, Taken(f, k, r) \in Nat,
           Taken(f, k, r) <= Chars(f, c), NEW n \in Nat
    PROVE  /\ Decoded(ParserAt(f, k, r, c), Incoming(f, c, n)) = ParserAt(f, k, r, c + n)
           /\ Taken(f, k, r) <= Chars(f, c + n)
BY DecodedIs, Zenon DEF Incoming

(* A read moves the parser by the bytes it took, wherever it cut them. *)
LEMMA StepRead ==
    ASSUME IInv, NEW n \in ReadSizes, Read(n)
    PROVE  IInv'
<1>1. /\ pc = "pulling" /\ over = "more" /\ queue = <<>> /\ ~gone /\ n <= Len(net)
      /\ sse' = Decoded(sse, SubSeq(net, 1, n)) /\ net' = SubSeq(net, n + 1, Len(net))
      /\ req' = req /\ pc' = pc /\ gone' = gone /\ fate' = fate /\ ad' = ad /\ queue' = queue
      /\ over' = over /\ verdict' = verdict /\ tally' = tally /\ sent' = sent /\ log' = log
      /\ cause' = cause
  BY DEF Read, Pulling, ledger
<1>2. n \in Nat /\ n > 0
  BY ProviderCallAssumption
<1>3. pc \in Flowing /\ pc' \in Flowing
  BY <1>1 DEF Flowing
<1>4. /\ Control /\ Causes /\ Flow /\ Tallied /\ pc # "ended" /\ Streaming /\ log = <<>>
      /\ verdict \in {NoVerdict, "success"}
  BY <1>3, FlowingFacts
<1>5. PICK last \in Kinds : Ordered(last)
  BY <1>3, FlowingFacts
<1>6. Fresh' /\ BlameIsRight' /\ BookedExactly'
  BY <1>1, <1>3, <1>4, StillFlowing
<1>7. Control'
  BY <1>1, <1>4 DEF Control, Streaming
<1>8. net # <<>>
  <2>1. Len(<<>>) = 0
    OBVIOUS
  <2> QED BY <1>1, <1>2, <2>1
<1>r. Regular(last) /\ (~gone => last = KindOf(sent, "none"))
  BY <1>5, <1>8 DEF Ordered, Struck
<1>9. Causes'
  BY <1>1, <1>3, <1>4, <1>8 DEF Causes, Flowing, Committed
<1>10. Payable \subseteq Payable' /\ Cost' = Cost /\ Shape' = Shape
  BY <1>1, PayableGrows, SameScript
<1>11. Costed' = Costed /\ Estimate' = Estimate
  BY <1>1, EstimateIs DEF Costed
<1>12. Somewhere(last)'
  <2>1. PICK k \in 0 .. N, r \in LineStarts(req.framing), c \in 0 .. FrameLen(req.framing) * N :
              AtPlace(N, k, r, c) /\ Underway(N, k, last)
    BY <1>1, <1>r DEF Regular, Somewhere
  <2> DEFINE f == req.framing
  <2>2. /\ Placed(f, N, k, r, c) /\ sse = ParserAt(f, k, r, c) /\ net = Ahead(f, N, c)
    BY <1>8, <2>1 DEF AtPlace
  <2>3. Len(net) = FrameLen(f) * N - c
    <3>1. 0 \in Nat /\ 0 <= FrameLen(f) * N - c
      <4>1. f \in Forms /\ N \in Nat /\ c \in 0 .. FrameLen(f) * N
        BY <2>2 DEF Placed
      <4>2. FrameLen(f) \in Nat
        BY <4>1, FrameLens
      <4>3. FrameLen(f) * N \in Nat
        BY <4>1, <4>2
      <4> QED BY <4>1, <4>3
    <3>2. Fits(f, N, c, 0)
      BY <3>1 DEF Fits
    <3>3. Advanced(f, N, c, 0)
      BY <2>2, <3>2, Advance
    <3> QED BY <2>2, <3>3 DEF Advanced
  <2>4. /\ SubSeq(net, 1, n) = Incoming(f, c, n)
        /\ net' = Ahead(f, N, c + n) /\ c + n \in 0 .. FrameLen(f) * N
    <3>1. n <= FrameLen(f) * N - c
      BY <1>1, <2>3
    <3>2. /\ SubSeq(net, 1, n) = Incoming(f, c, n)
          /\ SubSeq(net, n + 1, Len(net)) = Ahead(f, N, c + n) /\ c + n \in 0 .. FrameLen(f) * N
      <4>1. /\ SubSeq(Ahead(f, N, c), 1, n) = Incoming(f, c, n)
            /\ SubSeq(Ahead(f, N, c), n + 1, Len(Ahead(f, N, c))) = Ahead(f, N, c + n)
            /\ c + n \in 0 .. FrameLen(f) * N
        <5>1. Fits(f, N, c, n)
          BY <1>2, <3>1 DEF Fits
        <5>2. Advanced(f, N, c, n)
          BY <2>2, <5>1, Advance
        <5> QED BY <5>2 DEF Advanced
      <4> QED BY <2>2, <4>1, Zenon
    <3> QED BY <1>1, <3>2
  <2>5. /\ f \in Forms /\ c \in Nat /\ Taken(f, k, r) \in Nat /\ Taken(f, k, r) <= Chars(f, c)
    <3>1. f \in Forms /\ c \in Nat /\ Taken(f, k, r) \in Nat
      BY <2>2, PlacedFacts
    <3> QED BY <2>2, <3>1 DEF Placed
  <2>6. sse' = ParserAt(f, k, r, c + n) /\ Taken(f, k, r) <= Chars(f, c + n)
    <3>1. /\ Decoded(ParserAt(f, k, r, c), Incoming(f, c, n)) = ParserAt(f, k, r, c + n)
          /\ Taken(f, k, r) <= Chars(f, c + n)
      BY <1>2, <2>5, DecodedTo
    <3> QED BY <1>1, <2>2, <2>4, <3>1, Zenon
  <2>7. Placed(f, N, k, r, c + n)
    BY <2>2, <2>4, <2>6 DEF Placed
  <2>8. N' = N
    BY <1>1, SameScript
  <2> DEFINE d == c + n
  <2>d. net' = Ahead(f, N, d) /\ sse' = ParserAt(f, k, r, d) /\ Placed(f, N, k, r, d)
    BY <2>4, <2>6, <2>7
  <2>e. d \in 0 .. FrameLen(f) * N
    BY <2>4
  <2> HIDE DEF d
  <2>9. AtPlace(N, k, r, d)'
    BY <1>1, <2>8, <2>d DEF AtPlace
  <2>10. Underway(N, k, last)'
    BY <1>1, <1>10, <1>11, <2>1, <2>8 DEF Underway
  <2> QED BY <1>1, <2>1, <2>8, <2>9, <2>10, <2>e DEF Somewhere
<1>13. Flow'
  <2>2. ChunksOK(queue, last, Payable')
    BY <1>r, <1>10, ChunksWiden DEF Regular
  <2>3. Ordered(last)'
    BY <1>1, <1>r, <1>12, <2>2 DEF Ordered, Regular
  <2> QED BY <1>1, <1>4, <2>3 DEF Flow
<1>14. Tallied'
  BY <1>1, <1>4, <1>10, <1>11 DEF Tallied
<1> QED BY <1>6, <1>7, <1>9, <1>13, <1>14 DEF IInv

-----------------------------------------------------------------------------
(* JSON.parse of what the parser found. *)
LEMMA ParsedIs ==
    ASSUME NEW k, NEW e, Piece(k, e)
    PROVE  \/ Parsed(e) = NativeEvents[k + 1]
           \/ Parsed(e) = Ev("unknown")
           \/ /\ req.adapter \in {"anthropic", "cohere"}
              /\ Parsed(e) = Ev(NativeEvents[k + 1].type)
<1>1. CASE Len(e.data) = 1 /\ e.data[1][1] = "char"
  BY <1>1 DEF Parsed, Piece
<1>2. CASE /\ ~(Len(e.data) = 1 /\ e.data[1][1] = "char")
           /\ e.data # <<>> /\ e.name # 0 /\ req.adapter \in {"anthropic", "cohere"}
  <2>1. e.name = k + 1
    BY <1>2 DEF Piece
  <2> QED BY <1>2, <2>1 DEF Parsed
<1>3. CASE /\ ~(Len(e.data) = 1 /\ e.data[1][1] = "char")
           /\ ~(e.data # <<>> /\ e.name # 0 /\ req.adapter \in {"anthropic", "cohere"})
  BY <1>3 DEF Parsed
<1> QED BY <1>1, <1>2, <1>3

(* A whole event parses to itself. *)
LEMMA ParsedWhole ==
    ASSUME NEW k, NEW e, Len(e.data) = 1, e.data[1] = <<"char", k + 1>>
    PROVE  Parsed(e) = NativeEvents[k + 1]
<1>1. e.data[1][1] = "char" /\ e.data[1][2] = k + 1
  OBVIOUS
<1> QED BY <1>1 DEF Parsed

(* A parser that has read nothing has no line. *)
LEMMA NoLine == ~HasLine(NewParser)
<1>1. NewParser.buffer = <<>>
  BY DEF NewParser
<1>2. ~Contains(<<>>, LF)
  BY DEF Contains
<1> QED BY <1>1, <1>2 DEF HasLine

(* A turn of the adapter's loop inside the stream. *)
LEMMA StepParse ==
    ASSUME IInv, ParseLine
    PROVE  IInv'
<1> DEFINE f == req.framing
           A == req.adapter
           S == Shape
           U == Cost
           found == NextLine(sse)
           step == IF found.found THEN Normalise(A, ad, Parsed(found.event)) ELSE Yield(ad, <<>>)
<1>1. /\ pc = "pulling" /\ over = "more" /\ queue = <<>> /\ HasLine(sse)
      /\ sse' = found.parser /\ ad' = step.state /\ queue' = step.chunks /\ over' = step.end
      /\ req' = req /\ pc' = pc /\ gone' = gone /\ net' = net /\ fate' = fate
      /\ verdict' = verdict /\ tally' = tally /\ sent' = sent /\ log' = log /\ cause' = cause
  BY DEF ParseLine, Consume, Pulling, ledger
<1> HIDE DEF step, found
<1>3. pc \in Flowing /\ pc' \in Flowing
  BY <1>1 DEF Flowing
<1>4. /\ Control /\ Causes /\ Flow /\ Tallied /\ pc # "ended" /\ Streaming /\ log = <<>>
      /\ verdict \in {NoVerdict, "success"}
  BY <1>3, FlowingFacts
<1>5. PICK last \in Kinds : Ordered(last)
  BY <1>3, FlowingFacts
<1>6. Fresh' /\ BlameIsRight' /\ BookedExactly'
  BY <1>1, <1>3, <1>4, StillFlowing
<1>7. Control'
  BY <1>1, <1>4 DEF Control, Streaming
<1>r. Regular(last) /\ (~gone => last = KindOf(sent, "none"))
  BY <1>1, <1>5, NoLine DEF Ordered, Struck
<1>8. PICK k \in 0 .. N, r \in LineStarts(f), c \in 0 .. FrameLen(f) * N :
            AtPlace(N, k, r, c) /\ Underway(N, k, last)
  BY <1>1, <1>r DEF Regular, Somewhere
<1>9. /\ Placed(f, N, k, r, c) /\ sse = ParserAt(f, k, r, c)
      /\ net = Ahead(f, N, c) \/ (net = <<>> /\ cause # "none")
  BY <1>8 DEF AtPlace
<1>10. LineTaken(f, N, k, c, found)
  BY <1>1, <1>9, NextLineTakes DEF found
<1>11. /\ StateAt(S, U, N, k, ad) /\ last \in Stages(S, N, k, ad.role)
       /\ S \in {"openai", "mistral"} /\ k = N - 1 /\ U # NoUsage => tally.final
       /\ ~HasUsage(queue)
  <2>1. ~HasUsage(queue)
    <3>1. Len(<<>>) = 0 /\ 1 .. 0 = {}
      OBVIOUS
    <3> QED BY <1>1, <3>1 DEF HasUsage
  <2>2. KindOf(queue, last) = last
    BY <1>1 DEF KindOf
  <2> QED BY <1>8, <2>1, <2>2 DEF Underway, Costed
<1>12. N' = N /\ N \in Nat /\ Shape' = Shape /\ Cost' = Cost
  <2>1. N \in Nat
    BY <1>4, Requested
  <2> QED BY <1>1, <2>1, SameScript
<1>13. Payable = {U}
  BY <1>1 DEF Payable
<1>14. U \in Payable'
  BY <1>12 DEF Payable
<1>15. CASE ~found.found
  <2>1. step = Yield(ad, <<>>)
    BY <1>15 DEF step
  <2>2. ad' = ad /\ queue' = <<>> /\ over' = "more"
    BY <1>1, <2>1, YieldIs
  <2>3. PICK q \in LineStarts(f) : found.parser = ParserAt(f, k, q, c) /\ Placed(f, N, k, q, c)
    BY <1>10, <1>15 DEF LineTaken
  <2>4. AtPlace(N, k, q, c)'
    BY <1>1, <1>9, <1>12, <2>3 DEF AtPlace
  <2>5. Underway(N, k, last)'
    BY <1>1, <1>8, <1>12, <2>2 DEF Underway, Costed
  <2>6. Somewhere(last)'
    BY <1>1, <1>8, <1>12, <2>3, <2>4, <2>5 DEF Somewhere
  <2>7. ChunksOK(<<>>, last, Payable')
    BY NoChunks
  <2>8. Flow'
    <3>1. Ordered(last)'
      BY <1>1, <1>r, <2>2, <2>6, <2>7 DEF Ordered, Regular
    <3> QED BY <2>2, <3>1 DEF Flow
  <2>9. Causes'
    BY <1>1, <1>3, <1>4, <2>2 DEF Causes, Flowing, Committed
  <2>10. Tallied'
    <3>1. Estimate' = Estimate
      BY <1>1, EstimateIs
    <3> QED BY <1>1, <1>4, <1>12, <1>13, <1>14, <2>2, <3>1 DEF Tallied
  <2> QED BY <1>6, <1>7, <2>8, <2>9, <2>10 DEF IInv
<1>16. CASE found.found
  <2>1. /\ found.parser = ParserAt(f, k + 1, 0, c) /\ Placed(f, N, k + 1, 0, c)
        /\ Parsed(found.event) = NativeEvents[k + 1] /\ k + 1 \in 1 .. N
    BY <1>10, <1>16, ParsedWhole DEF LineTaken
  <2>2. step = Normalise(A, ad, NativeEvents[k + 1])
    BY <1>16, <2>1 DEF step
  <2>3. k \in 0 .. N - 1
    BY <1>12, <2>1
  <2>4. Effect(S, U, N, k, last, step)
    <3>1. A \in AllAdapters /\ req.answer \in Answers
      BY <1>4, Requested
    <3>2. NativeEvents = Script(A, req.answer) /\ N = Len(NativeEvents)
      BY DEF NativeEvents, N
    <3>s. S = ShapeOf(A, req.answer.usage) /\ U = CostOf(A, req.answer.usage)
      BY DEF Shape, Cost
    <3>3. Effect(S, U, N, k, last, Normalise(A, ad, NativeEvents[k + 1]))
      <4> HIDE DEF S, U, A
      <4> QED BY <1>11, <2>3, <3>1, <3>2, <3>s, TurnIs
    <3> QED BY <2>2, <3>3
  <2>5. /\ over' \in {"more", "return"}
        /\ ChunksOK(queue', last, {U})
        /\ over' = "more" =>
              /\ StateAt(S, U, N, k + 1, ad')
              /\ KindOf(queue', last) \in Stages(S, N, k + 1, ad'.role)
              /\ S \in {"openai", "mistral"} /\ k + 1 = N - 1 /\ U # NoUsage => HasUsage(queue')
        /\ over' = "return" =>
              HasUsage(queue') \/ (S \in {"openai", "mistral"} /\ k = N - 1)
    BY <1>1, <2>4 DEF Effect
  <2>6. ChunksOK(queue', last, Payable')
    BY <1>14, <2>5, ChunksWiden
  <2>7. over' = "more" => Somewhere(last)'
    <3> HAVE over' = "more"
    <3>1. AtPlace(N, k + 1, 0, c)'
      BY <1>1, <1>9, <1>12, <2>1 DEF AtPlace
    <3>2. Underway(N, k + 1, last)'
      BY <1>1, <1>12, <2>5 DEF Underway, Costed
    <3>3. k + 1 \in 0 .. N /\ 0 \in LineStarts(f)
      BY <1>12, <2>1 DEF Placed
    <3> QED BY <1>1, <1>8, <1>12, <3>1, <3>2, <3>3 DEF Somewhere
  <2>8. Flow'
    <3>1. Ordered(last)'
      BY <1>1, <1>r, <2>6, <2>7 DEF Ordered, Regular
    <3> QED BY <2>5, <3>1 DEF Flow
  <2>9. Causes'
    BY <1>1, <1>3, <1>4, <2>5 DEF Causes, Flowing, Committed
  <2>10. Tallied'
    <3>1. Estimate' = Estimate
      BY <1>1, EstimateIs
    <3>2. over' = "return" /\ U # NoUsage => Costed'
      BY <1>1, <1>11, <2>5 DEF Costed
    <3> QED BY <1>1, <1>4, <1>12, <1>13, <1>14, <3>1, <3>2 DEF Tallied
  <2> QED BY <1>6, <1>7, <2>8, <2>9, <2>10 DEF IInv
<1> QED BY <1>15, <1>16

(* What the adapter's generator yields after its loop. *)
LEMMA ClosingChunks ==
    ASSUME NEW A, NEW st, NEW last, NEW chunks, NEW V, ChunksOK(chunks, last, V),
           A \in {"gemini", "cohere"} =>
               /\ st.role \in BOOLEAN /\ st.usage \in V
               /\ KindOf(chunks, last) \in IF st.role THEN Deltas ELSE {"none"}
    PROVE  /\ ChunksOK(chunks \o NormaliseEnd(A, st), last, V)
           /\ A \in {"gemini", "cohere"} /\ st.usage # NoUsage =>
                 HasUsage(chunks \o NormaliseEnd(A, st))
<1> DEFINE mid == KindOf(chunks, last)
           es == NormaliseEnd(A, st)
<1>0. V \cup V = V
  OBVIOUS
<1>1. CASE A \in {"gemini", "cohere"}
  <2>1. Closing(A, mid, st.usage, es)
    BY <1>1, EndIs
  <2>2. ChunksOK(es, mid, {st.usage}) /\ (st.usage # NoUsage => HasUsage(es))
    BY <1>1, <2>1 DEF Closing
  <2> HIDE DEF es
  <2>3. ChunksOK(es, mid, V)
    BY <1>1, <2>2, ChunksWiden
  <2>4. ChunksOK(chunks \o es, last, V \cup V) /\ (HasUsage(es) => HasUsage(chunks \o es))
    BY <2>3, MoreChunks
  <2> QED BY <1>0, <2>2, <2>4 DEF es
<1>2. CASE A \notin {"gemini", "cohere"}
  <2>1. es = <<>>
    BY <1>2 DEF NormaliseEnd
  <2>2. ChunksOK(<<>>, mid, V)
    BY NoChunks
  <2> HIDE DEF es
  <2>3. ChunksOK(chunks \o es, last, V \cup V)
    BY <2>1, <2>2, MoreChunks
  <2> QED BY <1>0, <1>2, <2>3 DEF es
<1> QED BY <1>1, <1>2

(* Nothing to add. *)
LEMMA NoClosing ==
    ASSUME NEW last, NEW chunks, NEW V, ChunksOK(chunks, last, V)
    PROVE  ChunksOK(chunks \o <<>>, last, V)
<1>1. ChunksOK(<<>>, KindOf(chunks, last), V)
  BY NoChunks
<1>2. ChunksOK(chunks \o <<>>, last, V \cup V)
  BY <1>1, MoreChunks
<1>3. V \cup V = V
  OBVIOUS
<1> QED BY <1>2, <1>3

(* A stream that was not cut has been read to its last event. *)
LEMMA AllRead ==
    ASSUME NEW f, NEW n, NEW k, NEW r, NEW c, Placed(f, n, k, r, c), Ahead(f, n, c) = <<>>,
           ~HasLine(ParserAt(f, k, r, c))
    PROVE  k = n /\ c = FrameLen(f) * n
<1>1. f \in Forms /\ n \in Nat /\ c \in 0 .. FrameLen(f) * n
  BY DEF Placed
<1>2. FrameLen(f) * n \in Nat
  <2>1. FrameLen(f) \in Nat
    BY <1>1, FrameLens
  <2> QED BY <1>1, <2>1
<1>3. Fits(f, n, c, 0)
  BY <1>1, <1>2 DEF Fits
<1>4. Advanced(f, n, c, 0)
  BY <1>3, Advance
<1>5. Len(Ahead(f, n, c)) = FrameLen(f) * n - c /\ Len(<<>>) = 0
  BY <1>4 DEF Advanced
<1>6. c = FrameLen(f) * n
  BY <1>1, <1>2, <1>5
<1>7. ~(LineLen(f, r) <= Chars(f, c) - Taken(f, k, r))
  BY HasLineIs
<1>8. k # n /\ c = FrameLen(f) * n => LineLen(f, r) <= Chars(f, c) - Taken(f, k, r)
  BY PlacedFacts
<1> QED BY <1>6, <1>7, <1>8

(* Usage an adapter may have collected. *)
LEMMA Collected ==
    ASSUME NEW A \in {"gemini", "cohere"}, NEW U, NEW n, NEW k
    PROVE  UsageAt(A, U, n, k) \in {U, Zero} /\ (k = n => UsageAt(A, U, n, k) = U)
BY DEF UsageAt

(* Gemini and Cohere: deltas after the role. *)
LEMMA RoleStages ==
    ASSUME NEW A \in {"gemini", "cohere"}, NEW n, NEW k, NEW role
    PROVE  Stages(A, n, k, role) = IF role THEN Deltas ELSE {"none"}
BY DEF Stages

Turned(S, U, n, k, last, step) ==
    Effect(S, U, n, k, last, step) \/ BlankEffect(S, U, n, k, last, step)
Closes(A, step, last, V) ==
    ChunksOK(step.chunks \o IF step.end = "more" THEN NormaliseEnd(A, step.state) ELSE <<>>, last, V)

(* The last event of a cut stream, and the end of the loop. *)
LEMMA LastTurn ==
    ASSUME NEW A, NEW S, A \in {"gemini", "cohere"} => S = A, NEW U, NEW n, NEW k, NEW last, NEW step, NEW V, {U} \subseteq V,
           A \in {"gemini", "cohere"} => Zero \in V,
           Turned(S, U, n, k, last, step)
    PROVE  Closes(A, step, last, V)
<1>1. step.end \in {"more", "return"} /\ ChunksOK(step.chunks, last, {U})
  BY DEF Turned, Effect, BlankEffect
<1>2. ChunksOK(step.chunks, last, V)
  BY <1>1, ChunksWiden
<1>3. CASE step.end = "more"
  <2>1. A \in {"gemini", "cohere"} =>
           /\ step.state.role \in BOOLEAN /\ step.state.usage \in V
           /\ KindOf(step.chunks, last) \in IF step.state.role THEN Deltas ELSE {"none"}
    <3> HAVE A \in {"gemini", "cohere"}
    <3>0. S = A
      OBVIOUS
    <3>1. CASE Effect(S, U, n, k, last, step)
      <4>1. /\ StateAt(A, U, n, k + 1, step.state)
            /\ KindOf(step.chunks, last) \in Stages(A, n, k + 1, step.state.role)
        BY <1>3, <3>0, <3>1 DEF Effect
      <4>2. step.state.role \in BOOLEAN /\ step.state.usage = UsageAt(A, U, n, k + 1)
        BY <4>1 DEF StateAt
      <4>3. UsageAt(A, U, n, k + 1) \in {U, Zero}
        BY Collected
      <4> QED BY <4>1, <4>2, <4>3, RoleStages
    <3>2. CASE BlankEffect(S, U, n, k, last, step)
      <4>1. /\ step.state.role \in BOOLEAN /\ step.state.usage = UsageAt(A, U, n, k)
            /\ KindOf(step.chunks, last) \in IF step.state.role THEN Deltas ELSE {"none"}
        BY <1>3, <3>0, <3>2 DEF BlankEffect
      <4>2. UsageAt(A, U, n, k) \in {U, Zero}
        BY Collected
      <4> QED BY <4>1, <4>2
    <3> QED BY <3>1, <3>2 DEF Turned
  <2>2. ChunksOK(step.chunks \o NormaliseEnd(A, step.state), last, V)
    BY <1>2, <2>1, ClosingChunks
  <2> QED BY <1>1, <1>3, <2>2 DEF Closes
<1>4. CASE step.end = "return"
  <2>1. ChunksOK(step.chunks \o <<>>, last, V)
    BY <1>2, NoClosing
  <2> QED BY <1>1, <1>4, <2>1 DEF Closes
<1> QED BY <1>1, <1>3, <1>4

(* The body ends: the parser's remainder, then the adapter's closing chunks. *)
LEMMA EndsRegular ==
    ASSUME IInv, ReadEnd, NEW last, Regular(last)
    PROVE  /\ over' = "return" /\ ChunksOK(queue', last, Payable')
           /\ cause = "none" /\ Cost # NoUsage => HasUsage(queue')
<1> DEFINE f == req.framing
           A == req.adapter
           S == Shape
           U == Cost
           found == LastEvent(sse)
           step == IF found.found THEN Normalise(A, ad, Parsed(found.event)) ELSE Yield(ad, <<>>)
           made == step.chunks \o IF step.end = "more" THEN NormaliseEnd(A, step.state) ELSE <<>>
<1>1. /\ pc = "pulling" /\ over = "more" /\ queue = <<>> /\ ~HasLine(sse) /\ ~gone
      /\ net = <<>> /\ fate = "eof"
      /\ over' = (IF step.end = "more" THEN "return" ELSE step.end) /\ queue' = made
      /\ req' = req /\ net' = net /\ fate' = fate /\ cause' = cause
  BY DEF ReadEnd, Pulling, ledger
<1> HIDE DEF step, found, made
<1>3. Control
  BY DEF IInv
<1>4. S = ShapeOf(A, req.answer.usage) /\ U = CostOf(A, req.answer.usage) /\ U' = U
  BY <1>1, SameScript DEF Shape, Cost
<1>8. PICK k \in 0 .. N, r \in LineStarts(f), c \in 0 .. FrameLen(f) * N :
            AtPlace(N, k, r, c) /\ Underway(N, k, last)
  BY <1>1 DEF Regular, Somewhere
<1>9. /\ Placed(f, N, k, r, c) /\ sse = ParserAt(f, k, r, c)
      /\ net = Ahead(f, N, c) \/ (net = <<>> /\ cause # "none")
  BY <1>8 DEF AtPlace
<1>10. Remainder(f, N, k, c, found)
  BY <1>1, <1>9, LastEventIs DEF found
<1>11. StateAt(S, U, N, k, ad) /\ last \in Stages(S, N, k, ad.role)
  <2>2. KindOf(queue, last) = last
    BY <1>1 DEF KindOf
  <2> QED BY <1>8, <2>2 DEF Underway
<1>12. /\ N \in Nat /\ A \in AllAdapters /\ req.answer \in Answers
       /\ S \in {"gemini", "cohere"} <=> A \in {"gemini", "cohere"}
       /\ A \in {"gemini", "cohere"} => S = A
  <2>1. N \in Nat /\ A \in AllAdapters /\ req.answer \in Answers
    BY <1>3, Requested
  <2> QED BY <1>4, <2>1, ShapeIs
<1>13. cause = "none" => k = N /\ c = FrameLen(f) * N
  BY <1>1, <1>9, AllRead
<1>16. over' = "return" => /\ U \in Payable'
                           /\ A \in {"gemini", "cohere"} /\ cause # "none" => Zero \in Payable'
  BY <1>1, <1>4 DEF Payable
<1> HIDE DEF S, U
<1>17. /\ over' = "return" /\ ChunksOK(queue', last, Payable')
       /\ cause = "none" /\ U # NoUsage => HasUsage(queue')
  <2>1. CASE ~found.found
    <3>1. step = Yield(ad, <<>>)
      BY <2>1 DEF step
    <3>2. step.state = ad /\ step.chunks = <<>> /\ step.end = "more"
      BY <3>1, YieldIs
    <3>3. over' = "return" /\ queue' = <<>> \o NormaliseEnd(A, ad)
      BY <1>1, <3>2 DEF made
    <3>4. ChunksOK(<<>>, last, Payable') /\ KindOf(<<>>, last) = last
      BY NoChunks
    <3>5. A \in {"gemini", "cohere"} =>
             /\ ad.role \in BOOLEAN /\ ad.usage \in Payable'
             /\ last \in IF ad.role THEN Deltas ELSE {"none"}
      <4> HAVE A \in {"gemini", "cohere"}
      <4>1. ad.role \in BOOLEAN /\ ad.usage = UsageAt(A, U, N, k)
        BY <1>11, <1>12 DEF StateAt
      <4>2. UsageAt(A, U, N, k) \in {U, Zero} /\ (k = N => UsageAt(A, U, N, k) = U)
        BY Collected
      <4> QED BY <1>11, <1>12, <1>13, <1>16, <3>3, <4>1, <4>2, RoleStages
    <3> DEFINE none == <<>>
    <3>6. ChunksOK(none, last, Payable') /\ KindOf(none, last) = last
      BY <3>4
    <3> HIDE DEF none
    <3>7. /\ ChunksOK(none \o NormaliseEnd(A, ad), last, Payable')
          /\ A \in {"gemini", "cohere"} /\ ad.usage # NoUsage => HasUsage(none \o NormaliseEnd(A, ad))
      BY <3>5, <3>6, ClosingChunks
    <3>8. cause = "none" => A \in {"gemini", "cohere"} /\ ad.usage = U
      <4> HAVE cause = "none"
      <4>0. k = N
        BY <1>13
      <4>1. ~(N < N)
        BY <1>12
      <4>2. A \in {"gemini", "cohere"} /\ ad.usage = UsageAt(A, U, N, k)
        BY <1>11, <1>12, <4>0, <4>1 DEF StateAt
      <4> QED BY <4>0, <4>2, Collected
    <3> QED BY <3>3, <3>7, <3>8 DEF none
  <2>2. CASE found.found
    <3>1. c # FrameLen(f) * N /\ k + 1 \in 1 .. N /\ Piece(k, found.event)
      BY <1>10, <2>2 DEF Remainder
    <3>2. cause # "none"
      BY <1>13, <3>1
    <3>3. k \in 0 .. N - 1
      BY <1>12, <3>1
    <3>4. step = Normalise(A, ad, Parsed(found.event))
      BY <2>2 DEF step
    <3>5. Effect(S, U, N, k, last, step) \/ BlankEffect(S, U, N, k, last, step)
      <4>1. NativeEvents = Script(A, req.answer) /\ N = Len(NativeEvents)
        BY DEF NativeEvents, N
      <4>2. /\ Effect(S, U, N, k, last, Normalise(A, ad, NativeEvents[k + 1]))
            /\ BlankEffect(S, U, N, k, last, Normalise(A, ad, Ev("unknown")))
            /\ A \in {"anthropic", "cohere"} =>
                  BlankEffect(S, U, N, k, last, Normalise(A, ad, Ev(NativeEvents[k + 1].type)))
        <5> HIDE DEF A
        <5> QED BY <1>4, <1>11, <1>12, <3>3, <4>1, TurnIs
      <4>3. \/ Parsed(found.event) = NativeEvents[k + 1]
            \/ Parsed(found.event) = Ev("unknown")
            \/ /\ A \in {"anthropic", "cohere"}
               /\ Parsed(found.event) = Ev(NativeEvents[k + 1].type)
        BY <3>1, ParsedIs
      <4> QED BY <3>4, <4>2, <4>3
    <3>6. step.end \in {"more", "return"}
      BY <3>5 DEF Effect, BlankEffect
    <3>7. over' = "return"
      BY <1>1, <3>6
    <3>8. {U} \subseteq Payable' /\ (A \in {"gemini", "cohere"} => Zero \in Payable')
      BY <1>16, <3>2, <3>7
    <3>9. ChunksOK(made, last, Payable')
      <4>1. PICK V : V = Payable'
        OBVIOUS
      <4>2. A \in {"gemini", "cohere"} => S = A
        BY <1>12
      <4>3. {U} \subseteq V
        BY <3>8, <4>1
      <4>4. A \in {"gemini", "cohere"} => Zero \in V
        BY <3>8, <4>1
      <4> HIDE DEF A
      <4>5. Turned(S, U, N, k, last, step)
        BY <3>5 DEF Turned
      <4>6. Closes(A, step, last, V)
        BY <4>2, <4>3, <4>4, <4>5, LastTurn
      <4> QED BY <4>1, <4>6 DEF made, A, Closes
    <3> QED BY <1>1, <3>2, <3>7, <3>9
  <2> QED BY <2>1, <2>2
<1> QED BY <1>17 DEF U

(* Nothing is left after an error frame. *)
LEMMA EndsStruck ==
    ASSUME ReadEnd, NEW last, Struck(last)
    PROVE  over' = "return" /\ ChunksOK(queue', last, Payable') /\ cause # "none"
<1> DEFINE A == req.adapter
           found == LastEvent(sse)
           step == IF found.found THEN Normalise(A, ad, Parsed(found.event)) ELSE Yield(ad, <<>>)
           made == step.chunks \o IF step.end = "more" THEN NormaliseEnd(A, step.state) ELSE <<>>
<1>1. over' = (IF step.end = "more" THEN "return" ELSE step.end) /\ queue' = made
  BY DEF ReadEnd
<1>2. sse = NewParser /\ A \in {"openai", "mistral"} /\ cause # "none"
  BY DEF Struck
<1>3. ~found.found
  <2>1. DecodeRest(NewParser) = NewParser
    BY DEF DecodeRest, NewParser
  <2>2. NewParser.buffer = <<>> /\ NewParser.lines = <<>> /\ NewParser.name = 0
    BY DEF NewParser
  <2>3. Nothing(NewParser).found = FALSE /\ Nothing(NewParser).parser = NewParser
    BY DEF Nothing
  <2>4. LastEvent(NewParser) = Flush(NewParser)
    BY <2>1, <2>2, <2>3 DEF LastEvent
  <2>5. Flush(NewParser).found = FALSE
    BY <2>2 DEF Flush
  <2> QED BY <1>2, <2>4, <2>5
<1>4. step = Yield(ad, <<>>)
  BY <1>3
<1> HIDE DEF step, found
<1>5. step.chunks = <<>> /\ step.end = "more"
  BY <1>4, YieldIs
<1>6. NormaliseEnd(A, step.state) = <<>>
  BY <1>2 DEF NormaliseEnd
<1>7. ChunksOK(<<>>, last, Payable')
  BY NoChunks
<1>8. ChunksOK(<<>> \o <<>>, last, Payable')
  BY <1>7, NoClosing
<1> QED BY <1>1, <1>2, <1>5, <1>6, <1>8

(* The body ends. *)
LEMMA StepReadEnd ==
    ASSUME IInv, ReadEnd
    PROVE  IInv'
<1>1. /\ pc = "pulling" /\ over = "more" /\ queue = <<>> /\ ~gone
      /\ req' = req /\ pc' = pc /\ gone' = gone /\ net' = net /\ fate' = fate
      /\ net = <<>> /\ fate = "eof"
      /\ verdict' = verdict /\ tally' = tally /\ sent' = sent /\ log' = log /\ cause' = cause
  BY DEF ReadEnd, Pulling, ledger
<1>3. pc \in Flowing /\ pc' \in Flowing
  BY <1>1 DEF Flowing
<1>4. /\ Control /\ Causes /\ Flow /\ Tallied /\ pc # "ended" /\ Streaming /\ log = <<>>
      /\ verdict \in {NoVerdict, "success"}
  BY <1>3, FlowingFacts
<1>5. PICK last \in Kinds : Ordered(last)
  BY <1>3, FlowingFacts
<1>6. Fresh' /\ BlameIsRight' /\ BookedExactly'
  BY <1>1, <1>3, <1>4, StillFlowing
<1>7. Control'
  BY <1>1, <1>4 DEF Control, Streaming
<1>14. Payable = {Cost} /\ Cost' = Cost
  BY <1>1, SameScript DEF Payable
<1>16. Cost \in Payable'
  BY <1>14 DEF Payable
<1>17. /\ over' = "return" /\ ChunksOK(queue', last, Payable')
       /\ cause = "none" /\ Cost # NoUsage => HasUsage(queue')
  BY <1>5, EndsRegular, EndsStruck DEF Ordered
<1>18. Flow'
  <2>1. Ordered(last)'
    BY <1>1, <1>5, <1>17 DEF Ordered, Regular
  <2> QED BY <1>17, <2>1 DEF Flow
<1>19. Causes'
  BY <1>1, <1>3, <1>4, <1>17 DEF Causes, Flowing, Committed
<1>20. Tallied'
  <2>1. Estimate' = Estimate
    BY <1>1, EstimateIs
  <2>2. cause = "none" /\ Cost # NoUsage => Costed'
    BY <1>17 DEF Costed
  <2> QED BY <1>1, <1>4, <1>14, <1>16, <1>17, <2>1, <2>2 DEF Tallied
<1> QED BY <1>6, <1>7, <1>18, <1>19, <1>20 DEF IInv

-----------------------------------------------------------------------------
(* The router takes a chunk and the route writes it. *)
TakenOff(q, last, V) ==
    /\ q[1].text \in Nat /\ q[1].usage \in {NoUsage} \cup V /\ MayFollow(last, q[1].kind)
    /\ q[1].kind \in Kinds
    /\ ChunksOK(Tail(q), q[1].kind, V) /\ KindOf(Tail(q), q[1].kind) = KindOf(q, last)
    /\ HasUsage(q) => q[1].usage # NoUsage \/ HasUsage(Tail(q))
    /\ q[1].kind = "usage" => Tail(q) = <<>>

(* Taking the first chunk leaves the others in order after it. *)
LEMMA HeadTaken ==
    ASSUME NEW q, NEW last, NEW V, ChunksOK(q, last, V), q # <<>>
    PROVE  Head(q) = q[1] /\ TakenOff(q, last, V)
<1> DEFINE t == Tail(q)
           n == Len(q)
<1>1. /\ IsSeq(q) /\ q \in Seq(Range(q)) /\ MayFollow(last, q[1].kind)
      /\ \A i \in 1 .. n : q[i].text \in Nat /\ q[i].usage \in {NoUsage} \cup V
      /\ \A i \in 1 .. n - 1 : MayFollow(q[i].kind, q[i + 1].kind)
  BY DEF ChunksOK, IsSeq
<1>2. n \in Nat /\ n # 0
  <2>1. \A s : IsSeq(s) => (s = <<>> <=> Len(s) = 0)
    BY DEF IsSeq
  <2> QED BY <1>1, <2>1, SeqDomain
<1>3. t \in Seq(Range(q)) /\ Len(t) = n - 1 /\ \A i \in 1 .. n - 1 : t[i] = q[i + 1]
  BY <1>1, <1>2
<1>4. Head(q) = q[1]
  BY <1>1, <1>2
<1>5. IsSeq(t) /\ (t = <<>> <=> n = 1)
  <2>1. \A s : IsSeq(s) => (s = <<>> <=> Len(s) = 0)
    BY DEF IsSeq
  <2>2. IsSeq(t)
    BY <1>3, SeqIs
  <2>3. t = <<>> <=> Len(t) = 0
    BY <2>1, <2>2
  <2> HIDE DEF t, n
  <2> QED BY <1>2, <1>3, <2>2, <2>3
<1> HIDE DEF t, n
<1>6. 1 \in 1 .. n /\ (n # 1 => 1 \in 1 .. n - 1 /\ n - 1 \in 1 .. n - 1 /\ (n - 1) + 1 = n)
  BY <1>2
<1>7. \A i \in 1 .. n - 1 : i + 1 \in 1 .. n
  BY <1>2
<1>8. ChunksOK(t, q[1].kind, V)
  <2>1. \A i \in 1 .. Len(t) : t[i].text \in Nat /\ t[i].usage \in {NoUsage} \cup V
    BY <1>1, <1>3, <1>7
  <2>2. \A i \in 1 .. Len(t) - 1 : MayFollow(t[i].kind, t[i + 1].kind)
    <3> SUFFICES ASSUME NEW i \in 1 .. Len(t) - 1 PROVE MayFollow(t[i].kind, t[i + 1].kind)
      OBVIOUS
    <3>1. i \in 1 .. n - 1 /\ i + 1 \in 1 .. n - 1
      BY <1>2, <1>3
    <3>2. t[i] = q[i + 1] /\ t[i + 1] = q[(i + 1) + 1]
      BY <1>3, <3>1
    <3> QED BY <1>1, <3>1, <3>2
  <2>3. t # <<>> => MayFollow(q[1].kind, t[1].kind)
    <3> HAVE t # <<>>
    <3>1. 1 \in 1 .. n - 1 /\ 1 + 1 = 2
      BY <1>5, <1>6
    <3>2. t[1] = q[1 + 1]
      BY <1>3, <3>1
    <3> QED BY <1>1, <3>1, <3>2
  <2> QED BY <1>5, <2>1, <2>2, <2>3 DEF ChunksOK
<1>9. KindOf(t, q[1].kind) = KindOf(q, last)
  <2>1. KindOf(q, last) = q[n].kind
    BY DEF KindOf, n
  <2>2. CASE n = 1
    BY <1>5, <2>1, <2>2 DEF KindOf
  <2>3. CASE n # 1
    <3>1. t[n - 1] = q[n] /\ t # <<>>
      BY <1>3, <1>5, <1>6, <2>3
    <3> QED BY <1>3, <2>1, <3>1 DEF KindOf
  <2> QED BY <2>2, <2>3
<1>10. HasUsage(q) => q[1].usage # NoUsage \/ HasUsage(t)
  <2> SUFFICES ASSUME NEW i \in 1 .. n, q[i].usage # NoUsage, q[1].usage = NoUsage
               PROVE  HasUsage(t)
    BY DEF HasUsage, n
  <2>0. i # 1
    OBVIOUS
  <2>1. i - 1 \in 1 .. n - 1 /\ (i - 1) + 1 = i
    BY <1>2, <2>0
  <2>2. t[i - 1] = q[i]
    BY <1>3, <2>1
  <2> QED BY <1>3, <2>1, <2>2 DEF HasUsage
<1>11. q[1].kind = "usage" => t = <<>>
  <2> HAVE q[1].kind = "usage"
  <2>1. \A x : ~MayFollow("usage", x)
    BY DEF MayFollow, Deltas
  <2>2. ~(1 \in 1 .. n - 1)
    BY <1>1, <2>1
  <2> QED BY <1>5, <1>6, <2>2
<1>12. q[1].kind \in Kinds
  BY <1>1 DEF MayFollow, Kinds
<1> QED BY <1>1, <1>4, <1>6, <1>8, <1>9, <1>10, <1>11, <1>12 DEF TakenOff, t

Tallies == [in : Nat, out : Nat, final : BOOLEAN]
Counted(t, c) == IF t.final THEN t ELSE [t EXCEPT !.out = @ + countDeltaTokens(c)]

(* The router's tally after a delta. *)
LEMMA CountedIs ==
    ASSUME NEW t \in Tallies, NEW c, c.text \in Nat
    PROVE  /\ Counted(t, c) \in Tallies /\ Counted(t, c).in = t.in /\ Counted(t, c).final = t.final
           /\ t.final => Counted(t, c).out = t.out
           /\ ~t.final => Counted(t, c).out = t.out + countDeltaTokens(c)
<1>1. countDeltaTokens(c) \in Nat
  BY DeltaTokens
<1>2. CASE t.final
  BY <1>2 DEF Counted
<1>3. CASE ~t.final
  <2>1. Counted(t, c) = [t EXCEPT !.out = @ + countDeltaTokens(c)]
    BY <1>3 DEF Counted
  <2> HIDE DEF Counted
  <2> QED BY <1>1, <1>3, <2>1 DEF Tallies
<1> QED BY <1>2, <1>3

(* The tally after a usage chunk. *)
LEMMA AppliedIs ==
    ASSUME NEW t \in Tallies, NEW c, c.usage = NoUsage \/ c.usage \in Usages
    PROVE  /\ applyUsage(c, t) \in Tallies
           /\ c.usage = NoUsage => applyUsage(c, t) = t
           /\ c.usage # NoUsage =>
                 /\ applyUsage(c, t).final = TRUE
                 /\ [in |-> applyUsage(c, t).in, out |-> applyUsage(c, t).out] = c.usage
<1>1. CASE c.usage = NoUsage
  BY <1>1 DEF applyUsage
<1>2. CASE c.usage # NoUsage
  <2> DEFINE u == c.usage
             s == [in |-> u.in, out |-> u.out, final |-> TRUE]
  <2>1. applyUsage(c, t) = s
    BY <1>2 DEF applyUsage
  <2>2. u \in Usages
    BY <1>2
  <2> HIDE DEF u
  <2>3. u.in \in Nat /\ u.out \in Nat /\ u = [in |-> u.in, out |-> u.out]
    BY <2>2 DEF Usages
  <2>4. s.final = TRUE /\ s.in = u.in /\ s.out = u.out
    OBVIOUS
  <2>5. s \in Tallies
    BY <2>3 DEF Tallies
  <2> HIDE DEF s
  <2> QED BY <1>2, <2>1, <2>3, <2>4, <2>5 DEF u
<1> QED BY <1>1, <1>2

(* What may be paid is a usage. *)
LEMMA PayableUsages ==
    ASSUME Control
    PROVE  Payable \subseteq Usages \cup {NoUsage}
<1>1. Cost \in Usages \cup {NoUsage}
  BY Requested
<1>2. Zero \in Usages
  BY DEF Zero, Usages
<1> QED BY <1>1, <1>2 DEF Payable

(* An error frame in the queue. *)
LEMMA StruckHead ==
    ASSUME NEW last, Struck(last), queue # <<>>
    PROVE  /\ last # "error" /\ Head(queue) = queue[1] /\ Tail(queue) = <<>>
           /\ queue[1].kind = "error" /\ queue[1].text = 0 /\ queue[1].usage = NoUsage
           /\ ~HasUsage(queue)
<1> DEFINE c == Chunk("error")
<1>1. queue = <<c>> /\ last # "error"
  BY DEF Struck
<1>2. c.kind = "error" /\ c.text = 0 /\ c.usage = NoUsage
  BY DEF Chunk
<1> HIDE DEF c
<1>3. Head(<<c>>) = c /\ Tail(<<c>>) = <<>> /\ <<c>>[1] = c /\ Len(<<c>>) = 1
  OBVIOUS
<1>4. \A x \in 1 .. 1 : x = 1
  OBVIOUS
<1> QED BY <1>1, <1>2, <1>3, <1>4 DEF HasUsage

(* The chunk at the head of the queue. *)
LEMMA HeadIs ==
    ASSUME NEW last, Ordered(last), queue # <<>>
    PROVE  /\ Head(queue) = queue[1] /\ queue[1].text \in Nat /\ queue[1].kind \in Kinds
           /\ queue[1].usage \in {NoUsage} \cup Payable
           /\ HasUsage(queue) => queue[1].usage # NoUsage \/ HasUsage(Tail(queue))
<1>1. CASE Regular(last)
  <2>1. Head(queue) = queue[1] /\ TakenOff(queue, last, Payable)
    BY <1>1, HeadTaken DEF Regular
  <2> QED BY <2>1 DEF TakenOff
<1>2. CASE Struck(last)
  <2>1. "error" \in Kinds
    BY DEF Kinds
  <2> QED BY <1>2, <2>1, StruckHead
<1> QED BY <1>1, <1>2 DEF Ordered

(* The router counts the chunk it takes. *)
LEMMA StepPull ==
    ASSUME IInv, Pull
    PROVE  IInv'
<1> DEFINE c == queue[1]
           t == Counted(tally, Head(queue))
<1>1. /\ pc = "pulling" /\ queue # <<>> /\ verdict' = "success" /\ pc' = "writing"
      /\ tally' = applyUsage(Head(queue), t)
      /\ req' = req /\ gone' = gone /\ net' = net /\ fate' = fate /\ sse' = sse /\ ad' = ad
      /\ queue' = queue /\ over' = over /\ sent' = sent /\ log' = log /\ cause' = cause
  BY DEF Pull, stream, Counted
<1>3. pc \in Flowing /\ pc' \in Flowing
  BY <1>1 DEF Flowing
<1>4. /\ Control /\ Causes /\ Flow /\ Tallied /\ pc # "ended" /\ Streaming /\ log = <<>>
      /\ verdict \in {NoVerdict, "success"}
  BY <1>3, FlowingFacts
<1>5. PICK last \in Kinds : Ordered(last)
  BY <1>3, FlowingFacts
<1>6. Fresh' /\ BlameIsRight' /\ BookedExactly'
  BY <1>1, <1>3, <1>4, StillFlowing
<1>7. Control'
  BY <1>1, <1>3, <1>4 DEF Control, Streaming, Early, Flowing
<1>8. Causes'
  BY <1>1, <1>3, <1>4 DEF Causes, Flowing, Committed
<1>9. Payable' = Payable /\ Payable \subseteq Usages \cup {NoUsage} /\ Cost' = Cost
  BY <1>1, <1>4, PayableUsages, SameScript DEF Payable
<1>10. Head(queue) = c
  BY <1>1, <1>5, HeadIs
<1>11. c.text \in Nat /\ c.usage \in {NoUsage} \cup Payable
  BY <1>1, <1>5, HeadIs
<1>12. tally \in Tallies
  BY <1>4 DEF Tallied, Tallies
<1>13. /\ t \in Tallies /\ t.in = tally.in /\ t.final = tally.final
       /\ tally.final => t.out = tally.out
       /\ ~tally.final => t.out = tally.out + countDeltaTokens(c)
  BY <1>10, <1>11, <1>12, CountedIs
<1>14. tally' = applyUsage(c, t) /\ (c.usage = NoUsage \/ c.usage \in Usages)
  BY <1>1, <1>9, <1>10, <1>11
<1> HIDE DEF c, t
<1>15. /\ tally' \in Tallies
       /\ c.usage = NoUsage => tally' = t
       /\ c.usage # NoUsage => /\ tally'.final = TRUE
                               /\ [in |-> tally'.in, out |-> tally'.out] = c.usage
  BY <1>13, <1>14, AppliedIs
<1>16. Costed => Costed'
  BY <1>1, <1>13, <1>15 DEF Costed
<1>17. Flow'
  <2>1. gone' \/ (~gone /\ sent' = sent)
    BY <1>1
  <2>3. Ordered(last)'
    BY <1>1, <1>5, <1>9, <1>16, <2>1, StaysOrdered
  <2> QED BY <1>1, <1>4, <2>3 DEF Flow
<1>18. Tallied'
  <2>1. Estimate' = Estimate /\ Estimate \in Nat /\ countDeltaTokens(c) \in Nat
    <3>1. Readable(sent)
      BY <1>4 DEF Control, Readable
    <3> QED BY <1>1, <1>11, <3>1, EstimateIs, EstimateNat, DeltaTokens
  <2>2. tally'.final => [in |-> tally'.in, out |-> tally'.out] \in Payable'
    <3> HAVE tally'.final
    <3>1. CASE c.usage = NoUsage
      <4>1. tally' = t /\ tally.final
        BY <1>13, <1>15, <3>1
      <4>2. t.in = tally.in /\ t.out = tally.out
        BY <1>13, <4>1
      <4>3. [in |-> tally.in, out |-> tally.out] \in Payable
        BY <1>4, <4>1 DEF Tallied
      <4> QED BY <1>9, <4>1, <4>2, <4>3
    <3>2. CASE c.usage # NoUsage
      BY <1>9, <1>11, <1>15, <3>2
    <3> QED BY <3>1, <3>2
  <2>3. ~tally'.final => /\ tally'.in = PromptGuess /\ tally'.out >= Estimate'
                         /\ tally'.out >= Estimate' + countDeltaTokens(c) /\ c.usage = NoUsage
    <3> HAVE ~tally'.final
    <3>1. c.usage = NoUsage
      BY <1>15
    <3>2. tally' = t /\ ~tally.final
      BY <1>13, <1>15, <3>1
    <3>3. tally.in = PromptGuess /\ tally.out >= Estimate /\ tally.out \in Nat
      BY <1>4, <3>2 DEF Tallied
    <3>4. tally'.in = PromptGuess /\ tally'.out = tally.out + countDeltaTokens(c)
      BY <1>13, <3>2, <3>3
    <3> QED BY <2>1, <3>1, <3>3, <3>4
  <2>4. queue'[1] = c
    BY <1>1 DEF c
  <2>5. over' = "return" /\ cause' = "none" /\ Cost' # NoUsage => Costed'
    BY <1>1, <1>4, <1>9, <1>16 DEF Tallied
  <2> QED BY <1>15, <2>2, <2>3, <2>4, <2>5 DEF Tallied, Tallies
<1> QED BY <1>6, <1>7, <1>8, <1>17, <1>18 DEF IInv

(* What the client has been shown, with one chunk more. *)
LEMMA OneMore ==
    ASSUME NEW s, NEW c, IsSeq(s)
    PROVE  /\ IsSeq(s \o <<c>>) /\ Len(s \o <<c>>) = Len(s) + 1 /\ Len(s) \in Nat
           /\ \A i \in 1 .. Len(s) : (s \o <<c>>)[i] = s[i]
           /\ (s \o <<c>>)[Len(s) + 1] = c
           /\ s \o <<c>> # <<>>
           /\ s \o <<>> = s
<1> DEFINE t == <<c>>
           u == s \o t
           e == <<>>
<1>1. IsSeq(t) /\ Len(t) = 1 /\ t[1] = c /\ IsSeq(e) /\ Len(e) = 0
  BY TuplesAreSeqs
<1>2. Len(s) \in Nat
  BY SeqDomain
<1> HIDE DEF t
<1>3. IsCat(u, s, t)
  BY <1>1, Catenated
<1> HIDE DEF u, e
<1>4. /\ IsSeq(u) /\ Len(u) = Len(s) + Len(t)
      /\ \A i \in 1 .. Len(s) : u[i] = s[i]
      /\ \A i \in 1 .. Len(t) : u[Len(s) + i] = t[i]
  BY <1>3, CatParts
<1>5. 1 \in 1 .. 1
  OBVIOUS
<1>6. Len(u) = Len(s) + 1 /\ u[Len(s) + 1] = c
  BY <1>1, <1>4, <1>5
<1>7. u # <<>>
  <2>1. Len(<<>>) = 0
    OBVIOUS
  <2>2. Len(u) # 0
    BY <1>2, <1>6
  <2> QED BY <2>1, <2>2
<1>8. s \o e = s
  <2>1. IsCat(s \o e, s, e)
    BY <1>1, Catenated
  <2> DEFINE v == s \o e
  <2> HIDE DEF v
  <2>2. IsSeq(v) /\ Len(v) = Len(s) + Len(e) /\ \A i \in 1 .. Len(s) : v[i] = s[i]
    BY <2>1, CatParts DEF v
  <2>3. Len(v) = Len(s)
    BY <1>1, <1>2, <2>2
  <2>4. v = s
    BY <2>2, <2>3, SameSeq
  <2> QED BY <2>4 DEF v
<1> QED BY <1>2, <1>4, <1>6, <1>7, <1>8 DEF u, t, e

(* What the client is shown of a chunk. *)
LEMMA WrittenIs ==
    ASSUME Control, Write, Head(queue) = queue[1]
    PROVE  \/ sent' = sent /\ gone
           \/ sent' = sent \o <<queue[1]>> /\ ~gone
           \/ sent' = sent /\ ~gone /\ queue[1].kind = "usage"
<1>1. IsSeq(sent)
  BY DEF Control
<1>2. sent \o <<>> = sent
  BY <1>1, OneMore
<1>3. sent' = IF gone THEN sent ELSE sent \o Forwarded(queue[1])
  BY DEF Write
<1>4. CASE gone
  BY <1>3, <1>4
<1>5. CASE ~gone /\ queue[1].kind # "usage"
  <2>1. Forwarded(queue[1]) = <<queue[1]>>
    BY <1>5 DEF Forwarded, isUsageOnlyChunk
  <2> QED BY <1>3, <1>5, <2>1
<1>6. CASE ~gone /\ queue[1].kind = "usage"
  <2>1. Forwarded(queue[1]) = <<queue[1]>> \/ Forwarded(queue[1]) = <<>>
    BY DEF Forwarded
  <2> QED BY <1>2, <1>3, <1>6, <2>1
<1> QED BY <1>4, <1>5, <1>6

(* The route writes it: the order the client sees goes on, and the count stays *)
(* at least what it has seen.                                               *)
LEMMA StepWrite ==
    ASSUME IInv, Write
    PROVE  IInv'
<1> DEFINE c == queue[1]
<1>1. /\ pc = "writing" /\ queue' = Tail(queue) /\ pc' \in {"pulling", "draining"}
      /\ req' = req /\ gone' = gone /\ net' = net /\ fate' = fate /\ sse' = sse /\ ad' = ad
      /\ over' = over /\ verdict' = verdict /\ tally' = tally /\ log' = log /\ cause' = cause
  BY DEF Write
<1>3. pc \in Flowing /\ pc' \in Flowing
  BY <1>1 DEF Flowing
<1>4. /\ Control /\ Causes /\ Flow /\ Tallied /\ pc # "ended" /\ Streaming /\ log = <<>>
      /\ verdict \in {NoVerdict, "success"}
  BY <1>3, FlowingFacts
<1>5. PICK last \in Kinds : Ordered(last)
  BY <1>3, FlowingFacts
<1>6. Fresh' /\ BlameIsRight' /\ BookedExactly'
  BY <1>1, <1>3, <1>4, StillFlowing
<1>7. queue # <<>> /\ verdict = "success"
  BY <1>1, <1>4 DEF Control
<1>9. Payable' = Payable /\ Cost' = Cost
  BY <1>1, SameScript DEF Payable
<1>10. Head(queue) = c
  BY <1>5, <1>7, HeadIs
<1>11. /\ c.text \in Nat /\ c.kind \in Kinds
       /\ HasUsage(queue) => c.usage # NoUsage \/ HasUsage(queue')
  BY <1>1, <1>5, <1>7, HeadIs
<1>r. Regular(last) =>
        /\ MayFollow(last, c.kind)
        /\ ChunksOK(queue', c.kind, Payable) /\ KindOf(queue', c.kind) = KindOf(queue, last)
        /\ c.kind = "usage" => queue' = <<>>
  <2> HAVE Regular(last)
  <2>1. TakenOff(queue, last, Payable)
    BY <1>7, HeadTaken DEF Regular
  <2> QED BY <1>1, <2>1 DEF TakenOff
<1>s. Struck(last) => queue' = <<>> /\ c.kind = "error"
  BY <1>1, <1>7, StruckHead
<1>12. \/ sent' = sent /\ gone
       \/ sent' = sent \o <<c>> /\ ~gone
       \/ sent' = sent /\ ~gone /\ c.kind = "usage"
  BY <1>4, <1>10, WrittenIs
<1>13. Readable(sent)
  BY <1>4 DEF Control, Readable
<1> HIDE DEF c
<1>14. Readable(sent') /\ (sent' = sent \o <<c>> => KindOf(sent', "none") = c.kind)
  <2>1. Readable(sent \o <<c>>)
    BY <1>11, <1>13, EstimateMore
  <2> DEFINE u == sent \o <<c>>
  <2>2. u # <<>> /\ Len(u) = Len(sent) + 1 /\ u[Len(sent) + 1] = c
    BY <1>13, OneMore DEF Readable
  <2> HIDE DEF u
  <2>3. KindOf(u, "none") = c.kind
    BY <2>2 DEF KindOf
  <2> QED BY <1>12, <1>13, <2>1, <2>3 DEF u
<1>15. Control'
  BY <1>1, <1>3, <1>4, <1>7, <1>14 DEF Control, Streaming, Early, Flowing, Readable
<1>16. Causes'
  BY <1>1, <1>3, <1>4, <1>7 DEF Causes, Flowing, Committed
<1>17. Costed => Costed'
  <2> HAVE Costed
  <2>1. CASE tally.final
    BY <1>1, <2>1 DEF Costed
  <2>2. CASE ~tally.final
    <3>1. c.usage = NoUsage
      BY <1>1, <1>4, <2>2 DEF Tallied, c
    <3> QED BY <1>11, <2>2, <3>1 DEF Costed
  <2> QED BY <2>1, <2>2
<1>18. Flow'
  <2>1. CASE Regular(last) /\ (gone \/ sent' = sent \o <<c>>)
    <3>1. PICK m \in Kinds : m = c.kind
      BY <1>11
    <3>2. over = "more" => Somewhere(m)'
      <4> HAVE over = "more"
      <4>1. Somewhere(last) /\ KindOf(queue', m) = KindOf(queue, last)
        BY <1>r, <2>1, <3>1 DEF Regular
      <4> QED BY <1>1, <1>17, <4>1, StaysSomewhere
    <3>3. ~gone => m = KindOf(sent', "none")
      BY <1>14, <2>1, <3>1
    <3>4. ChunksOK(queue', m, Payable')
      BY <1>9, <1>r, <2>1, <3>1
    <3>5. Ordered(m)'
      BY <1>1, <3>2, <3>3, <3>4 DEF Ordered, Regular
    <3> QED BY <1>1, <1>4, <3>5 DEF Flow
  <2>2. CASE Regular(last) /\ ~gone /\ sent' = sent /\ c.kind = "usage"
    <3>1. queue' = <<>> /\ last = "finish"
      BY <1>r, <2>2 DEF MayFollow
    <3>2. KindOf(queue', last) = "finish" /\ KindOf(queue, last) = "usage"
      BY <1>r, <2>2, <3>1 DEF KindOf
    <3>3. over = "more" => Somewhere(last)'
      BY <1>1, <1>17, <2>2, <3>2, StaysSomewhere DEF Regular
    <3>4. ChunksOK(queue', last, Payable')
      BY <3>1, NoChunks
    <3>5. Ordered(last)'
      BY <1>1, <1>5, <2>2, <3>3, <3>4 DEF Ordered, Regular
    <3> QED BY <1>1, <1>4, <3>5 DEF Flow
  <2>3. CASE Struck(last)
    <3>1. PICK m \in Kinds : m = "error"
      BY DEF Kinds
    <3>2. Struck(m)'
      BY <1>1, <1>s, <2>3, <3>1 DEF Struck
    <3>3. ~gone => m = KindOf(sent', "none")
      BY <1>12, <1>14, <1>s, <2>3, <3>1
    <3>4. Ordered(m)'
      BY <1>1, <3>2, <3>3 DEF Ordered
    <3> QED BY <1>1, <1>4, <3>4 DEF Flow
  <2> QED BY <1>5, <1>12, <2>1, <2>2, <2>3 DEF Ordered
<1>19. Tallied'
  <2>1. Estimate = EstimateOf(sent) /\ Estimate' = EstimateOf(sent')
    BY EstimateIs
  <2>2. Estimate \in Nat /\ countDeltaTokens(c) \in Nat
    BY <1>11, <1>13, <2>1, EstimateNat, DeltaTokens
  <2>3. Estimate' = Estimate \/ Estimate' = Estimate + countDeltaTokens(c)
    <3>1. EstimateOf(sent \o <<c>>) = EstimateOf(sent) + countDeltaTokens(c)
      BY <1>11, <1>13, EstimateMore
    <3> QED BY <1>12, <2>1, <3>1
  <2>4. ~tally.final => tally.out >= Estimate /\ tally.out >= Estimate + countDeltaTokens(c)
    BY <1>1, <1>4 DEF Tallied, c
  <2>5. tally.out \in Nat
    BY <1>4 DEF Tallied
  <2>6. ~tally.final => tally.out >= Estimate'
    BY <2>2, <2>3, <2>4, <2>5
  <2>7. over = "return" /\ cause = "none" /\ Cost # NoUsage => Costed'
    BY <1>4, <1>17 DEF Tallied
  <2> QED BY <1>1, <1>4, <1>9, <2>6, <2>7 DEF Tallied
<1> QED BY <1>6, <1>15, <1>16, <1>18, <1>19 DEF IInv

-----------------------------------------------------------------------------
(* The invariant holds at first and every step keeps it. *)
LEMMA InitInv ==
    ASSUME Init
    PROVE  IInv
<1>1. /\ pc = "start" /\ gone = FALSE /\ net = <<>> /\ fate = "eof" /\ sse = NewParser
      /\ ad = NewAdapter /\ queue = <<>> /\ over = "more" /\ verdict = NoVerdict
      /\ tally = [in |-> PromptGuess, out |-> 0, final |-> FALSE]
      /\ sent = <<>> /\ log = <<>> /\ cause = "none"
      /\ req \in [adapter : Adapters, kind : {"chat", "stream", "embed"},
                  answer : Answers, wantsUsage : BOOLEAN, framing : Framings]
  BY DEF Init
<1>2. pc \in Early /\ pc \notin Flowing /\ pc # "ended" /\ pc # "reading" /\ pc # "writing"
  BY <1>1 DEF Early, Flowing
<1>3. Control
  <2>1. IsSeq(sent) /\ \A i \in 1 .. Len(sent) : sent[i].text \in Nat
    <3>1. IsSeq(<<>>)
      BY TuplesAreSeqs
    <3>2. 1 .. 0 = {}
      OBVIOUS
    <3> QED BY <1>1, <3>1, <3>2, NoRow
  <2> QED BY <1>1, <1>2, <2>1 DEF Control
<1>4. Causes /\ Fresh
  BY <1>1, <1>2 DEF Causes, Fresh, Flowing
<1>5. Flow
  BY <1>1, <1>2 DEF Flow
<1>6. Tallied
  <2>1. Estimate = 0
    BY <1>1, EstimateIs, EstimateNone
  <2>2. PromptGuess \in Nat
    BY ProviderCallAssumption
  <2>3. /\ tally \in [in : Nat, out : Nat, final : BOOLEAN] /\ tally.final = FALSE
        /\ tally.in = PromptGuess /\ tally.out = 0
    BY <1>1, <2>2
  <2>4. tally.out >= Estimate
    BY <2>1, <2>3
  <2> QED BY <1>1, <1>2, <2>3, <2>4 DEF Tallied
<1>7. BlameIsRight /\ BookedExactly
  BY <1>1, NoRow DEF BlameIsRight, BookedExactly, NoVerdict
<1> QED BY <1>3, <1>4, <1>5, <1>6, <1>7 DEF IInv

(* Stuttering. *)
LEMMA StepRest ==
    ASSUME IInv, UNCHANGED vars
    PROVE  IInv'
<1>1. /\ req' = req /\ pc' = pc /\ gone' = gone /\ net' = net /\ fate' = fate /\ sse' = sse
      /\ ad' = ad /\ queue' = queue /\ over' = over /\ verdict' = verdict /\ tally' = tally
      /\ sent' = sent /\ log' = log /\ cause' = cause
  BY DEF vars
<1>2. Control' /\ Causes' /\ Fresh' /\ BlameIsRight'
  BY <1>1 DEF IInv, Control, Streaming, Causes, Fresh, BlameIsRight, Committed
<1>3. /\ Estimate' = Estimate /\ Payable' = Payable /\ Costed' = Costed
      /\ N' = N /\ Shape' = Shape /\ Cost' = Cost
  BY <1>1, EstimateIs, SameScript DEF Payable, Costed
<1>4. Flow'
  <2>1. Flow
    BY DEF IInv
  <2>2. ASSUME pc \in Flowing
        PROVE  \E last \in Kinds : Ordered(last)'
    <3>1. PICK last \in Kinds : Ordered(last)
      BY <2>1, <2>2 DEF Flow
    <3>2. Somewhere(last) => Somewhere(last)'
      BY <1>1, <1>3, StaysSomewhere
    <3>3. Ordered(last)'
      BY <1>1, <1>3, <3>1, <3>2 DEF Ordered, Regular, Struck
    <3> QED BY <3>3
  <2> QED BY <1>1, <2>1, <2>2 DEF Flow
<1>5. Tallied'
  BY <1>1, <1>3 DEF IInv, Tallied
<1>6. BookedExactly'
  BY <1>1, <1>3 DEF IInv, BookedExactly, Streaming, Committed, Reported
<1> QED BY <1>2, <1>4, <1>5, <1>6 DEF IInv

(* One case for each action. *)
LEMMA NextInv ==
    ASSUME IInv, [Next]_vars
    PROVE  IInv'
<1>1. CASE Upstream
  <2>1. ASSUME NEW who \in {"upstream", "request"}, HeadersRefused(who) PROVE IInv'
    BY <2>1, StepRefused
  <2>2. ASSUME NEW end \in {"eof", "reset"}, Cut(end) PROVE IInv'
    BY <2>2, StepCut
  <2>3. ASSUME NEW n \in ReadSizes, Read(n) PROVE IInv'
    BY <2>3, StepRead
  <2>4. CASE NetworkFault \/ EmptyBody
    BY <2>4, StepFault
  <2>5. CASE HeadersOk
    BY <2>5, StepHeaders
  <2>6. CASE RefusalRead
    BY <2>6, StepRefusalRead
  <2>7. CASE BodyArrives
    BY <2>7, StepBody
  <2>8. CASE BodyGarbled \/ BodyBroken
    BY <2>8, StepBroken
  <2>9. CASE Overloaded
    BY <2>9, StepOverloaded
  <2> QED BY <1>1, <2>1, <2>2, <2>3, <2>4, <2>5, <2>6, <2>7, <2>8, <2>9 DEF Upstream
<1>2. CASE Gateway
  <2>1. CASE Begin
    BY <2>1, StepBegin
  <2>2. CASE TimerFires
    BY <2>2, StepTimer
  <2>3. CASE ParseLine
    BY <2>3, StepParse
  <2>4. CASE ReadEnd
    BY <2>4, StepReadEnd
  <2>5. CASE ReadRejects
    BY <2>5, StepRejects
  <2>6. CASE Pull
    BY <2>6, StepPull
  <2>7. CASE Write
    BY <2>7, StepWrite
  <2>8. CASE StreamEnds
    BY <2>8, StepEnds
  <2>9. CASE StreamThrows
    BY <2>9, StepThrows
  <2> QED BY <1>2, <2>1, <2>2, <2>3, <2>4, <2>5, <2>6, <2>7, <2>8, <2>9 DEF Gateway
<1>3. CASE Client
  BY <1>3, StepDisconnect, StepDrained DEF Client
<1>4. CASE Rest
  BY <1>4, StepRest DEF Rest
<1>5. CASE UNCHANGED vars
  BY <1>5, StepRest
<1> QED BY <1>1, <1>2, <1>3, <1>4, <1>5 DEF Next

(* The inductive invariant holds throughout every call: in particular the   *)
(* parser is always between two lines of the frames the upstream sent, the  *)
(* adapter's state is the one those events lead to, and the chunks on their *)
(* way continue those the client has.                                       *)
THEOREM CallInvariant == Spec => []IInv
<1>1. Init => IInv
  BY InitInv
<1>2. IInv /\ [Next]_vars => IInv'
  BY NextInv
<1> QED BY <1>1, <1>2, PTL DEF Spec

(* runFailover never penalises the provider for a client that left or a     *)
(* request it refused, and never releases it when the error was shown       *)
(* before the answer, in every call.                                        *)
THEOREM BlameHolds == Spec => []BlameIsRight
<1>1. IInv => BlameIsRight
  BY DEF IInv
<1> QED BY <1>1, CallInvariant, PTL

(* The finally block of the stream, and the route of a whole answer, log a  *)
(* call exactly once if it was answered and never if it was refused, for    *)
(* the usage its provider reported, in a stream without one for no less     *)
(* than the client was shown, and otherwise for what the adapter fills in.  *)
THEOREM BookingHolds == Spec => []BookedExactly
<1>1. IInv => BookedExactly
  BY DEF IInv
<1> QED BY <1>1, CallInvariant, PTL

-----------------------------------------------------------------------------
(* The call as ChunkProtocol sees it. *)
KindsOf(s) == [i \in DOMAIN s |-> s[i].kind]
Outcome == IF pc # "ended" THEN "open"
           ELSE IF ~Committed THEN "refused"
           ELSE IF log[1].status = 200 THEN "closed" ELSE "broken"

(* The kinds of the chunks sent. *)
LEMMA KindsAre ==
    ASSUME NEW s, IsSeq(s)
    PROVE  /\ IsSeq(KindsOf(s)) /\ Len(KindsOf(s)) = Len(s) /\ Len(s) \in Nat
           /\ \A i \in 1 .. Len(s) : KindsOf(s)[i] = s[i].kind
           /\ KindsOf(s) = <<>> <=> s = <<>>
<1> DEFINE n == Len(s)
           k == [i \in 1 .. n |-> s[i].kind]
<1>1. n \in Nat /\ DOMAIN s = 1 .. n
  BY SeqDomain
<1>2. KindsOf(s) = k
  BY <1>1 DEF KindsOf
<1> HIDE DEF n
<1>3. k \in Seq({s[i].kind : i \in 1 .. n}) /\ Len(k) = n /\ \A i \in 1 .. n : k[i] = s[i].kind
  BY <1>1
<1> HIDE DEF k
<1>4. IsSeq(k)
  BY <1>3, SeqIs
<1>5. \A t : IsSeq(t) => (t = <<>> <=> Len(t) = 0)
  BY DEF IsSeq
<1>6. k = <<>> <=> s = <<>>
  BY <1>3, <1>4, <1>5 DEF n
<1> QED BY <1>1, <1>2, <1>3, <1>4, <1>6 DEF n

LEMMA KindsMore ==
    ASSUME NEW s, NEW c, IsSeq(s)
    PROVE  /\ KindsOf(s \o <<c>>) = Append(KindsOf(s), c.kind)
           /\ KindOf(s, "none") = IF KindsOf(s) = <<>> THEN "none" ELSE KindsOf(s)[Len(KindsOf(s))]
<1> DEFINE u == s \o <<c>>
           k == KindsOf(s)
           m == KindsOf(u)
           n == Len(s)
           a == Append(k, c.kind)
<1>1. /\ IsSeq(u) /\ Len(u) = n + 1 /\ n \in Nat
      /\ (\A i \in 1 .. n : u[i] = s[i]) /\ u[n + 1] = c
  BY OneMore
<1> HIDE DEF u
<1>2. /\ IsSeq(k) /\ Len(k) = n /\ (\A i \in 1 .. n : k[i] = s[i].kind)
      /\ k = <<>> <=> s = <<>>
  BY KindsAre
<1>3. IsSeq(m) /\ Len(m) = n + 1 /\ \A i \in 1 .. n + 1 : m[i] = u[i].kind
  BY <1>1, KindsAre
<1> HIDE DEF k, m, n
<1>4. IsSeq(a) /\ Len(a) = n + 1 /\ (\A i \in 1 .. n : a[i] = k[i]) /\ a[n + 1] = c.kind
  <2> DEFINE T == Range(k) \cup {c.kind}
  <2>1. k \in Seq(T) /\ c.kind \in T
    BY <1>2 DEF IsSeq
  <2> HIDE DEF T
  <2>2. a \in Seq(T) /\ Len(a) = n + 1 /\ (\A i \in 1 .. n : a[i] = k[i]) /\ a[n + 1] = c.kind
    BY <1>2, <2>1
  <2> QED BY <2>2, SeqIs
<1> HIDE DEF a
<1>5. \A i \in 1 .. n + 1 : m[i] = a[i]
  <2>1. \A i \in 1 .. n + 1 : i \in 1 .. n \/ i = n + 1
    BY <1>1
  <2>2. n + 1 \in 1 .. n + 1 /\ \A i \in 1 .. n : i \in 1 .. n + 1
    BY <1>1
  <2>3. m[n + 1] = a[n + 1]
    BY <1>1, <1>3, <1>4, <2>2
  <2>4. \A i \in 1 .. n : m[i] = a[i]
    BY <1>1, <1>2, <1>3, <1>4, <2>2
  <2> QED BY <2>1, <2>3, <2>4
<1>6. m = a
  BY <1>3, <1>4, <1>5, SameSeq
<1>7. KindOf(s, "none") = IF k = <<>> THEN "none" ELSE k[Len(k)]
  <2>1. CASE s = <<>>
    BY <1>2, <2>1 DEF KindOf
  <2>2. CASE s # <<>>
    <3>1. n # 0
      <4>1. \A t : IsSeq(t) => (t = <<>> <=> Len(t) = 0)
        BY DEF IsSeq
      <4> QED BY <2>2, <4>1 DEF n
    <3>2. n \in 1 .. n
      BY <1>1, <3>1
    <3>3. k[n] = s[n].kind
      BY <1>2, <3>2
    <3> QED BY <1>2, <2>2, <3>3 DEF KindOf, n
  <2> QED BY <2>1, <2>2
<1> QED BY <1>6, <1>7 DEF m, a, u, k

(* Only Write shows the client anything, and nothing follows the end. *)
LEMMA SentKept ==
    ASSUME [Next]_vars
    PROVE  Write \/ sent' = sent
<1>1. \A e : Throw(e) => sent' = sent
  BY DEF Throw
<1>2. CASE Upstream
  BY <1>1, <1>2 DEF Upstream, NetworkFault, HeadersOk, EmptyBody, HeadersRefused, RefusalRead,
     BodyArrives, Answered, BodyGarbled, BodyBroken, Cut, Overloaded, Read, ledger
<1>3. CASE Gateway
  BY <1>1, <1>3 DEF Gateway, Begin, TimerFires, ParseLine, ReadEnd, ReadRejects, Pull,
     StreamEnds, StreamThrows, ledger
<1>4. CASE Client
  BY <1>1, <1>4 DEF Client, Disconnect, Drained, ledger
<1>5. CASE Rest \/ UNCHANGED vars
  BY <1>5 DEF Rest, vars
<1> QED BY <1>2, <1>3, <1>4, <1>5 DEF Next

(* A call that has ended stays ended. *)
LEMMA EndedStays ==
    ASSUME [Next]_vars, pc = "ended"
    PROVE  UNCHANGED vars
<1>1. ~Upstream
  BY DEF Upstream, NetworkFault, HeadersOk, EmptyBody, HeadersRefused, RefusalRead,
     BodyArrives, BodyGarbled, BodyBroken, Cut, Overloaded, Read, Pulling
<1>2. ~Gateway
  BY DEF Gateway, Begin, TimerFires, ParseLine, ReadEnd, ReadRejects, Pull, Write,
     StreamEnds, StreamThrows, Pulling
<1>3. ~Client
  BY DEF Client, Disconnect, Drained
<1> QED BY <1>1, <1>2, <1>3 DEF Next, Rest

-----------------------------------------------------------------------------
(* Every step is one of ChunkProtocol's, or none. *)
Stutters == KindsOf(sent)' = KindsOf(sent) /\ Outcome' = Outcome /\ Len(log)' = Len(log)
Continues(last, kind) == MayFollow(last, kind) \/ (kind = "error" /\ last # "error")
Delivers ==
    /\ Outcome = "open" /\ Outcome' = Outcome /\ Len(log)' = Len(log)
    /\ \E kind \in Kinds \ {"none"} :
          /\ Continues(KindOf(sent, "none"), kind)
          /\ KindsOf(sent)' = Append(KindsOf(sent), kind)
Ends ==
    /\ Outcome = "open" /\ Outcome' \in {"closed", "broken"}
    /\ Len(log)' = Len(log) + 1 /\ KindsOf(sent)' = KindsOf(sent)
Refuses ==
    /\ Outcome = "open" /\ KindsOf(sent) = <<>> /\ Outcome' = "refused"
    /\ KindsOf(sent)' = KindsOf(sent) /\ Len(log)' = Len(log)

(* A write delivers a chunk or, when the client is gone or did not ask for the *)
(* usage, nothing; the step that ends the call ends the stream or refuses it. *)
LEMMA StepMaps ==
    ASSUME IInv, IInv', [Next]_vars
    PROVE  Stutters \/ Delivers \/ Ends \/ Refuses
<1>0. Control /\ Control' /\ Flow /\ BookedExactly' /\ IsSeq(sent)
  BY DEF IInv, Control
<1>1. CASE pc = "ended"
  <2>1. UNCHANGED vars
    BY <1>1, EndedStays
  <2>2. pc' = pc /\ sent' = sent /\ log' = log /\ verdict' = verdict
    BY <2>1 DEF vars
  <2> QED BY <2>2 DEF Stutters, Outcome, KindsOf, Committed
<1>2. CASE pc # "ended" /\ pc' # "ended"
  <2>1. log = <<>> /\ log' = <<>> /\ Outcome = "open" /\ Outcome' = "open"
    BY <1>0, <1>2 DEF Control, Outcome
  <2>2. CASE sent' = sent
    BY <2>1, <2>2 DEF Stutters, KindsOf
  <2>3. CASE Write
    <3>1. pc \in Flowing /\ queue # <<>>
      BY <1>0, <2>3 DEF Write, Flowing, Control
    <3>2. PICK last \in Kinds : Ordered(last)
      BY <1>0, <3>1 DEF Flow
    <3>3. Head(queue) = queue[1] /\ queue[1].kind \in Kinds
      BY <3>1, <3>2, HeadIs
    <3>4. PICK kind \in Kinds : kind = queue[1].kind
      BY <3>3
    <3>5. Continues(last, kind) /\ kind # "none"
      <4>1. CASE Regular(last)
        <5>1. TakenOff(queue, last, Payable)
          BY <3>1, <4>1, HeadTaken DEF Regular
        <5> QED BY <3>4, <5>1 DEF TakenOff, MayFollow, Continues
      <4>2. CASE Struck(last)
        BY <3>1, <3>4, <4>2, StruckHead DEF Continues
      <4> QED BY <3>2, <4>1, <4>2 DEF Ordered
    <3>6. sent' = sent \/ (sent' = sent \o <<queue[1]>> /\ ~gone)
      BY <1>0, <2>3, <3>3, WrittenIs
    <3>7. ASSUME sent' = sent \o <<queue[1]>>, ~gone
          PROVE  Delivers
      <4>1. KindsOf(sent)' = KindsOf(sent')
        BY DEF KindsOf
      <4>2. KindsOf(sent') = Append(KindsOf(sent), kind)
        BY <1>0, <3>4, <3>7, KindsMore
      <4>3. Continues(KindOf(sent, "none"), kind)
        BY <3>2, <3>5, <3>7 DEF Ordered
      <4> QED BY <2>1, <3>5, <4>1, <4>2, <4>3 DEF Delivers
    <3> QED BY <2>2, <3>6, <3>7
  <2> QED BY <2>2, <2>3, SentKept
<1>3. CASE pc # "ended" /\ pc' = "ended"
  <2>1. log = <<>> /\ Len(log) = 0 /\ Outcome = "open"
    BY <1>0, <1>3, NoRow DEF Control, Outcome
  <2>2. sent' = sent
    BY <1>3, SentKept DEF Write
  <2>3. KindsOf(sent)' = KindsOf(sent)
    BY <2>2 DEF KindsOf
  <2>4. CASE Committed'
    <3>1. Len(log)' = 1
      BY <1>0, <1>3, <2>4 DEF BookedExactly
    <3>2. Outcome' \in {"closed", "broken"}
      BY <1>3, <2>4 DEF Outcome
    <3> QED BY <2>1, <2>3, <3>1, <3>2 DEF Ends
  <2>5. CASE ~Committed'
    <3>1. Len(log)' = 0 /\ Outcome' = "refused"
      BY <1>0, <1>3, <2>5 DEF BookedExactly, Outcome
    <3>2. sent = <<>>
      BY <1>0, <2>2, <2>5 DEF Control, Committed
    <3>3. KindsOf(sent) = <<>>
      BY <1>0, <3>2, KindsAre
    <3> QED BY <2>1, <2>3, <3>1, <3>3 DEF Refuses
  <2> QED BY <2>4, <2>5
<1> QED BY <1>1, <1>2, <1>3

(* The whole call, from the fetch to the request log, is one of             *)
(* ChunkProtocol's behaviours, whatever the provider, the framing, the      *)
(* reads and the faults: the client is shown role, deltas, one finish and   *)
(* usage in that order, or less of it and one error frame, nothing after    *)
(* that or the end, and a refused call shows and books nothing.             *)
THEOREM ProtocolHolds == Spec => ImplementsProtocol
<1>1. Init => Protocol!Init
  <2> SUFFICES ASSUME Init PROVE Protocol!Init
    OBVIOUS
  <2>1. sent = <<>> /\ log = <<>> /\ pc = "start"
    BY DEF Init
  <2>2. KindsOf(sent) = <<>>
    BY <2>1, TuplesAreSeqs, KindsAre
  <2> QED BY <2>1, <2>2, NoRow DEF Protocol!Init, KindsOf
<1>2. IInv /\ IInv' /\ [Next]_vars => [Protocol!Next]_(Protocol!vars)
  <2> SUFFICES ASSUME IInv, IInv', [Next]_vars PROVE [Protocol!Next]_(Protocol!vars)
    OBVIOUS
  <2>1. CASE Stutters
    BY <2>1 DEF Stutters, KindsOf, Outcome, Protocol!vars
  <2>2. CASE Delivers
    <3>1. PICK kind \in Kinds \ {"none"} :
              /\ Continues(KindOf(sent, "none"), kind)
              /\ KindsOf(sent)' = Append(KindsOf(sent), kind)
      BY <2>2 DEF Delivers
    <3>2. KindOf(sent, "none") = IF KindsOf(sent) = <<>> THEN "none"
                                 ELSE KindsOf(sent)[Len(KindsOf(sent))]
      BY KindsMore DEF IInv, Control
    <3>3. kind \in Protocol!Kinds
      BY DEF Kinds, Protocol!Kinds
    <3>4. Protocol!May(kind)
      BY <3>1, <3>2 DEF Continues, MayFollow, Deltas, Protocol!May, KindsOf
    <3>5. Protocol!Deliver
      BY <2>2, <3>1, <3>3, <3>4 DEF Delivers, KindsOf, Outcome, Protocol!Deliver
    <3> QED BY <3>5 DEF Protocol!Next
  <2>3. CASE Ends
    <3>1. Protocol!End
      BY <2>3 DEF Ends, KindsOf, Outcome, Protocol!End
    <3> QED BY <3>1 DEF Protocol!Next
  <2>4. CASE Refuses
    <3>1. Protocol!Refuse
      BY <2>4 DEF Refuses, KindsOf, Outcome, Protocol!Refuse
    <3> QED BY <3>1 DEF Protocol!Next
  <2> QED BY <2>1, <2>2, <2>3, <2>4, StepMaps
<1> QED BY <1>1, <1>2, CallInvariant, PTL DEF Spec, ImplementsProtocol, Protocol!Spec
=============================================================================
