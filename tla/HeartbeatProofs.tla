--------------------------- MODULE HeartbeatProofs ----------------------------
(***************************************************************************)
(* Proofs about Heartbeat, for any number of lists and changes of model.   *)
(*                                                                         *)
(* What arrives and what is still to arrive are one stream of pieces.  All *)
(* that the steps do to it is to add whole lines at its end and to take    *)
(* pieces from its head, so that it consists of lines, the first perhaps   *)
(* without its beginning (InLines, Continues).  From that follow the       *)
(* bound of its length, by counting PINGs, commands and pieces against     *)
(* what they were sent for (Counted), and the order of the lists.          *)
(***************************************************************************)
EXTENDS Heartbeat, SequenceTheorems, TLAPS

\* TypeOK without its bounds, which only Counted gives; and no list that was
\* not announced is lost.
Types ==
  /\ worker \in {"beating", "first", "extra"}
  /\ got \in Piece \cup {None}
  /\ pings \in Nat /\ commands \in Nat
  /\ wire \in Seq(Piece) /\ buffer \in Seq(Piece)
  /\ handler \in {"select", "switching"}
  /\ known \in BOOLEAN /\ taken \in BOOLEAN
  /\ announced \in 0 .. MaxLists /\ switched \in 0 .. MaxSwitch
  /\ handed \in Seq(1 .. MaxLists)
  /\ lost \subseteq 1 .. announced

IsEnd(s, i) == s[i].part = "end"

\* Beginnings and ends alternate, an end is of the line of its beginning, and
\* the last piece is an end.
InLines(s) ==
  /\ s # <<>> => IsEnd(s, Len(s))
  /\ \A i \in 1 .. Len(s) - 1 :
       /\ IsEnd(s, i) => ~ IsEnd(s, i + 1)
       /\ ~ IsEnd(s, i) => /\ IsEnd(s, i + 1)
                           /\ s[i + 1].kind = s[i].kind /\ s[i + 1].list = s[i].list

\* The reader's part of a line is the beginning of the line that comes next.
Continues(g, s) ==
  g # None => /\ s # <<>> /\ IsEnd(s, 1)
              /\ s[1].kind = g.kind /\ s[1].list = g.list

\* Lists under way were announced.
Listed(s, n) == \A i \in 1 .. Len(s) : s[i].kind = "LIST" => s[i].list \in 1 .. n

StreamInv == InLines(Stream) /\ Continues(got, Stream) /\ Listed(Stream, announced)

\* Every PING is answered by one line at most, two pieces, but for a list.  What
\* is left of the first line counts as a whole one.
Weight(s) == Len(s) + IF s # <<>> /\ IsEnd(s, 1) THEN 1 ELSE 0
Awaiting == IF worker = "first" THEN 1 ELSE 0
Counted ==
  /\ commands <= switched
  /\ 2 * pings + Weight(Stream) <= 2 * (announced + switched - commands + Awaiting)

\* While the worker waits, a PING or an answer is on its way.
Awaited == worker = "first" /\ ~ taken => pings > 0 \/ Stream # <<>>

-----------------------------------------------------------------------------
\* A piece is no absent piece, which lets got tell the two apart.
LEMMA PiecesHaveParts ==
  ASSUME NEW p \in Piece
  PROVE  /\ p.part \in {"begin", "end"} /\ p.kind \in Kind /\ p.list \in 0 .. MaxLists
         /\ p # None
  BY DEF Piece, None

\* The stream is a sequence of pieces.
LEMMA StreamType == Types => Stream \in Seq(Piece)
  BY ConcatProperties DEF Types, Stream

\* A piece read from the buffer is taken from the head of the stream.
LEMMA ReadStream ==
  ASSUME NEW b \in Seq(Piece), NEW w \in Seq(Piece), b # <<>>
  PROVE  /\ b \o w \in Seq(Piece) /\ b \o w # <<>>
         /\ Head(b) = (b \o w)[1] /\ Head(b) \in Piece
         /\ Tail(b) \o w = Tail(b \o w)
<1> DEFINE s == b \o w
<1>1. Len(b) \in Nat \ {0} /\ Len(w) \in Nat
  BY EmptySeq, LenProperties
<1>2. /\ s \in Seq(Piece) /\ Len(s) = Len(b) + Len(w)
      /\ \A i \in 1 .. Len(b) + Len(w) : s[i] = IF i <= Len(b) THEN b[i] ELSE w[i - Len(b)]
  BY ConcatProperties
<1>3. s # <<>>
  BY <1>1, <1>2, EmptySeq
<1>4. Head(b) = s[1] /\ Head(b) \in Piece
  <2>1. 1 \in 1 .. Len(b) + Len(w) /\ 1 <= Len(b)
    BY <1>1
  <2>2. s[1] = b[1] /\ Head(b) = b[1]
    BY <1>2, <2>1
  <2>3. Head(b) \in Piece
    BY HeadTailProperties
  <2>4. QED
    BY <2>2, <2>3
<1>5. /\ Tail(b) \in Seq(Piece) /\ Len(Tail(b)) = Len(b) - 1
      /\ \A i \in 1 .. Len(Tail(b)) : Tail(b)[i] = b[i + 1]
  BY HeadTailProperties
<1>6. /\ Tail(s) \in Seq(Piece) /\ Len(Tail(s)) = Len(s) - 1
      /\ \A i \in 1 .. Len(Tail(s)) : Tail(s)[i] = s[i + 1]
  BY <1>2, <1>3, HeadTailProperties
<1> DEFINE t == Tail(b) \o w
<1>7. /\ t \in Seq(Piece) /\ Len(t) = Len(b) - 1 + Len(w)
      /\ \A i \in 1 .. Len(b) - 1 + Len(w) :
           t[i] = IF i <= Len(b) - 1 THEN Tail(b)[i] ELSE w[i - (Len(b) - 1)]
  BY <1>5, ConcatProperties
<1> HIDE DEF s, t
<1>8. \A i \in 1 .. Len(t) : t[i] = Tail(s)[i]
  <2> SUFFICES ASSUME NEW i \in 1 .. Len(t) PROVE t[i] = Tail(s)[i]
    OBVIOUS
  <2>0. i \in Nat /\ 1 <= i /\ i <= Len(b) - 1 + Len(w)
    BY <1>1, <1>7
  <2>1. Tail(s)[i] = s[i + 1]
    BY <2>0, <1>1, <1>2, <1>6
  <2>2. s[i + 1] = IF i + 1 <= Len(b) THEN b[i + 1] ELSE w[i + 1 - Len(b)]
    BY <2>0, <1>1, <1>2
  <2>3. t[i] = IF i <= Len(b) - 1 THEN Tail(b)[i] ELSE w[i - (Len(b) - 1)]
    BY <2>0, <1>1, <1>7
  <2>4. CASE i <= Len(b) - 1
    <3>1. i \in 1 .. Len(Tail(b)) /\ i + 1 <= Len(b)
      BY <2>0, <2>4, <1>1, <1>5
    <3>2. QED
      BY <2>1, <2>2, <2>3, <2>4, <3>1, <1>5
  <2>5. CASE ~ i <= Len(b) - 1
    <3>1. i + 1 - Len(b) = i - (Len(b) - 1) /\ ~ i + 1 <= Len(b)
      BY <2>0, <2>5, <1>1
    <3>2. QED
      BY <2>1, <2>2, <2>3, <2>5, <3>1
  <2>6. QED
    BY <2>4, <2>5
<1>9. t = Tail(s)
  <2>1. Len(t) = Len(Tail(s))
    BY <1>1, <1>2, <1>6, <1>7
  <2>2. t \in Seq(Piece) /\ Tail(s) \in Seq(Piece)
    BY <1>6, <1>7
  <2>3. QED
    BY <1>8, <2>1, <2>2, SeqEqual, Zenon
<1>10. QED
  BY <1>2, <1>3, <1>4, <1>9 DEF s, t

\* A piece that arrives stays where it is in the stream.
LEMMA ArriveStream ==
  ASSUME NEW b \in Seq(Piece), NEW w \in Seq(Piece), w # <<>>
  PROVE  /\ Append(b, Head(w)) \in Seq(Piece) /\ Tail(w) \in Seq(Piece)
         /\ Append(b, Head(w)) \o Tail(w) = b \o w
<1>1. Head(w) \in Piece /\ Tail(w) \in Seq(Piece)
  BY HeadTailProperties
<1>2. Append(b, Head(w)) \in Seq(Piece) /\ Append(b, Head(w)) = b \o <<Head(w)>>
  BY <1>1, AppendProperties, AppendIsConcat
<1>3. <<Head(w)>> \in Seq(Piece)
  BY <1>1
<1>4. <<Head(w)>> \o Tail(w) = w
  <2>1. w = SubSeq(w, 1, Len(w))
    BY SubSeqFull
  <2>2. Len(w) \in Nat \ {0}
    BY EmptySeq
  <2>3. 1 \in 1 .. Len(w) /\ Len(w) \in 1 .. Len(w)
    BY <2>2
  <2>4. SubSeq(w, 1, Len(w)) = <<w[1]>> \o SubSeq(w, 1 + 1, Len(w))
    BY <2>3, SubSeqRecursiveFirst
  <2>5. Tail(w) = SubSeq(w, 1 + 1, Len(w)) /\ Head(w) = w[1]
    BY TailIsSubSeq
  <2>6. QED
    BY <2>1, <2>4, <2>5, Zenon
<1>5. (b \o <<Head(w)>>) \o Tail(w) = b \o (<<Head(w)>> \o Tail(w))
  BY <1>1, <1>3, ConcatAssociative
<1>6. QED
  BY <1>1, <1>2, <1>4, <1>5

\* What remains of a stream when its first piece is taken.
LEMMA TailStream ==
  ASSUME NEW s \in Seq(Piece), s # <<>>
  PROVE  /\ Tail(s) \in Seq(Piece)
         /\ Len(s) \in Nat \ {0} /\ Len(Tail(s)) = Len(s) - 1
         /\ Tail(s) = <<>> <=> Len(s) = 1
         /\ \A i \in 1 .. Len(s) - 1 : Tail(s)[i] = s[i + 1]
         /\ \A i \in 1 .. Len(s) : s[i] \in Piece
<1>1. /\ Tail(s) \in Seq(Piece) /\ Len(Tail(s)) = Len(s) - 1
      /\ \A i \in 1 .. Len(Tail(s)) : Tail(s)[i] = s[i + 1]
  BY HeadTailProperties
<1>2. Len(s) \in Nat \ {0}
  BY EmptySeq
<1>3. Tail(s) = <<>> <=> Len(s) = 1
  BY <1>1, <1>2, EmptySeq
<1>4. \A i \in 1 .. Len(s) : s[i] \in Piece
  BY ElementOfSeq
<1>5. QED
  BY <1>1, <1>2, <1>3, <1>4

\* The two pieces that a line adds to a stream.
LEMMA LineAdded ==
  ASSUME NEW s \in Seq(Piece), NEW k \in Kind, NEW n \in 0 .. MaxLists
  PROVE  /\ Line(k, n) \in Seq(Piece)
         /\ s \o Line(k, n) \in Seq(Piece) /\ s \o Line(k, n) # <<>>
         /\ Len(s) \in Nat /\ Len(s \o Line(k, n)) = Len(s) + 2
         /\ \A i \in 1 .. Len(s) : (s \o Line(k, n))[i] = s[i] /\ s[i] \in Piece
         /\ (s \o Line(k, n))[Len(s) + 1] = [kind |-> k, list |-> n, part |-> "begin"]
         /\ (s \o Line(k, n))[Len(s) + 2] = [kind |-> k, list |-> n, part |-> "end"]
<1> DEFINE l == Line(k, n)
<1>1. /\ l \in Seq(Piece) /\ Len(l) = 2
      /\ l[1] = [kind |-> k, list |-> n, part |-> "begin"]
      /\ l[2] = [kind |-> k, list |-> n, part |-> "end"]
  BY DEF Line, Piece
<1> HIDE DEF l
<1>2. Len(s) \in Nat /\ \A i \in 1 .. Len(s) : s[i] \in Piece
  BY LenProperties, ElementOfSeq
<1>3. /\ s \o l \in Seq(Piece) /\ Len(s \o l) = Len(s) + 2
      /\ \A i \in 1 .. Len(s) + 2 : (s \o l)[i] = IF i <= Len(s) THEN s[i] ELSE l[i - Len(s)]
  <2>1. l \in Seq(Piece) /\ Len(l) = 2
    BY <1>1
  <2>2. /\ s \o l \in Seq(Piece) /\ Len(s \o l) = Len(s) + Len(l)
        /\ \A i \in 1 .. Len(s) + Len(l) :
             (s \o l)[i] = IF i <= Len(s) THEN s[i] ELSE l[i - Len(s)]
    BY <2>1, ConcatProperties
  <2>3. QED
    BY <2>1, <2>2
<1>4. \A i \in 1 .. Len(s) : (s \o l)[i] = s[i]
  BY <1>2, <1>3
<1>5. (s \o l)[Len(s) + 1] = l[1] /\ (s \o l)[Len(s) + 2] = l[2]
  <2>1. /\ Len(s) + 1 \in 1 .. Len(s) + 2 /\ ~ Len(s) + 1 <= Len(s) /\ Len(s) + 1 - Len(s) = 1
        /\ Len(s) + 2 \in 1 .. Len(s) + 2 /\ ~ Len(s) + 2 <= Len(s) /\ Len(s) + 2 - Len(s) = 2
    BY <1>2
  <2>2. QED
    BY <1>3, <2>1
<1>6. s \o l # <<>>
  BY <1>2, <1>3, EmptySeq
<1>7. QED
  BY <1>1, <1>2, <1>3, <1>4, <1>5, <1>6 DEF l

\* Whatever is read of a stream, lines remain, the first perhaps without its
\* beginning.
LEMMA TailInLines ==
  ASSUME NEW s \in Seq(Piece), s # <<>>, InLines(s)
  PROVE  InLines(Tail(s))
<1>1. /\ Tail(s) \in Seq(Piece)
      /\ Len(s) \in Nat \ {0} /\ Len(Tail(s)) = Len(s) - 1
      /\ Tail(s) = <<>> <=> Len(s) = 1
      /\ \A i \in 1 .. Len(s) - 1 : Tail(s)[i] = s[i + 1]
  BY TailStream
<1>2. ASSUME NEW i \in 1 .. Len(Tail(s)) - 1
      PROVE  /\ IsEnd(Tail(s), i) => ~ IsEnd(Tail(s), i + 1)
             /\ ~ IsEnd(Tail(s), i) =>
                  /\ IsEnd(Tail(s), i + 1)
                  /\ Tail(s)[i + 1].kind = Tail(s)[i].kind
                  /\ Tail(s)[i + 1].list = Tail(s)[i].list
  <2>1. i \in 1 .. Len(s) - 1 /\ i + 1 \in 1 .. Len(s) - 1
    BY <1>1
  <2>2. Tail(s)[i] = s[i + 1] /\ Tail(s)[i + 1] = s[(i + 1) + 1]
    BY <1>1, <2>1
  <2>3. QED
    BY <2>1, <2>2 DEF InLines, IsEnd
<1>3. ASSUME Tail(s) # <<>> PROVE IsEnd(Tail(s), Len(Tail(s)))
  <2>1. Len(s) - 1 \in 1 .. Len(s) - 1 /\ Len(s) - 1 + 1 = Len(s)
    BY <1>1, <1>3
  <2>2. Tail(s)[Len(Tail(s))] = s[Len(s)]
    BY <1>1, <2>1
  <2>3. QED
    BY <2>2 DEF InLines, IsEnd
<1>4. QED
  BY <1>2, <1>3 DEF InLines

\* Reading the beginning of a line leaves its end at the head of the stream.
LEMMA BeginTaken ==
  ASSUME NEW s \in Seq(Piece), s # <<>>, InLines(s), ~ IsEnd(s, 1)
  PROVE  /\ InLines(Tail(s)) /\ Tail(s) # <<>>
         /\ Continues(s[1], Tail(s))
         /\ Weight(Tail(s)) = Weight(s)
<1>1. /\ Tail(s) \in Seq(Piece)
      /\ Len(s) \in Nat \ {0} /\ Len(Tail(s)) = Len(s) - 1
      /\ Tail(s) = <<>> <=> Len(s) = 1
      /\ \A i \in 1 .. Len(s) - 1 : Tail(s)[i] = s[i + 1]
  BY TailStream
<1>2. Len(s) # 1
  BY <1>1 DEF InLines
<1>3. 1 \in 1 .. Len(s) - 1 /\ 1 + 1 = 2
  BY <1>1, <1>2
<1>4. Tail(s) # <<>> /\ Tail(s)[1] = s[2]
  BY <1>1, <1>2, <1>3
<1>5. IsEnd(s, 2) /\ s[2].kind = s[1].kind /\ s[2].list = s[1].list
  BY <1>3 DEF InLines
<1>6. Continues(s[1], Tail(s))
  BY <1>4, <1>5 DEF Continues, IsEnd
<1>7. InLines(Tail(s))
  BY TailInLines
<1>8. Weight(Tail(s)) = Weight(s)
  <2>1. IsEnd(Tail(s), 1)
    BY <1>4, <1>5 DEF IsEnd
  <2>2. Weight(s) = Len(s) + 0 /\ Weight(Tail(s)) = Len(s) - 1 + 1
    BY <1>1, <1>4, <2>1 DEF Weight
  <2>3. QED
    BY <1>1, <2>2
<1>9. QED
  BY <1>4, <1>6, <1>7, <1>8

\* Reading the end of a line leaves whole lines.
LEMMA EndTaken ==
  ASSUME NEW s \in Seq(Piece), s # <<>>, InLines(s), IsEnd(s, 1)
  PROVE  /\ InLines(Tail(s))
         /\ Tail(s) # <<>> => ~ IsEnd(Tail(s), 1)
         /\ Weight(Tail(s)) = Weight(s) - 2
<1>1. /\ Tail(s) \in Seq(Piece)
      /\ Len(s) \in Nat \ {0} /\ Len(Tail(s)) = Len(s) - 1
      /\ Tail(s) = <<>> <=> Len(s) = 1
      /\ \A i \in 1 .. Len(s) - 1 : Tail(s)[i] = s[i + 1]
  BY TailStream
<1>2. ASSUME Tail(s) # <<>> PROVE ~ IsEnd(Tail(s), 1)
  <2>1. 1 \in 1 .. Len(s) - 1 /\ 1 + 1 = 2
    BY <1>1, <1>2
  <2>2. Tail(s)[1] = s[2] /\ ~ IsEnd(s, 2)
    BY <1>1, <2>1 DEF InLines
  <2>3. QED
    BY <2>2 DEF IsEnd
<1>3. InLines(Tail(s))
  BY TailInLines
<1>4. Weight(Tail(s)) = Weight(s) - 2
  <2>1. Weight(s) = Len(s) + 1 /\ Weight(Tail(s)) = Len(s) - 1 + 0
    BY <1>1, <1>2 DEF Weight
  <2>2. QED
    BY <1>1, <2>1
<1>5. QED
  BY <1>2, <1>3, <1>4

\* What is written joins the stream as a line.
LEMMA LineWritten ==
  ASSUME NEW s \in Seq(Piece), InLines(s), NEW k \in Kind, NEW n \in 0 .. MaxLists
  PROVE  /\ InLines(s \o Line(k, n))
         /\ Weight(s \o Line(k, n)) = Weight(s) + 2
         /\ \A g : Continues(g, s) => Continues(g, s \o Line(k, n))
<1> DEFINE t == s \o Line(k, n)
<1>1. /\ t \in Seq(Piece) /\ t # <<>>
      /\ Len(s) \in Nat /\ Len(t) = Len(s) + 2
      /\ \A i \in 1 .. Len(s) : t[i] = s[i] /\ s[i] \in Piece
      /\ t[Len(s) + 1] = [kind |-> k, list |-> n, part |-> "begin"]
      /\ t[Len(s) + 2] = [kind |-> k, list |-> n, part |-> "end"]
  BY LineAdded
<1>2. s # <<>> => Len(s) # 0
  BY EmptySeq
<1> HIDE DEF t
<1>3. s # <<>> => 1 \in 1 .. Len(s) /\ Len(s) \in 1 .. Len(s) /\ t[1] = s[1]
  BY <1>1, <1>2
<1>4. /\ ~ IsEnd(t, Len(s) + 1) /\ IsEnd(t, Len(s) + 2)
      /\ t[Len(s) + 1].kind = t[Len(s) + 2].kind /\ t[Len(s) + 1].list = t[Len(s) + 2].list
  BY <1>1 DEF IsEnd
<1>5. InLines(t)
  <2>1. IsEnd(t, Len(t))
    BY <1>1, <1>4
  <2>2. ASSUME NEW i \in 1 .. Len(t) - 1
        PROVE  /\ IsEnd(t, i) => ~ IsEnd(t, i + 1)
               /\ ~ IsEnd(t, i) => /\ IsEnd(t, i + 1)
                                   /\ t[i + 1].kind = t[i].kind /\ t[i + 1].list = t[i].list
    <3>1. CASE i \in 1 .. Len(s) - 1
      <4>1. i \in 1 .. Len(s) /\ i + 1 \in 1 .. Len(s)
        BY <1>1, <3>1
      <4>2. t[i] = s[i] /\ t[i + 1] = s[i + 1]
        BY <1>1, <4>1
      <4>3. QED
        BY <3>1, <4>2 DEF InLines, IsEnd
    <3>2. CASE i = Len(s)
      <4>1. s # <<>>
        BY <1>1, <3>2, EmptySeq
      <4>2. t[i] = s[Len(s)]
        BY <1>1, <1>3, <3>2, <4>1
      <4>3. QED
        BY <1>4, <3>2, <4>1, <4>2 DEF InLines, IsEnd
    <3>3. CASE i = Len(s) + 1
      <4>1. i + 1 = Len(s) + 2
        BY <1>1, <3>3
      <4>2. QED
        BY <1>4, <3>3, <4>1
    <3>4. i \in 1 .. Len(s) - 1 \/ i = Len(s) \/ i = Len(s) + 1
      BY <1>1
    <3>5. QED
      BY <3>1, <3>2, <3>3, <3>4
  <2>3. QED
    BY <2>1, <2>2 DEF InLines
<1>6. Weight(t) = Weight(s) + 2
  <2>1. IsEnd(t, 1) <=> s # <<>> /\ IsEnd(s, 1)
    <3>1. CASE s = <<>>
      <4>1. Len(s) + 1 = 1
        BY <1>1, <3>1, EmptySeq
      <4>2. QED
        BY <1>4, <3>1, <4>1
    <3>2. CASE s # <<>>
      BY <1>3, <3>2 DEF IsEnd
    <3>3. QED
      BY <3>1, <3>2
  <2>2. QED
    BY <1>1, <2>1 DEF Weight
<1>7. ASSUME NEW g, Continues(g, s) PROVE Continues(g, t)
  BY <1>1, <1>3, <1>7 DEF Continues, IsEnd
<1>8. QED
  BY <1>5, <1>6, <1>7 DEF t
-----------------------------------------------------------------------------
(* What the steps do to the stream and to the lists. *)

UnchangedLists == UNCHANGED <<handed, announced, lost>>

Kept      == Stream' = Stream /\ got' = got /\ UnchangedLists
BeginRead == /\ Stream # <<>> /\ ~ IsEnd(Stream, 1)
             /\ Stream' = Tail(Stream) /\ got' = Stream[1]
             /\ UnchangedLists
LineRead  == /\ Stream # <<>> /\ IsEnd(Stream, 1)
             /\ Stream' = Tail(Stream) /\ got' = None
             /\ HandOn /\ UNCHANGED <<announced, lost>>
LineCut   == /\ Stream' = Stream /\ got' = None
             /\ lost' = IF LineIs("LIST") THEN lost \cup {got.list} ELSE lost
             /\ UNCHANGED <<handed, announced>>
Dropped   == /\ Stream' = <<>> /\ got' = None
             /\ lost' = lost \cup UnreadLists
             /\ UNCHANGED <<handed, announced>>
Said      == /\ \E k \in Kind \ {"LIST"} : Stream' = Stream \o Line(k, 0)
             /\ got' = got /\ UnchangedLists
ListSent  == /\ announced' = announced + 1 /\ announced' \in 1 .. MaxLists
             /\ Stream' = (Stream \o Line("PONG", 0)) \o Line("LIST", announced')
             /\ UNCHANGED <<got, handed, lost>>

StreamsTyped == wire' \in Seq(Piece) /\ buffer' \in Seq(Piece)

\* Steps that touch neither what is under way nor what was read.
LEMMA KeepingSteps ==
  ASSUME Types,
         SendPing \/ TakeResponse \/ SwitchModel \/ Unregister \/ UNCHANGED vars
  PROVE  Kept /\ StreamsTyped
<1>1. wire' = wire /\ buffer' = buffer /\ got' = got /\ UnchangedLists
  BY DEF SendPing, TakeResponse, SwitchModel, Unregister, vars, workerVars, masterVars,
         UnchangedLists
<1>2. QED
  BY <1>1 DEF Kept, Stream, StreamsTyped, Types

\* The steps one by one.
LEMMA ArriveKeeps ==
  ASSUME Types, Arrive
  PROVE  Kept /\ StreamsTyped
<1>1. got' = got /\ UnchangedLists
  BY DEF Arrive, workerVars, masterVars, UnchangedLists
<1>2. Stream' = Stream /\ StreamsTyped
  BY ArriveStream DEF Arrive, Stream, StreamsTyped, Types
<1>3. QED
  BY <1>1, <1>2 DEF Kept

LEMMA ReadBeginTakes ==
  ASSUME Types, ReadBegin
  PROVE  BeginRead /\ StreamsTyped
<1>1. /\ Stream # <<>> /\ Head(buffer) = Stream[1] /\ Head(buffer) \in Piece
      /\ Tail(buffer) \o wire = Tail(Stream)
  BY ReadStream DEF Types, Stream, ReadBegin
<1>2. Stream' = Tail(Stream) /\ got' = Stream[1] /\ ~ IsEnd(Stream, 1)
  BY <1>1 DEF ReadBegin, Stream, IsEnd
<1>3. UnchangedLists
  BY DEF ReadBegin, masterVars, UnchangedLists
<1>4. StreamsTyped
  BY HeadTailProperties DEF Types, ReadBegin, StreamsTyped
<1>5. QED
  BY <1>1, <1>2, <1>3, <1>4 DEF BeginRead

LEMMA ReadingTakesLine ==
  ASSUME Types, ReadFirst \/ ReadExtra
  PROVE  LineRead /\ StreamsTyped
<1>0. ReadEnd /\ HandOn
  BY DEF ReadFirst, ReadExtra
<1>1. /\ Stream # <<>> /\ Head(buffer) = Stream[1] /\ Head(buffer) \in Piece
      /\ Tail(buffer) \o wire = Tail(Stream)
  BY <1>0, ReadStream DEF Types, Stream, ReadEnd
<1>2. Stream' = Tail(Stream) /\ got' = None /\ IsEnd(Stream, 1)
  BY <1>0, <1>1 DEF ReadEnd, Stream, IsEnd
<1>3. UNCHANGED <<announced, lost>>
  BY <1>0 DEF ReadEnd, masterVars
<1>4. StreamsTyped
  BY <1>0, HeadTailProperties DEF Types, ReadEnd, StreamsTyped
<1>5. QED
  BY <1>0, <1>1, <1>2, <1>3, <1>4 DEF LineRead

LEMMA TimeOutCuts ==
  ASSUME Types, TimeOut
  PROVE  LineCut /\ StreamsTyped
  BY DEF Types, TimeOut, LineCut, Stream, StreamsTyped, masterVars

LEMMA ReconnectDrops ==
  ASSUME Types, Reconnect
  PROVE  Dropped /\ StreamsTyped
<1>1. Stream' = <<>>
  BY ConcatEmptySeq, EmptySeq DEF Reconnect, Stream
<1>2. QED
  BY <1>1, EmptySeq DEF Reconnect, Dropped, StreamsTyped

\* What is written goes to the end of the stream.
LEMMA WriteStream ==
  ASSUME Types, NEW l \in Seq(Piece), Write(l), buffer' = buffer
  PROVE  Stream' = Stream \o l /\ StreamsTyped
<1>0. wire' = wire \o l
  BY DEF Write
<1>1. wire \in Seq(Piece) /\ buffer \in Seq(Piece)
  BY DEF Types
<1>2. wire \o l \in Seq(Piece)
  BY <1>1, ConcatProperties
<1>3. (buffer \o wire) \o l = buffer \o (wire \o l)
  BY <1>1, ConcatAssociative
<1>4. Stream' = buffer \o (wire \o l) /\ Stream = buffer \o wire
  BY <1>0 DEF Stream
<1>5. StreamsTyped
  BY <1>0, <1>1, <1>2 DEF StreamsTyped
<1>6. QED
  BY <1>3, <1>4, <1>5, Zenon

\* A line is two pieces.
LEMMA LineType ==
  ASSUME NEW k \in Kind, NEW n \in 0 .. MaxLists
  PROVE  Line(k, n) \in Seq(Piece)
  BY DEF Line, Piece

LEMMA TakeCommandSays ==
  ASSUME Types, TakeCommand
  PROVE  Said /\ StreamsTyped
<1>1. Line("SWITCH", 0) \in Seq(Piece)
  BY LineType, BoundsAssumption DEF Kind
<1>2. Stream' = Stream \o Line("SWITCH", 0) /\ StreamsTyped
  BY <1>1, WriteStream DEF TakeCommand
<1>3. got' = got /\ UnchangedLists
  BY DEF TakeCommand, workerVars, UnchangedLists
<1>4. QED
  BY <1>2, <1>3 DEF Said, Kind

LEMMA AnswerPingSays ==
  ASSUME Types, AnswerPing
  PROVE  (Said \/ ListSent) /\ StreamsTyped
<1>1. buffer' = buffer /\ got' = got /\ handed' = handed /\ lost' = lost
  BY DEF AnswerPing, workerVars
<1>2. CASE announced' = announced /\ (Write(Line("PONG", 0)) \/ Write(Line("ERROR", 0)))
  <2>1. Line("PONG", 0) \in Seq(Piece) /\ Line("ERROR", 0) \in Seq(Piece)
    BY LineType, BoundsAssumption DEF Kind
  <2>2. /\ Stream' = Stream \o Line("PONG", 0) \/ Stream' = Stream \o Line("ERROR", 0)
        /\ StreamsTyped
    BY <1>1, <1>2, <2>1, WriteStream
  <2>3. QED
    BY <1>1, <1>2, <2>2 DEF Said, Kind, UnchangedLists
<1>3. CASE /\ announced < MaxLists /\ announced' = announced + 1
           /\ Write(Line("PONG", 0) \o Line("LIST", announced'))
  <2>1. announced' \in 1 .. MaxLists
    BY <1>3, BoundsAssumption DEF Types
  <2>2. Line("PONG", 0) \in Seq(Piece) /\ Line("LIST", announced') \in Seq(Piece)
    BY <2>1, LineType, BoundsAssumption DEF Kind
  <2>3. Line("PONG", 0) \o Line("LIST", announced') \in Seq(Piece)
    BY <2>2, ConcatProperties
  <2>4. Stream' = Stream \o (Line("PONG", 0) \o Line("LIST", announced')) /\ StreamsTyped
    BY <1>1, <1>3, <2>3, WriteStream
  <2>5. Stream' = (Stream \o Line("PONG", 0)) \o Line("LIST", announced')
    <3>1. Stream \in Seq(Piece)
      BY StreamType
    <3>2. (Stream \o Line("PONG", 0)) \o Line("LIST", announced')
            = Stream \o (Line("PONG", 0) \o Line("LIST", announced'))
      BY <2>2, <3>1, ConcatAssociative
    <3>3. QED
      BY <2>4, <3>2, Zenon
  <2>6. QED
    BY <1>1, <1>3, <2>1, <2>4, <2>5 DEF ListSent
<1>4. QED
  BY <1>2, <1>3 DEF AnswerPing

\* Every step does one of these.
LEMMA Flow ==
  ASSUME Types, [Next]_vars
  PROVE  /\ Kept \/ BeginRead \/ LineRead \/ LineCut \/ Dropped \/ Said \/ ListSent
         /\ StreamsTyped
  BY KeepingSteps, ArriveKeeps, ReadBeginTakes, ReadingTakesLine, TimeOutCuts,
     ReconnectDrops, TakeCommandSays, AnswerPingSays DEF Next, Reading, Handling

-----------------------------------------------------------------------------
(* The stream stays a stream of whole lines. *)

\* Reading and writing leave only announced lists in the stream.
LEMMA ReadListed ==
  ASSUME NEW s \in Seq(Piece), s # <<>>, NEW n, Listed(s, n)
  PROVE  Listed(Tail(s), n)
<1>1. /\ Len(s) \in Nat /\ Len(Tail(s)) = Len(s) - 1
      /\ \A i \in 1 .. Len(s) - 1 : Tail(s)[i] = s[i + 1]
  BY TailStream
<1>2. \A i \in 1 .. Len(s) - 1 : i + 1 \in 1 .. Len(s)
  BY <1>1
<1>3. QED
  BY <1>1, <1>2 DEF Listed

LEMMA WrittenListed ==
  ASSUME NEW s \in Seq(Piece), NEW m \in Nat, Listed(s, m),
         NEW k \in Kind, NEW n \in 0 .. MaxLists, NEW l \in Nat,
         m <= l, k = "LIST" => n \in 1 .. l
  PROVE  Listed(s \o Line(k, n), l)
<1> DEFINE t == s \o Line(k, n)
<1>1. /\ Len(s) \in Nat /\ Len(t) = Len(s) + 2
      /\ \A i \in 1 .. Len(s) : t[i] = s[i]
      /\ t[Len(s) + 1] = [kind |-> k, list |-> n, part |-> "begin"]
      /\ t[Len(s) + 2] = [kind |-> k, list |-> n, part |-> "end"]
  BY LineAdded
<1> HIDE DEF t
<1>2. ASSUME NEW i \in 1 .. Len(t), t[i].kind = "LIST" PROVE t[i].list \in 1 .. l
  <2>1. CASE i \in 1 .. Len(s)
    <3>1. s[i].list \in 1 .. m
      BY <1>1, <1>2, <2>1 DEF Listed
    <3>2. QED
      BY <1>1, <2>1, <3>1
  <2>2. CASE i = Len(s) + 1 \/ i = Len(s) + 2
    BY <1>1, <1>2, <2>2
  <2>3. QED
    BY <1>1, <2>1, <2>2
<1>3. QED
  BY <1>2 DEF Listed, t

\* Each step leaves whole lines of announced lists, and a reader that holds the
\* beginning of the first.
LEMMA StreamStep == Types /\ StreamInv /\ [Next]_vars => StreamInv'
<1> SUFFICES ASSUME Types, StreamInv, [Next]_vars PROVE StreamInv'
  OBVIOUS
<1>0. /\ Stream \in Seq(Piece) /\ announced \in Nat /\ announced \in 0 .. MaxLists
      /\ InLines(Stream) /\ Continues(got, Stream) /\ Listed(Stream, announced)
  BY StreamType, BoundsAssumption DEF Types, StreamInv
<1> SUFFICES InLines(Stream') /\ Continues(got', Stream') /\ Listed(Stream', announced')
  BY DEF StreamInv
<1>1. CASE Kept
  BY <1>0, <1>1 DEF Kept, UnchangedLists
<1>2. CASE BeginRead
  <2>1. /\ Stream' = Tail(Stream) /\ got' = Stream[1] /\ announced' = announced
        /\ Stream # <<>> /\ ~ IsEnd(Stream, 1)
    BY <1>2 DEF BeginRead, UnchangedLists
  <2>2. InLines(Tail(Stream)) /\ Continues(Stream[1], Tail(Stream))
    BY <1>0, <2>1, BeginTaken
  <2>3. Listed(Tail(Stream), announced)
    BY <1>0, <2>1, ReadListed
  <2>4. QED
    BY <2>1, <2>2, <2>3
<1>3. CASE LineRead
  <2>1. /\ Stream' = Tail(Stream) /\ got' = None /\ announced' = announced
        /\ Stream # <<>> /\ IsEnd(Stream, 1)
    BY <1>3 DEF LineRead
  <2>2. InLines(Tail(Stream))
    BY <1>0, <2>1, EndTaken
  <2>3. Listed(Tail(Stream), announced)
    BY <1>0, <2>1, ReadListed
  <2>4. QED
    BY <2>1, <2>2, <2>3 DEF Continues
<1>4. CASE LineCut
  BY <1>0, <1>4 DEF LineCut, Continues
<1>5. CASE Dropped
  <2>1. InLines(<<>>) /\ Continues(None, <<>>) /\ Listed(<<>>, announced)
    BY DEF InLines, Continues, Listed
  <2>2. QED
    BY <1>5, <2>1 DEF Dropped
<1>6. CASE Said
  <2>1. PICK k \in Kind \ {"LIST"} : Stream' = Stream \o Line(k, 0)
    BY <1>6 DEF Said
  <2>2. got' = got /\ announced' = announced
    BY <1>6 DEF Said, UnchangedLists
  <2>3. k \in Kind /\ 0 \in 0 .. MaxLists /\ k # "LIST" /\ announced <= announced
    BY <1>0, BoundsAssumption
  <2>4. /\ InLines(Stream \o Line(k, 0))
        /\ Continues(got, Stream \o Line(k, 0))
    BY <1>0, <2>3, LineWritten
  <2>5. Listed(Stream \o Line(k, 0), announced)
    BY <1>0, <2>3, WrittenListed
  <2>6. QED
    BY <2>1, <2>2, <2>4, <2>5
<1>7. CASE ListSent
  <2> DEFINE s == Stream \o Line("PONG", 0)
             t == s \o Line("LIST", announced')
  <2>1. /\ announced' = announced + 1 /\ announced' \in 1 .. MaxLists
        /\ Stream' = t /\ got' = got
    BY <1>7 DEF ListSent
  <2>2. /\ "PONG" \in Kind /\ "LIST" \in Kind /\ 0 \in 0 .. MaxLists
        /\ announced' \in 0 .. MaxLists /\ announced' \in Nat
        /\ announced <= announced /\ announced <= announced' /\ announced' \in 1 .. announced'
    BY <1>0, <2>1, BoundsAssumption DEF Kind
  <2>3. s \in Seq(Piece)
    BY <1>0, <2>2, LineAdded
  <2>4. InLines(s) /\ Continues(got, s)
    BY <1>0, <2>2, LineWritten
  <2>5. Listed(s, announced)
    BY <1>0, <2>2, WrittenListed
  <2> HIDE DEF s
  <2>6. InLines(t) /\ Continues(got, t)
    BY <2>2, <2>3, <2>4, LineWritten
  <2>7. Listed(t, announced')
    BY <1>0, <2>2, <2>3, <2>5, WrittenListed
  <2>8. QED
    BY <2>1, <2>6, <2>7
<1>8. QED
  BY <1>1, <1>2, <1>3, <1>4, <1>5, <1>6, <1>7, Flow

-----------------------------------------------------------------------------
(* PINGs, commands and pieces are counted. *)

\* Each step keeps the count: reading a line pays for the PING awaited, or is of
\* a list or a command; an answer replaces its PING.
LEMMA CountedStep == Types /\ StreamInv /\ Counted /\ [Next]_vars => Counted'
<1> SUFFICES ASSUME Types, StreamInv, Counted, [Next]_vars PROVE Counted'
  OBVIOUS
<1> DEFINE W == Weight(Stream)
<1>0. /\ Stream \in Seq(Piece) /\ InLines(Stream)
      /\ worker \in {"beating", "first", "extra"}
      /\ pings \in Nat /\ commands \in Nat /\ announced \in Nat /\ switched \in Nat
      /\ commands <= switched /\ Len(Stream) \in Nat /\ W \in Nat
      /\ 2 * pings + W <= 2 * (announced + switched - commands + Awaiting)
  <2>1. Stream \in Seq(Piece) /\ Len(Stream) \in Nat
    BY StreamType
  <2>2. W \in Nat
    BY <2>1 DEF Weight
  <2>3. QED
    BY <2>1, <2>2, BoundsAssumption DEF Types, StreamInv, Counted
<1> SUFFICES /\ commands' <= switched'
             /\ 2 * pings' + Weight(Stream')
                  <= 2 * (announced' + switched' - commands' + Awaiting')
  BY DEF Counted
<1> HIDE DEF W
<1>1. CASE SendPing
  <2>1. Stream' = Stream /\ pings' = pings + 1 /\ Awaiting' = 1 /\ Awaiting = 0
        /\ UNCHANGED <<announced, switched, commands>>
    BY <1>1 DEF SendPing, Stream, Awaiting, masterVars
  <2>2. Weight(Stream') = W
    BY <2>1 DEF W
  <2>3. QED
    BY <1>0, <2>1, <2>2
<1>2. CASE ReadBegin
  <2>1. BeginRead
    BY <1>2, ReadBeginTakes
  <2>2. Weight(Stream') = W
    BY <1>0, <2>1, BeginTaken DEF W, BeginRead
  <2>3. UNCHANGED <<pings, Awaiting, announced, switched, commands>>
    BY <1>2 DEF ReadBegin, masterVars, Awaiting
  <2>4. Awaiting \in {0, 1}
    BY DEF Awaiting
  <2>5. QED
    BY <1>0, <2>2, <2>3, <2>4
<1>3. CASE ReadFirst \/ ReadExtra
  <2>1. LineRead
    BY <1>3, ReadingTakesLine
  <2>2. Weight(Stream') = W - 2
    BY <1>0, <2>1, EndTaken DEF W, LineRead
  <2>3. UNCHANGED <<pings, announced, switched, commands>>
    BY <1>3 DEF ReadFirst, ReadExtra, ReadEnd, masterVars
  <2>4. Awaiting \in {0, 1} /\ Awaiting' = 0
    BY <1>3 DEF Awaiting, ReadFirst, ReadExtra
  <2>5. QED
    BY <1>0, <2>2, <2>3, <2>4
<1>4. CASE TimeOut
  <2>1. Weight(Stream') = W
    BY <1>4 DEF TimeOut, Stream, W
  <2>2. UNCHANGED <<pings, announced, switched, commands>> /\ Awaiting = 0 /\ Awaiting' = 0
    BY <1>4 DEF TimeOut, masterVars, Awaiting
  <2>3. QED
    BY <1>0, <2>1, <2>2
<1>5. CASE Reconnect
  <2>1. Stream' = <<>>
    BY <1>5, ReconnectDrops DEF Dropped
  <2>2. Weight(Stream') = 0
    BY <2>1, EmptySeq DEF Weight
  <2>3. pings' = 0 /\ commands' = 0 /\ UNCHANGED <<announced, switched>> /\ Awaiting' = 0
    BY <1>5 DEF Reconnect, Awaiting
  <2>4. QED
    BY <1>0, <2>2, <2>3
<1>6. CASE Arrive
  <2>1. Stream' = Stream
    BY <1>6, ArriveKeeps DEF Kept
  <2>2. Weight(Stream') = W
    BY <2>1 DEF W
  <2>3. UNCHANGED <<pings, Awaiting, announced, switched, commands>>
    BY <1>6 DEF Arrive, workerVars, masterVars, Awaiting
  <2>4. Awaiting \in {0, 1}
    BY DEF Awaiting
  <2>5. QED
    BY <1>0, <2>2, <2>3, <2>4
<1>7. CASE AnswerPing
  <2>0. /\ pings' = pings - 1 /\ UNCHANGED <<Awaiting, switched, commands>>
        /\ Awaiting \in {0, 1}
    BY <1>7 DEF AnswerPing, workerVars, Awaiting
  <2>1. CASE Said
    <3>1. PICK k \in Kind : Stream' = Stream \o Line(k, 0)
      BY <2>1 DEF Said
    <3>2. Weight(Stream') = W + 2
      BY <1>0, <3>1, LineWritten, BoundsAssumption DEF W
    <3>3. announced' = announced
      BY <2>1 DEF Said, UnchangedLists
    <3>4. QED
      BY <1>0, <2>0, <3>2, <3>3
  <2>2. CASE ListSent
    <3> DEFINE s == Stream \o Line("PONG", 0)
    <3>1. /\ announced' = announced + 1 /\ announced' \in 0 .. MaxLists
          /\ Stream' = s \o Line("LIST", announced')
      BY <2>2, BoundsAssumption DEF ListSent
    <3>2. "PONG" \in Kind /\ "LIST" \in Kind /\ 0 \in 0 .. MaxLists
      BY BoundsAssumption DEF Kind
    <3>3. s \in Seq(Piece)
      BY <1>0, <3>2, LineAdded
    <3>4. InLines(s) /\ Weight(s) = W + 2
      BY <1>0, <3>2, LineWritten DEF W
    <3> HIDE DEF s
    <3>5. Weight(Stream') = Weight(s) + 2
      BY <3>1, <3>2, <3>3, <3>4, LineWritten
    <3>6. QED
      BY <1>0, <2>0, <3>1, <3>4, <3>5
  <2>3. QED
    BY <1>7, <2>1, <2>2, AnswerPingSays
<1>8. CASE TakeCommand
  <2>1. PICK k \in Kind : Stream' = Stream \o Line(k, 0)
    BY <1>8, TakeCommandSays DEF Said
  <2>2. Weight(Stream') = W + 2
    BY <1>0, <2>1, LineWritten, BoundsAssumption DEF W
  <2>3. /\ commands > 0 /\ commands' = commands - 1
        /\ UNCHANGED <<pings, Awaiting, announced, switched>> /\ Awaiting \in {0, 1}
    BY <1>8 DEF TakeCommand, workerVars, Awaiting
  <2>4. QED
    BY <1>0, <2>2, <2>3
<1>9. CASE TakeResponse
  <2>1. Weight(Stream') = W
    BY <1>9 DEF TakeResponse, Stream, W
  <2>2. /\ pings' = pings - 1 /\ Awaiting \in {0, 1}
        /\ UNCHANGED <<Awaiting, announced, switched, commands>>
    BY <1>9 DEF TakeResponse, workerVars, Awaiting
  <2>3. QED
    BY <1>0, <2>1, <2>2
<1>10. CASE SwitchModel
  <2>1. Weight(Stream') = W
    BY <1>10 DEF SwitchModel, Stream, W
  <2>2. /\ switched' = switched + 1 /\ commands' = commands + 1
        /\ UNCHANGED <<Awaiting, announced, pings>> /\ Awaiting \in {0, 1}
    BY <1>10 DEF SwitchModel, workerVars, Awaiting
  <2>3. QED
    BY <1>0, <2>1, <2>2
<1>11. CASE Unregister \/ UNCHANGED vars
  <2>1. Weight(Stream') = W
    BY <1>11 DEF Unregister, vars, Stream, W
  <2>2. /\ UNCHANGED <<Awaiting, announced, pings, switched, commands>>
        /\ Awaiting \in {0, 1}
    BY <1>11 DEF Unregister, vars, workerVars, masterVars, Awaiting
  <2>3. QED
    BY <1>0, <2>1, <2>2
<1>12. QED
  BY <1>1, <1>2, <1>3, <1>4, <1>5, <1>6, <1>7, <1>8, <1>9, <1>10, <1>11
     DEF Next, Reading, Handling

-----------------------------------------------------------------------------
(* The lists that can still be read. *)

UnreadOf(s, g) ==
  {i \in 1 .. Len(s) : s[i].kind = "LIST" /\ IsEnd(s, i) /\ (i = 1 => g # None)}

\* Unread, in terms of the stream alone.
LEMMA UnreadIs == Types => Unread = UnreadOf(Stream, got)
  BY StreamType, LenProperties DEF Unread, UnreadOf, IsEnd

\* Lists that can still be read, or of which a part was, are announced.
LEMMA UnreadAreListed ==
  ASSUME Types, StreamInv
  PROVE  /\ \A i \in Unread : ListAt(i) \in 1 .. announced
         /\ UnreadLists \subseteq 1 .. announced
         /\ LineIs("LIST") => got.list \in 1 .. announced
<1>1. \A i \in Unread : i \in 1 .. Len(Stream) /\ Stream[i].kind = "LIST"
  BY UnreadIs DEF UnreadOf
<1>2. \A i \in Unread : ListAt(i) \in 1 .. announced
  BY <1>1 DEF StreamInv, Listed, ListAt
<1>3. ASSUME LineIs("LIST") PROVE got.list \in 1 .. announced
  <2>1. Stream # <<>> /\ Stream[1].kind = "LIST" /\ Stream[1].list = got.list
    BY <1>3 DEF StreamInv, Continues, LineIs
  <2>2. 1 \in 1 .. Len(Stream)
    BY <2>1, StreamType, EmptySeq
  <2>3. QED
    BY <2>1, <2>2 DEF StreamInv, Listed
<1>4. QED
  BY <1>2, <1>3 DEF UnreadLists

\* Reading a piece leaves the lists behind it, each one place nearer.
LEMMA UnreadOfTail ==
  ASSUME NEW s \in Seq(Piece), s # <<>>, InLines(s), NEW g, NEW h,
         ~ IsEnd(s, 1) => h # None
  PROVE  /\ \A i \in UnreadOf(Tail(s), h) : i + 1 \in UnreadOf(s, g) /\ Tail(s)[i] = s[i + 1]
         /\ \A i \in UnreadOf(s, g) : i # 1 => i - 1 \in UnreadOf(Tail(s), h)
                                               /\ Tail(s)[i - 1] = s[i]
<1>1. /\ Len(s) \in Nat \ {0} /\ Len(Tail(s)) = Len(s) - 1
      /\ \A i \in 1 .. Len(s) - 1 : Tail(s)[i] = s[i + 1]
  BY TailStream
<1>2. ASSUME NEW i \in UnreadOf(Tail(s), h)
      PROVE  i + 1 \in UnreadOf(s, g) /\ Tail(s)[i] = s[i + 1]
  <2>1. i \in 1 .. Len(s) - 1 /\ Tail(s)[i].kind = "LIST" /\ IsEnd(Tail(s), i)
    BY <1>1 DEF UnreadOf
  <2>2. i + 1 \in 1 .. Len(s) /\ i + 1 # 1 /\ Tail(s)[i] = s[i + 1]
    BY <1>1, <2>1
  <2>3. QED
    BY <2>1, <2>2 DEF UnreadOf, IsEnd
<1>3. ASSUME NEW i \in UnreadOf(s, g), i # 1
      PROVE  i - 1 \in UnreadOf(Tail(s), h) /\ Tail(s)[i - 1] = s[i]
  <2>1. i \in 1 .. Len(s) /\ s[i].kind = "LIST" /\ IsEnd(s, i)
    BY DEF UnreadOf
  <2>2. i - 1 \in 1 .. Len(s) - 1 /\ i - 1 + 1 = i
    BY <1>1, <1>3, <2>1
  <2>3. Tail(s)[i - 1] = s[i]
    BY <1>1, <2>2
  <2>4. i - 1 = 1 => h # None
    <3>1. SUFFICES ASSUME i - 1 = 1 PROVE ~ IsEnd(s, 1)
      OBVIOUS
    <3>2. i = 1 + 1 /\ 1 \in 1 .. Len(s) - 1
      BY <2>1, <2>2, <3>1
    <3>3. QED
      BY <2>1, <3>2 DEF InLines
  <2>5. QED
    BY <1>1, <2>1, <2>2, <2>3, <2>4 DEF UnreadOf, IsEnd
<1>4. QED
  BY <1>2, <1>3

\* The line of a list adds that list behind the others, another line nothing.
LEMMA UnreadOfWritten ==
  ASSUME NEW s \in Seq(Piece), NEW k \in Kind, NEW n \in 0 .. MaxLists, NEW g
  PROVE  /\ k # "LIST" => UnreadOf(s \o Line(k, n), g) = UnreadOf(s, g)
         /\ k = "LIST" => UnreadOf(s \o Line(k, n), g) = UnreadOf(s, g) \cup {Len(s) + 2}
<1> DEFINE t == s \o Line(k, n)
<1>1. /\ Len(s) \in Nat /\ Len(t) = Len(s) + 2
      /\ \A i \in 1 .. Len(s) : t[i] = s[i]
      /\ t[Len(s) + 1] = [kind |-> k, list |-> n, part |-> "begin"]
      /\ t[Len(s) + 2] = [kind |-> k, list |-> n, part |-> "end"]
  BY LineAdded
<1> HIDE DEF t
<1>2. ASSUME NEW i
      PROVE  i \in UnreadOf(t, g)
             <=> i \in UnreadOf(s, g) \cup (IF k = "LIST" THEN {Len(s) + 2} ELSE {})
  <2>1. CASE i \in 1 .. Len(s)
    <3>1. i \in UnreadOf(t, g) <=> i \in UnreadOf(s, g)
      BY <1>1, <2>1 DEF UnreadOf, IsEnd
    <3>2. i # Len(s) + 2
      BY <1>1, <2>1
    <3>3. QED
      BY <3>1, <3>2
  <2>2. CASE i = Len(s) + 1
    <3>1. i \notin UnreadOf(s, g) /\ i # Len(s) + 2
      BY <1>1, <2>2 DEF UnreadOf
    <3>2. i \notin UnreadOf(t, g)
      BY <1>1, <2>2 DEF UnreadOf, IsEnd
    <3>3. QED
      BY <3>1, <3>2
  <2>3. CASE i = Len(s) + 2
    <3>1. i \in UnreadOf(t, g) <=> k = "LIST"
      BY <1>1, <2>3 DEF UnreadOf, IsEnd
    <3>2. i \notin UnreadOf(s, g)
      BY <1>1, <2>3 DEF UnreadOf
    <3>3. QED
      BY <2>3, <3>1, <3>2
  <2>4. CASE i \notin 1 .. Len(s) /\ i # Len(s) + 1 /\ i # Len(s) + 2
    BY <1>1, <2>4 DEF UnreadOf
  <2>5. QED
    BY <2>1, <2>2, <2>3, <2>4
<1>3. QED
  BY <1>2 DEF t

\* and leaves the others where they are.
LEMMA UnreadStays ==
  ASSUME NEW s \in Seq(Piece), NEW k \in Kind, NEW n \in 0 .. MaxLists,
         NEW g, NEW i \in UnreadOf(s, g)
  PROVE  (s \o Line(k, n))[i] = s[i] /\ i \in Nat /\ i < Len(s) + 2
<1>1. i \in 1 .. Len(s) /\ Len(s) \in Nat
  BY LenProperties DEF UnreadOf
<1>2. QED
  BY <1>1, LineAdded

\* The end of a line names its list.
LEMMA WrittenList ==
  ASSUME NEW s \in Seq(Piece), NEW k \in Kind, NEW n \in 0 .. MaxLists
  PROVE  (s \o Line(k, n))[Len(s) + 2].list = n
<1>1. (s \o Line(k, n))[Len(s) + 2] = [kind |-> k, list |-> n, part |-> "end"]
  BY LineAdded
<1>2. QED
  BY <1>1

\* A piece read takes at most the list it completes.
LEMMA ReadTakesList ==
  ASSUME Types, StreamInv, BeginRead \/ LineRead
  PROVE  /\ \A i \in Unread' : i + 1 \in Unread /\ ListAt(i)' = ListAt(i + 1)
         /\ \A i \in Unread : i \in Nat \ {0}
         /\ \A i \in Unread' : i \in Nat \ {0}
         /\ LineIs("LIST") => 1 \in Unread /\ ListAt(1) = got.list
         /\ UnreadLists = UnreadLists' \cup (IF LineIs("LIST") THEN {got.list} ELSE {})
<1> DEFINE s == Stream
<1>0. /\ s \in Seq(Piece) /\ s # <<>> /\ InLines(s) /\ s' = Tail(s)
      /\ Len(s) \in Nat \ {0} /\ Len(Tail(s)) \in Nat
      /\ ~ IsEnd(s, 1) => got' # None
  <2>1. s \in Seq(Piece) /\ s # <<>> /\ InLines(s) /\ s' = Tail(s)
    BY StreamType DEF BeginRead, LineRead, StreamInv
  <2>2. Len(s) \in Nat \ {0} /\ s[1] \in Piece /\ Tail(s) \in Seq(Piece)
    <3>1. 1 \in 1 .. Len(s)
      BY <2>1, EmptySeq
    <3>2. QED
      BY <2>1, <3>1, TailStream
  <2>3. ~ IsEnd(s, 1) => got' # None
    BY <2>2, PiecesHaveParts DEF BeginRead, LineRead
  <2>4. QED
    BY <2>1, <2>2, <2>3, LenProperties
<1>1. Unread = UnreadOf(s, got) /\ Unread' = UnreadOf(Tail(s), got')
  <2>1. Unread' = UnreadOf(s', got')
    BY <1>0, TailStream, LenProperties DEF Unread, UnreadOf, IsEnd
  <2>2. QED
    BY <1>0, <2>1, UnreadIs
<1>2. /\ \A i \in Unread' : i + 1 \in Unread /\ Tail(s)[i] = s[i + 1]
      /\ \A i \in Unread : i # 1 => i - 1 \in Unread' /\ Tail(s)[i - 1] = s[i]
  <2> HIDE DEF s
  <2>1. /\ \A i \in UnreadOf(Tail(s), got') :
             i + 1 \in UnreadOf(s, got) /\ Tail(s)[i] = s[i + 1]
        /\ \A i \in UnreadOf(s, got) :
             i # 1 => i - 1 \in UnreadOf(Tail(s), got') /\ Tail(s)[i - 1] = s[i]
    BY <1>0, UnreadOfTail
  <2>2. QED
    BY <1>1, <2>1, Zenon
<1>3. (\A i \in Unread : i \in Nat \ {0}) /\ (\A i \in Unread' : i \in Nat \ {0})
  BY <1>0, <1>1 DEF UnreadOf
<1>4. /\ LineIs("LIST") => 1 \in Unread /\ ListAt(1) = got.list
      /\ 1 \in Unread => LineIs("LIST")
  <2>1. 1 \in 1 .. Len(s)
    BY <1>0
  <2>2. QED
    BY <1>1, <2>1 DEF UnreadOf, LineIs, StreamInv, Continues, ListAt
<1>5. \A i \in Unread' : ListAt(i)' = ListAt(i + 1)
  BY <1>0, <1>2 DEF ListAt
<1>6. UnreadLists = UnreadLists' \cup (IF LineIs("LIST") THEN {got.list} ELSE {})
  <2>1. UnreadLists' = {ListAt(i)' : i \in Unread'}
    BY DEF UnreadLists
  <2>2. \A i \in Unread : i # 1 => i - 1 \in Unread' /\ ListAt(i - 1)' = ListAt(i)
    BY <1>0, <1>2 DEF ListAt
  <2>3. ASSUME NEW n \in UnreadLists
        PROVE  n \in UnreadLists' \cup (IF LineIs("LIST") THEN {got.list} ELSE {})
    <3>1. PICK i \in Unread : n = ListAt(i)
      BY DEF UnreadLists
    <3>2. CASE i = 1
      BY <1>4, <3>1, <3>2
    <3>3. CASE i # 1
      BY <2>1, <2>2, <3>1, <3>3
    <3>4. QED
      BY <3>2, <3>3
  <2>4. UnreadLists' \subseteq UnreadLists
    <3>1. ASSUME NEW i \in Unread' PROVE ListAt(i)' \in UnreadLists
      BY <1>2, <1>5 DEF UnreadLists
    <3>2. QED
      BY <2>1, <3>1
  <2>5. LineIs("LIST") => got.list \in UnreadLists
    BY <1>4 DEF UnreadLists
  <2>6. QED
    BY <2>3, <2>4, <2>5
<1>7. QED
  BY <1>2, <1>3, <1>4, <1>5, <1>6

\* Each step keeps the lists in order: a line read hands on the first of those
\* that can still be read, a cut or a break loses them, and an announcement is
\* written behind them.
LEMMA OrderStep == Types /\ StreamInv /\ ListsInOrder /\ [Next]_vars => ListsInOrder'
<1> SUFFICES ASSUME Types, StreamInv, ListsInOrder, [Next]_vars PROVE ListsInOrder'
  OBVIOUS
<1>0. /\ announced \in Nat /\ lost \subseteq 1 .. announced
      /\ handed \in Seq(1 .. MaxLists) /\ Len(handed) \in Nat /\ DOMAIN handed = 1 .. Len(handed)
      /\ \A i \in Unread : ListAt(i) \in 1 .. announced
      /\ UnreadLists \subseteq 1 .. announced
      /\ LineIs("LIST") => got.list \in 1 .. announced
  BY UnreadAreListed, BoundsAssumption, LenProperties DEF Types
<1>1. /\ \A i, j \in DOMAIN handed : i < j => handed[i] < handed[j]
      /\ \A n \in ToSet(handed), m \in UnreadLists : n < m
      /\ \A i, j \in Unread : i < j => ListAt(i) < ListAt(j)
      /\ ToSet(handed) \cup UnreadLists = (1 .. announced) \ lost
  BY DEF ListsInOrder
<1>2. CASE Kept
  <2>1. Unread' = Unread /\ UnreadLists' = UnreadLists /\ \A i \in Unread : ListAt(i)' = ListAt(i)
    BY <1>2 DEF Kept, Unread, UnreadLists, ListAt
  <2>2. handed' = handed /\ announced' = announced /\ lost' = lost
    BY <1>2 DEF Kept, UnchangedLists
  <2>3. QED
    BY <1>1, <2>1, <2>2 DEF ListsInOrder
<1>3. CASE BeginRead
  <2>1. ~ LineIs("LIST")
    BY <1>3 DEF BeginRead, StreamInv, Continues, LineIs
  <2>2. handed' = handed /\ announced' = announced /\ lost' = lost
    BY <1>3 DEF BeginRead, UnchangedLists
  <2>3. UnreadLists' = UnreadLists
    BY <1>3, <2>1, ReadTakesList
  <2>4. ASSUME NEW i \in Unread', NEW j \in Unread', i < j PROVE ListAt(i)' < ListAt(j)'
    BY <1>1, <1>3, <2>4, ReadTakesList
  <2>5. QED
    BY <1>1, <2>2, <2>3, <2>4 DEF ListsInOrder
<1>4. CASE LineRead
  <2>1. announced' = announced /\ lost' = lost /\ HandOn
    BY <1>4 DEF LineRead
  <2>2. ASSUME NEW i \in Unread', NEW j \in Unread', i < j PROVE ListAt(i)' < ListAt(j)'
    BY <1>1, <1>4, <2>2, ReadTakesList
  <2>3. CASE ~ LineIs("LIST")
    <3>1. UnreadLists' = UnreadLists /\ handed' = handed
      BY <1>4, <2>1, <2>3, ReadTakesList DEF HandOn
    <3>2. QED
      BY <1>1, <2>1, <2>2, <3>1 DEF ListsInOrder
  <2>4. CASE LineIs("LIST")
    <3> DEFINE n == got.list
    <3>1. handed' = Append(handed, n) /\ n \in 1 .. announced /\ n \in 1 .. MaxLists
      BY <1>0, <2>1, <2>4, BoundsAssumption DEF HandOn, Types
    <3>2. UnreadLists = UnreadLists' \cup {n} /\ 1 \in Unread /\ ListAt(1) = n
      BY <1>4, <2>4, ReadTakesList
    <3> HIDE DEF n
    <3>3. /\ DOMAIN handed' = 1 .. Len(handed) + 1
          /\ \A i \in 1 .. Len(handed) : handed'[i] = handed[i]
          /\ handed'[Len(handed) + 1] = n
      BY <1>0, <3>1, AppendProperties, LenProperties
    <3>4. ToSet(handed') = ToSet(handed) \cup {n}
      <4>1. ToSet(handed) = {handed[i] : i \in 1 .. Len(handed)}
        BY <1>0 DEF ToSet
      <4>2. ToSet(handed') = {handed'[i] : i \in 1 .. Len(handed) + 1}
        BY <3>3 DEF ToSet
      <4>3. ASSUME NEW x PROVE x \in ToSet(handed') <=> x \in ToSet(handed) \cup {n}
        BY <1>0, <3>3, <4>1, <4>2
      <4>4. QED
        BY <4>3
    <3>5. \A i \in 1 .. Len(handed) : handed[i] < n
      <4>1. n \in UnreadLists
        BY <3>2
      <4>2. \A i \in 1 .. Len(handed) : handed[i] \in ToSet(handed)
        BY <1>0 DEF ToSet
      <4>3. QED
        BY <1>1, <4>1, <4>2
    <3>6. \A i, j \in DOMAIN handed' : i < j => handed'[i] < handed'[j]
      <4> SUFFICES ASSUME NEW i \in 1 .. Len(handed) + 1, NEW j \in 1 .. Len(handed) + 1, i < j
                   PROVE  handed'[i] < handed'[j]
        BY <3>3
      <4>1. i \in 1 .. Len(handed)
        BY <1>0
      <4>2. CASE j \in 1 .. Len(handed)
        BY <1>0, <1>1, <3>3, <4>1, <4>2
      <4>3. CASE j = Len(handed) + 1
        BY <3>3, <3>5, <4>1, <4>3
      <4>4. QED
        BY <1>0, <4>2, <4>3
    <3>7. ASSUME NEW m \in UnreadLists' PROVE n < m
      <4>1. PICK i \in Unread' : m = ListAt(i)'
        BY DEF UnreadLists
      <4>2. i + 1 \in Unread /\ m = ListAt(i + 1) /\ i \in Nat \ {0}
        BY <1>4, <4>1, ReadTakesList
      <4>3. QED
        BY <1>1, <3>2, <4>2
    <3>8. \A m \in UnreadLists' : m \in UnreadLists
      BY <3>2
    <3>9. \A k \in ToSet(handed'), m \in UnreadLists' : k < m
      BY <1>1, <3>4, <3>7, <3>8
    <3>10. ToSet(handed') \cup UnreadLists' = (1 .. announced) \ lost
      BY <1>1, <3>2, <3>4
    <3>11. QED
      BY <2>1, <2>2, <3>6, <3>9, <3>10 DEF ListsInOrder
  <2>5. QED
    BY <2>3, <2>4
<1>5. CASE LineCut
  <2>1. /\ Stream' = Stream /\ got' = None /\ handed' = handed /\ announced' = announced
        /\ lost' = IF LineIs("LIST") THEN lost \cup {got.list} ELSE lost
    BY <1>5 DEF LineCut
  <2>2. /\ Unread = UnreadOf(Stream, got) /\ Unread' = UnreadOf(Stream, None)
        /\ \A i : ListAt(i)' = ListAt(i)
    BY <2>1, StreamType, LenProperties, UnreadIs DEF Unread, UnreadOf, IsEnd, ListAt
  <2>3. Unread' = IF LineIs("LIST") THEN Unread \ {1} ELSE Unread
    <3>1. Unread' = Unread \ {1}
      BY <2>2, StreamType, LenProperties DEF UnreadOf
    <3>2. 1 \in Unread => LineIs("LIST")
      BY <2>2 DEF UnreadOf, LineIs, StreamInv, Continues
    <3>3. QED
      BY <3>1, <3>2
  <2>4. UnreadLists' = {ListAt(i) : i \in Unread'}
    BY <2>2 DEF UnreadLists
  <2>5. CASE ~ LineIs("LIST")
    <3>1. UnreadLists' = UnreadLists /\ lost' = lost
      BY <2>1, <2>3, <2>4, <2>5 DEF UnreadLists
    <3>2. QED
      BY <1>1, <2>1, <2>2, <2>3, <2>5, <3>1 DEF ListsInOrder
  <2>6. CASE LineIs("LIST")
    <3>1. 1 \in Unread /\ ListAt(1) = got.list
      <4>1. Stream # <<>> /\ IsEnd(Stream, 1) /\ got # None
            /\ Stream[1].kind = "LIST" /\ Stream[1].list = got.list
        BY <2>6 DEF StreamInv, Continues, LineIs
      <4>2. 1 \in 1 .. Len(Stream)
        BY <4>1, StreamType, EmptySeq
      <4>3. QED
        BY <2>2, <4>1, <4>2 DEF UnreadOf, ListAt
    <3>2. \A i \in Unread : i \in Nat \ {0}
      BY <2>2, StreamType DEF UnreadOf
    <3>3. \A i \in Unread : i # 1 => ListAt(1) < ListAt(i)
      BY <1>1, <3>1, <3>2
    <3>4. UnreadLists' = UnreadLists \ {got.list}
      <4>1. \A i \in Unread : ListAt(i) \in Nat
        BY <1>0
      <4>2. ASSUME NEW n \in UnreadLists' PROVE n \in UnreadLists \ {got.list}
        <5>1. PICK i \in Unread' : n = ListAt(i)
          BY <2>4
        <5>2. i \in Unread /\ i # 1
          BY <2>3, <2>6, <5>1
        <5>3. n # got.list
          BY <3>1, <3>3, <4>1, <5>1, <5>2
        <5>4. QED
          BY <5>1, <5>2, <5>3 DEF UnreadLists
      <4>3. ASSUME NEW n \in UnreadLists, n # got.list PROVE n \in UnreadLists'
        BY <2>3, <2>4, <2>6, <3>1, <4>3 DEF UnreadLists
      <4>4. QED
        BY <4>2, <4>3
    <3>5. got.list \in UnreadLists
      BY <3>1 DEF UnreadLists
    <3>6. got.list \notin ToSet(handed)
      BY <1>0, <1>1, <2>6, <3>5
    <3>7. ToSet(handed) \cup UnreadLists' = (1 .. announced) \ lost'
      BY <1>1, <2>1, <2>6, <3>4, <3>5, <3>6
    <3>8. \A i, j \in Unread' : i < j => ListAt(i)' < ListAt(j)'
      BY <1>1, <2>2, <2>3, <2>6
    <3>9. \A n \in ToSet(handed), m \in UnreadLists' : n < m
      BY <1>1, <3>4
    <3>10. QED
      BY <1>1, <2>1, <3>7, <3>8, <3>9 DEF ListsInOrder
  <2>7. QED
    BY <2>5, <2>6
<1>6. CASE Dropped
  <2>1. /\ Stream' = <<>> /\ handed' = handed /\ announced' = announced
        /\ lost' = lost \cup UnreadLists
    BY <1>6 DEF Dropped
  <2>2. Unread' = {}
    BY <2>1 DEF Unread
  <2>3. UnreadLists' = {}
    BY <2>2 DEF UnreadLists
  <2>4. \A n \in ToSet(handed) : n \notin UnreadLists
    BY <1>0, <1>1
  <2>5. ToSet(handed) \cup {} = (1 .. announced) \ lost'
    BY <1>1, <2>1, <2>4
  <2>6. QED
    BY <1>1, <2>1, <2>2, <2>3, <2>5 DEF ListsInOrder
<1>7. CASE Said
  <2>1. PICK k \in Kind \ {"LIST"} : Stream' = Stream \o Line(k, 0)
    BY <1>7 DEF Said
  <2>2. got' = got /\ handed' = handed /\ announced' = announced /\ lost' = lost
    BY <1>7 DEF Said, UnchangedLists
  <2>3. k \in Kind /\ k # "LIST" /\ 0 \in 0 .. MaxLists /\ Stream \in Seq(Piece)
    BY BoundsAssumption, StreamType
  <2>4. Unread' = UnreadOf(Stream', got)
    BY <2>1, <2>2, <2>3, LineAdded, LenProperties DEF Unread, UnreadOf, IsEnd
  <2>5. Unread' = Unread /\ \A i \in Unread : ListAt(i)' = ListAt(i)
    <3>1. Unread = UnreadOf(Stream, got)
      BY UnreadIs
    <3>2. UnreadOf(Stream \o Line(k, 0), got) = UnreadOf(Stream, got)
      BY <2>3, UnreadOfWritten
    <3>3. ASSUME NEW i \in Unread PROVE Stream'[i] = Stream[i]
      BY <2>1, <2>3, <3>1, UnreadStays
    <3>4. QED
      BY <2>1, <2>4, <3>1, <3>2, <3>3 DEF ListAt
  <2>6. UnreadLists' = UnreadLists
    BY <2>5 DEF UnreadLists
  <2>7. QED
    BY <1>1, <2>2, <2>5, <2>6 DEF ListsInOrder
<1>8. CASE ListSent
  <2> DEFINE s == Stream \o Line("PONG", 0)
             n == announced'
             e == Len(s) + 2
  <2>1. /\ n = announced + 1 /\ n \in 1 .. MaxLists
        /\ Stream' = s \o Line("LIST", n)
        /\ got' = got /\ handed' = handed /\ lost' = lost
    BY <1>8 DEF ListSent
  <2>2. /\ "PONG" \in Kind /\ "LIST" \in Kind /\ 0 \in 0 .. MaxLists /\ n \in 0 .. MaxLists
        /\ Stream \in Seq(Piece)
    BY <2>1, BoundsAssumption, StreamType DEF Kind
  <2>3. s \in Seq(Piece) /\ Stream' \in Seq(Piece)
    <3>1. s \in Seq(Piece)
      BY <2>2, LineAdded
    <3> HIDE DEF s
    <3>2. QED
      BY <2>1, <2>2, <3>1, LineAdded
  <2>4. Unread' = UnreadOf(Stream', got)
    BY <2>1, <2>3, LenProperties DEF Unread, UnreadOf, IsEnd
  <2>5. UnreadOf(s, got) = Unread /\ \A i \in Unread : s[i] = Stream[i]
    <3>1. Unread = UnreadOf(Stream, got) /\ "PONG" # "LIST"
      BY UnreadIs
    <3>2. UnreadOf(s, got) = UnreadOf(Stream, got)
      BY <2>2, <3>1, UnreadOfWritten
    <3>3. ASSUME NEW i \in Unread PROVE s[i] = Stream[i]
      BY <2>2, <3>1, UnreadStays
    <3>4. QED
      BY <3>1, <3>2, <3>3
  <2> HIDE DEF s, n
  <2>6. UnreadOf(s \o Line("LIST", n), got) = UnreadOf(s, got) \cup {e}
    BY <2>2, <2>3, UnreadOfWritten
  <2>7. /\ Unread' = Unread \cup {e}
        /\ \A i \in Unread : ListAt(i)' = ListAt(i) /\ i \in Nat /\ i < e
        /\ Stream'[e].list = n
    <3>1. Unread' = Unread \cup {e}
      BY <2>1, <2>4, <2>5, <2>6
    <3>2. ASSUME NEW i \in Unread
          PROVE  Stream'[i] = Stream[i] /\ i \in Nat /\ i < e
      <4>1. i \in UnreadOf(s, got) /\ s[i] = Stream[i]
        BY <2>5
      <4>2. (s \o Line("LIST", n))[i] = s[i] /\ i \in Nat /\ i < e
        BY <2>2, <2>3, <4>1, UnreadStays
      <4>3. QED
        BY <2>1, <4>1, <4>2
    <3>3. Stream'[e].list = n
      <4>1. (s \o Line("LIST", n))[e].list = n
        BY <2>2, <2>3, WrittenList
      <4>2. QED
        BY <2>1, <4>1, Zenon
    <3>4. QED
      BY <3>1, <3>2, <3>3 DEF ListAt
  <2>8. UnreadLists' = UnreadLists \cup {n}
    <3>1. UnreadLists' = {Stream'[i].list : i \in Unread'}
      BY DEF UnreadLists, ListAt
    <3>2. \A i \in Unread : Stream'[i].list = ListAt(i)
      BY <2>7 DEF ListAt
    <3> HIDE DEF e
    <3>3. UnreadLists' = {ListAt(i) : i \in Unread} \cup {n}
      BY <2>7, <3>1, <3>2
    <3>4. QED
      BY <3>3 DEF UnreadLists
  <2>9. \A m \in 1 .. announced : m < n
    BY <1>0, <2>1
  <2>10. \A i, j \in Unread' : i < j => ListAt(i)' < ListAt(j)'
    <3>0. e \in Nat
      BY <2>3, LenProperties
    <3> HIDE DEF e
    <3> SUFFICES ASSUME NEW i \in Unread', NEW j \in Unread', i < j
                 PROVE  ListAt(i)' < ListAt(j)'
      OBVIOUS
    <3>1. i \in Unread
      BY <2>7, <3>0
    <3>2. CASE j \in Unread
      BY <1>1, <2>7, <3>1, <3>2
    <3>3. CASE j = e
      <4>1. ListAt(i)' = ListAt(i) /\ ListAt(i) \in 1 .. announced
        BY <1>0, <2>7, <3>1
      <4>2. ListAt(j)' = n
        BY <2>7, <3>3 DEF ListAt
      <4>3. QED
        BY <2>9, <4>1, <4>2
    <3>4. QED
      BY <2>7, <3>2, <3>3
  <2>11. ToSet(handed) \subseteq 1 .. announced
    BY <1>1
  <2>12. \A k \in ToSet(handed), m \in UnreadLists' : k < m
    BY <1>1, <2>8, <2>9, <2>11
  <2>13. n \notin lost /\ 1 .. n = (1 .. announced) \cup {n}
    BY <1>0, <2>1
  <2>14. ToSet(handed) \cup UnreadLists' = (1 .. n) \ lost
    BY <1>1, <2>8, <2>13
  <2>15. QED
    BY <1>1, <2>1, <2>10, <2>12, <2>14 DEF ListsInOrder, n
<1>9. QED
  BY <1>2, <1>3, <1>4, <1>5, <1>6, <1>7, <1>8, Flow

-----------------------------------------------------------------------------
(* The types, and that somebody speaks. *)

\* Each step keeps the types.
LEMMA TypesStep == Types /\ StreamInv /\ [Next]_vars => Types'
<1> SUFFICES ASSUME Types, StreamInv, [Next]_vars PROVE Types'
  OBVIOUS
<1>0. /\ announced \in Nat /\ lost \subseteq 1 .. announced
      /\ handed \in Seq(1 .. MaxLists) /\ announced \in 0 .. MaxLists
      /\ UnreadLists \subseteq 1 .. announced
      /\ LineIs("LIST") => got.list \in 1 .. announced
  BY UnreadAreListed, BoundsAssumption DEF Types
<1>1. StreamsTyped
  BY Flow
<1>2. /\ announced' \in 0 .. MaxLists /\ lost' \subseteq 1 .. announced'
      /\ handed' \in Seq(1 .. MaxLists) /\ got' \in Piece \cup {None}
  <2>1. CASE Kept \/ Said
    BY <1>0, <2>1 DEF Kept, Said, UnchangedLists, Types
  <2>2. CASE BeginRead
    <3>1. 1 \in 1 .. Len(Stream) /\ Stream \in Seq(Piece)
      BY <2>2, StreamType, EmptySeq DEF BeginRead
    <3>2. Stream[1] \in Piece
      BY <3>1, ElementOfSeq
    <3>3. QED
      BY <1>0, <2>2, <3>2 DEF BeginRead, UnchangedLists
  <2>3. CASE LineRead
    <3>1. LineIs("LIST") => got.list \in 1 .. MaxLists
      BY <1>0, BoundsAssumption
    <3>2. handed' \in Seq(1 .. MaxLists)
      BY <1>0, <2>3, <3>1, AppendProperties DEF LineRead, HandOn
    <3>3. QED
      BY <1>0, <2>3, <3>2 DEF LineRead
  <2>4. CASE LineCut \/ Dropped
    BY <1>0, <2>4 DEF LineCut, Dropped
  <2>5. CASE ListSent
    <3>1. /\ announced' = announced + 1 /\ announced' \in 1 .. MaxLists
          /\ got' = got /\ handed' = handed /\ lost' = lost
      BY <2>5 DEF ListSent
    <3>2. \A n \in 1 .. announced : n \in 1 .. announced'
      BY <1>0, <3>1
    <3>3. QED
      BY <1>0, <3>1, <3>2, BoundsAssumption DEF Types
  <2>6. QED
    BY <2>1, <2>2, <2>3, <2>4, <2>5, Flow
<1>3. /\ worker' \in {"beating", "first", "extra"} /\ handler' \in {"select", "switching"}
      /\ pings' \in Nat /\ commands' \in Nat /\ switched' \in 0 .. MaxSwitch
      /\ known' \in BOOLEAN /\ taken' \in BOOLEAN
  <2>0. /\ worker \in {"beating", "first", "extra"} /\ handler \in {"select", "switching"}
        /\ pings \in Nat /\ commands \in Nat /\ switched \in 0 .. MaxSwitch
        /\ known \in BOOLEAN /\ taken \in BOOLEAN
    BY DEF Types
  <2>1. CASE SendPing \/ Reading \/ Arrive \/ Reconnect
    <3>1. CASE SendPing
      BY <2>0, <3>1 DEF SendPing, masterVars
    <3>2. CASE ReadBegin
      BY <2>0, <3>2 DEF ReadBegin, masterVars
    <3>3. CASE ReadFirst \/ ReadExtra
      BY <2>0, <3>3 DEF ReadFirst, ReadExtra, ReadEnd, masterVars
    <3>4. CASE TimeOut
      BY <2>0, <3>4 DEF TimeOut, masterVars
    <3>5. CASE Arrive
      BY <2>0, <3>5 DEF Arrive, workerVars, masterVars
    <3>6. CASE Reconnect
      BY <2>0, <3>6 DEF Reconnect
    <3>7. QED
      BY <2>1, <3>1, <3>2, <3>3, <3>4, <3>5, <3>6 DEF Reading
  <2>2. CASE Handling \/ SwitchModel \/ Unregister \/ UNCHANGED vars
    <3>1. CASE AnswerPing
      BY <2>0, <3>1 DEF AnswerPing, workerVars
    <3>2. CASE TakeCommand
      BY <2>0, <3>2 DEF TakeCommand, workerVars
    <3>3. CASE TakeResponse
      BY <2>0, <3>3 DEF TakeResponse, workerVars
    <3>4. CASE SwitchModel
      BY <2>0, <3>4, BoundsAssumption DEF SwitchModel, workerVars
    <3>5. CASE Unregister \/ UNCHANGED vars
      BY <2>0, <3>5 DEF Unregister, vars, workerVars, masterVars
    <3>6. QED
      BY <2>2, <3>1, <3>2, <3>3, <3>4, <3>5 DEF Handling
  <2>3. QED
    BY <2>1, <2>2 DEF Next
<1>4. QED
  BY <1>1, <1>2, <1>3 DEF Types, StreamsTyped

\* Each step leaves something under way while the worker waits.
LEMMA AwaitedStep == Types /\ StreamInv /\ Awaited /\ [Next]_vars => Awaited'
<1> SUFFICES ASSUME Types, StreamInv, Awaited, [Next]_vars, worker' = "first", ~ taken'
             PROVE  pings' > 0 \/ Stream' # <<>>
  BY DEF Awaited
<1>0. Stream \in Seq(Piece) /\ InLines(Stream) /\ pings \in Nat
  BY StreamType DEF StreamInv, Types
<1>1. CASE SendPing
  BY <1>0, <1>1 DEF SendPing
<1>2. CASE ReadBegin
  BY <1>0, <1>2, ReadBeginTakes, BeginTaken DEF BeginRead
<1>3. CASE ReadFirst \/ ReadExtra \/ TimeOut \/ Reconnect \/ TakeResponse
  BY <1>3 DEF ReadFirst, ReadExtra, TimeOut, Reconnect, TakeResponse
<1>4. CASE AnswerPing \/ TakeCommand
  <2>1. CASE Said
    <3>1. PICK k \in Kind : Stream' = Stream \o Line(k, 0)
      BY <2>1 DEF Said
    <3>2. 0 \in 0 .. MaxLists
      BY BoundsAssumption
    <3>3. Stream \o Line(k, 0) # <<>>
      BY <1>0, <3>2, LineAdded
    <3>4. QED
      BY <3>1, <3>3
  <2>2. CASE ListSent
    <3>1. "PONG" \in Kind /\ "LIST" \in Kind /\ 0 \in 0 .. MaxLists
      BY BoundsAssumption DEF Kind
    <3>2. Stream \o Line("PONG", 0) \in Seq(Piece)
      BY <1>0, <3>1, LineAdded
    <3>3. QED
      <4>1. /\ announced' \in 0 .. MaxLists
            /\ Stream' = (Stream \o Line("PONG", 0)) \o Line("LIST", announced')
        BY <2>2, BoundsAssumption DEF ListSent
      <4>2. (Stream \o Line("PONG", 0)) \o Line("LIST", announced') # <<>>
        BY <3>1, <3>2, <4>1, LineAdded
      <4>3. QED
        BY <4>1, <4>2
  <2>3. QED
    BY <1>4, <2>1, <2>2, AnswerPingSays, TakeCommandSays
<1>5. CASE Arrive \/ SwitchModel \/ Unregister \/ UNCHANGED vars
  <2>1. worker' = worker /\ taken' = taken /\ pings' = pings
    BY <1>5 DEF Arrive, SwitchModel, Unregister, vars, workerVars
  <2>2. Stream' = Stream
    BY <1>5, ArriveKeeps, KeepingSteps DEF Kept
  <2>3. QED
    BY <2>1, <2>2 DEF Awaited
<1>6. QED
  BY <1>1, <1>2, <1>3, <1>4, <1>5 DEF Next, Reading, Handling

-----------------------------------------------------------------------------
(* The inductive invariant and what follows from it. *)

IInv == Types /\ StreamInv /\ Counted /\ ListsInOrder /\ Awaited

\* The invariant holds: each part is kept by all steps, given the first two.
THEOREM Invariance == Spec => []IInv
<1>1. Init => IInv
  <2> SUFFICES ASSUME Init PROVE IInv
    OBVIOUS
  <2>1. Stream = <<>> /\ Len(Stream) = 0
    <3>1. wire = <<>> /\ buffer = <<>> /\ <<>> \in Seq(Piece)
      BY EmptySeq DEF Init
    <3>2. buffer \o wire = <<>>
      BY <3>1, ConcatEmptySeq
    <3>3. QED
      BY <3>2, EmptySeq DEF Stream
  <2>2. Types
    <3>1. <<>> \in Seq(Piece) /\ <<>> \in Seq(1 .. MaxLists)
      BY EmptySeq
    <3>2. 0 \in 0 .. MaxLists /\ 0 \in 0 .. MaxSwitch
      BY BoundsAssumption
    <3>3. QED
      BY <3>1, <3>2 DEF Init, Types
  <2>3. StreamInv
    BY <2>1 DEF StreamInv, InLines, Continues, Listed, Init
  <2>4. Counted
    BY <2>1 DEF Counted, Weight, Awaiting, Init
  <2>5. ListsInOrder
    <3>1. Unread = {} /\ UnreadLists = {}
      BY <2>1 DEF Unread, UnreadLists
    <3>2. ToSet(handed) = {} /\ DOMAIN handed = {}
      BY DEF Init, ToSet
    <3>3. (1 .. announced) \ lost = {}
      BY DEF Init
    <3>4. QED
      BY <3>1, <3>2, <3>3 DEF ListsInOrder
  <2>6. Awaited
    BY DEF Awaited, Init
  <2>7. QED
    BY <2>2, <2>3, <2>4, <2>5, <2>6 DEF IInv
<1>2. IInv /\ [Next]_vars => IInv'
  BY TypesStep, StreamStep, CountedStep, OrderStep, AwaitedStep DEF IInv
<1>3. QED
  BY <1>1, <1>2, PTL DEF Spec

\* The variables keep their kinds, and what is under way stays bounded by what
\* was announced and commanded, although the worker may fall behind.
THEOREM TypeCorrect == Spec => []TypeOK
<1>1. IInv => TypeOK
  <2> SUFFICES ASSUME IInv PROVE TypeOK
    OBVIOUS
  <2>1. Types /\ Counted /\ Stream \in Seq(Piece)
    BY StreamType DEF IInv
  <2>2. /\ pings \in Nat /\ Len(Stream) \in Nat
        /\ Weight(Stream) = Len(Stream) \/ Weight(Stream) = Len(Stream) + 1
        /\ commands \in Nat /\ switched \in 0 .. MaxSwitch /\ announced \in 0 .. MaxLists
        /\ Awaiting \in {0, 1} /\ MaxLists \in Nat /\ MaxSwitch \in Nat
    BY <2>1, BoundsAssumption, LenProperties DEF Types, Weight, Awaiting
  <2>3. /\ commands <= switched
        /\ 2 * pings + Weight(Stream) <= 2 * (announced + switched - commands + Awaiting)
    BY <2>1 DEF Counted
  <2>4. /\ commands \in 0 .. MaxSwitch
        /\ pings \in 0 .. MaxLists + MaxSwitch + 1
        /\ Len(Stream) <= 2 * (MaxLists + MaxSwitch + 1)
    BY <2>2, <2>3
  <2>5. Len(wire \o buffer) = Len(Stream)
    <3>1. wire \in Seq(Piece) /\ buffer \in Seq(Piece)
      BY <2>1 DEF Types
    <3>2. Len(wire) \in Nat /\ Len(buffer) \in Nat
      BY <3>1, LenProperties
    <3>3. QED
      BY <3>1, <3>2, ConcatProperties DEF Stream
  <2>6. lost \subseteq 1 .. MaxLists
    BY <2>1, <2>2 DEF Types
  <2>7. QED
    BY <2>1, <2>4, <2>5, <2>6 DEF TypeOK, Types
<1>2. QED
  BY <1>1, Invariance, PTL

\* The lists reach the application in the order of their announcement and none
\* twice; those that do not are on their way, were cut, or went with a connection.
THEOREM ListsStayInOrder == Spec => []ListsInOrder
<1>1. IInv => ListsInOrder
  BY DEF IInv
<1>2. QED
  BY <1>1, Invariance, PTL

\* Whatever lines are cut short, late or read for another PING, worker and
\* handler do not both wait, unless a PING went for the answer to SWITCH_MODEL.
THEOREM NobodyStandsOff == Spec => []NoStandoff
<1>1. IInv => NoStandoff
  BY ConcatEmptySeq, EmptySeq DEF IInv, Awaited, NoStandoff, BothWait, Stream
<1>2. QED
  BY <1>1, Invariance, PTL

-----------------------------------------------------------------------------
(* The connection as a queue of lists. *)

\* What the queue still owes is what the worker can still read.
LEMMA DueIsUnread == Types /\ StreamInv /\ ListsInOrder => Channel!Due = UnreadLists
<1> SUFFICES ASSUME Types, StreamInv, ListsInOrder PROVE Channel!Due = UnreadLists
  OBVIOUS
<1>1. UnreadLists \subseteq 1 .. announced
  BY UnreadAreListed
<1>2. /\ \A n \in ToSet(handed), m \in UnreadLists : n < m
      /\ ToSet(handed) \cup UnreadLists = (1 .. announced) \ lost
  BY DEF ListsInOrder
<1>3. \A m \in UnreadLists : m \notin ToSet(handed)
  BY <1>1, <1>2
<1>4. Channel!Due = (1 .. announced) \ (ToSet(handed) \cup lost)
  BY DEF Channel!Due, Channel!ToSet, ToSet
<1>5. QED
  BY <1>2, <1>3, <1>4

\* The list whose beginning has been read is the next in turn.
LEMMA GotIsNext ==
  ASSUME Types, StreamInv, ListsInOrder, LineIs("LIST")
  PROVE  got.list \in Channel!Due /\ Channel!IsNext(got.list)
<1>1. /\ Stream # <<>> /\ IsEnd(Stream, 1) /\ got # None
      /\ Stream[1].kind = "LIST" /\ Stream[1].list = got.list
  BY DEF StreamInv, Continues, LineIs
<1>2. 1 \in 1 .. Len(Stream)
  BY <1>1, StreamType, EmptySeq
<1>3. 1 \in Unread /\ ListAt(1) = got.list /\ \A i \in Unread : i \in Nat \ {0}
  BY <1>1, <1>2, StreamType, UnreadIs DEF UnreadOf, ListAt
<1>4. \A i \in Unread : ListAt(i) \in Nat
  BY UnreadAreListed
<1>5. ASSUME NEW m \in UnreadLists PROVE got.list <= m
  <2>1. PICK i \in Unread : m = ListAt(i)
    BY DEF UnreadLists
  <2>2. CASE i = 1
    BY <1>3, <1>4, <2>1, <2>2
  <2>3. CASE i # 1
    <3>1. ListAt(1) < ListAt(i)
      BY <1>3, <2>3 DEF ListsInOrder
    <3>2. QED
      BY <1>3, <1>4, <2>1, <3>1
  <2>4. QED
    BY <2>2, <2>3
<1>6. got.list \in UnreadLists
  BY <1>3 DEF UnreadLists
<1>7. QED
  BY <1>5, <1>6, DueIsUnread DEF Channel!IsNext

\* Each step is one of the queue, or none of its business.
LEMMA ChannelStep ==
  ASSUME Types, StreamInv, ListsInOrder, [Next]_vars
  PROVE  [Channel!Next]_(Channel!vars)
<1> USE DEF Channel!Next, Channel!vars
<1>1. CASE Kept \/ BeginRead \/ Said
  BY <1>1 DEF Kept, BeginRead, Said, UnchangedLists
<1>2. CASE LineRead
  <2>1. UNCHANGED <<announced, lost>>
        /\ handed' = IF LineIs("LIST") THEN Append(handed, got.list) ELSE handed
    BY <1>2 DEF LineRead, HandOn
  <2>2. LineIs("LIST") => Channel!HandOnNext
    BY <2>1, GotIsNext DEF Channel!HandOnNext
  <2>3. QED
    BY <2>1, <2>2
<1>3. CASE LineCut
  <2>1. LineIs("LIST") => Channel!LoseNext
    BY <1>3, GotIsNext DEF LineCut, Channel!LoseNext
  <2>2. QED
    BY <1>3, <2>1 DEF LineCut
<1>4. CASE Dropped
  BY <1>4, DueIsUnread DEF Dropped, Channel!LoseAll
<1>5. CASE ListSent
  <2>1. announced' = announced + 1 /\ announced' \in 1 .. MaxLists /\ UNCHANGED <<handed, lost>>
    BY <1>5 DEF ListSent
  <2>2. announced < MaxLists
    BY <2>1, BoundsAssumption DEF Types
  <2>3. QED
    BY <2>1, <2>2 DEF Channel!Announce
<1>6. QED
  BY <1>1, <1>2, <1>3, <1>4, <1>5, Flow

\* Every behaviour of the connection is one of the queue of lists: handing on
\* takes the next in turn, and so does a cut.
THEOREM ImplementsListChannel == Spec => IsListChannel
<1>1. Init => Channel!Init
  BY DEF Init, Channel!Init
<1>2. IInv /\ [Next]_vars => [Channel!Next]_(Channel!vars)
  BY ChannelStep DEF IInv
<1>3. QED
  BY <1>1, <1>2, Invariance, PTL DEF Spec, IsListChannel, Channel!Spec
=============================================================================
