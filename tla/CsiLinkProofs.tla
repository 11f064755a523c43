---------------------------- MODULE CsiLinkProofs ----------------------------
(***************************************************************************)
(* The framing of the front-panel link, for every set of keys, commands    *)
(* and answered codes and every queue limit and pace: frames leave whole,  *)
(* and the guest's de-framer agrees with the link about where they end.    *)
(***************************************************************************)
EXTENDS CsiLink, SequenceTheorems, WellFoundedInduction, TLAPS

-----------------------------------------------------------------------------
(* What a receiver makes of bytes, without recursion.                       *)

AfterByte(r, b) == IF IsEnd(r, b) THEN Fresh ELSE Collect(r, b)

(* The byte completes a message: an end with nothing before it is idle.     *)
Completes(r, b) == IsEnd(r, b) /\ r.frame # <<>>

(* A receiver in state r that reads w is in state z afterwards and has made *)
(* the messages o: st are the states on the way, made counts the messages.  *)
Makes(r, w, z, o) ==
    \E st \in [0..Len(w) -> Receiver], made \in [0..Len(w) -> 0..Len(o)] :
        /\ st[0] = r /\ st[Len(w)] = z
        /\ made[0] = 0 /\ made[Len(w)] = Len(o)
        /\ \A i \in 1..Len(w) : st[i] = AfterByte(st[i - 1], w[i])
        /\ \A i \in 1..Len(w) :
              IF Completes(st[i - 1], w[i])
              THEN made[i] = made[i - 1] + 1 /\ o[made[i]] = st[i - 1].frame
              ELSE made[i] = made[i - 1]

Message == Seq(Byte)

(* Induction up to n, as a fact about sets.                                 *)
LEMMA UpTo ==
    ASSUME NEW n \in Nat, NEW T, 1 \in T, \A i \in 1..(n - 1) : i \in T => i + 1 \in T
    PROVE  \A i \in 1..n : i \in T
  <1> DEFINE missing == {i \in 1..n : i \notin T}
  <1> SUFFICES ASSUME missing # {} PROVE FALSE
    OBVIOUS
  <1>1. missing \in SUBSET Nat
    OBVIOUS
  <1>2. PICK x \in missing : \A y \in missing : ~ (<<y, x>> \in OpToRel(<, Nat))
    BY <1>1, NatLessThanWellFounded, WFMin
  <1>3. x \in 1..n /\ x \notin T /\ x # 1
    BY <1>2
  <1>4. x - 1 \in 1..(n - 1) /\ x - 1 \in 1..n /\ (x - 1) + 1 = x /\ x - 1 < x
    BY <1>3
  <1>5. x - 1 \in missing
    BY <1>3, <1>4
  <1>6. <<x - 1, x>> \in OpToRel(<, Nat)
    BY <1>1, <1>2, <1>4, <1>5 DEF OpToRel
  <1> QED
    BY <1>2, <1>5, <1>6

LEMMA CollectType ==
    ASSUME NEW r \in Receiver, NEW b \in Byte
    PROVE  Collect(r, b) \in Receiver
  <1>1. r.frame \in Seq(Byte) /\ r.escaped \in BOOLEAN
    BY DEF Receiver
  <1>2. [r EXCEPT !.escaped = TRUE] \in Receiver
    BY DEF Receiver
  <1>3. [frame |-> Append(r.frame, b), escaped |-> FALSE] \in Receiver
    BY <1>1 DEF Receiver
  <1> QED
    BY <1>2, <1>3 DEF Collect

LEMMA FreshType == Fresh \in Receiver /\ Len(Fresh.frame) = 0
  <1>1. <<>> \in Seq(Byte) /\ Len(<<>>) = 0
    OBVIOUS
  <1> QED
    BY <1>1 DEF Fresh, Receiver

LEMMA AfterByteType ==
    ASSUME NEW r \in Receiver, NEW b \in Byte
    PROVE  AfterByte(r, b) \in Receiver
  BY CollectType, FreshType DEF AfterByte

(* Reading nothing makes nothing, and only that.                            *)
LEMMA MakesNothing ==
    ASSUME NEW r \in Receiver, NEW o \in Seq(Message), NEW z
    PROVE  Makes(r, <<>>, z, o) <=> z = r /\ o = <<>>
  <1>1. Len(<<>>) = 0
    OBVIOUS
  <1>2. ASSUME Makes(r, <<>>, z, o) PROVE z = r /\ o = <<>>
    BY <1>1, <1>2 DEF Makes
  <1>3. Makes(r, <<>>, r, <<>>)
    <2> DEFINE st == [i \in 0..0 |-> r]
               made == [i \in 0..0 |-> 0]
    <2>1. /\ st \in [0..Len(<<>>) -> Receiver] /\ made \in [0..Len(<<>>) -> 0..Len(<<>>)]
          /\ st[0] = r /\ st[Len(<<>>)] = r /\ made[0] = 0 /\ made[Len(<<>>)] = Len(<<>>)
          /\ \A i \in 1..Len(<<>>) : FALSE
      BY <1>1
    <2> HIDE DEF st, made
    <2> QED
      BY <2>1 DEF Makes
  <1> QED
    BY <1>2, <1>3

(* One byte.                                                                *)
LEMMA MakesByte ==
    ASSUME NEW r \in Receiver, NEW b \in Byte
    PROVE  Makes(r, <<b>>, AfterByte(r, b), IF Completes(r, b) THEN <<r.frame>> ELSE <<>>)
  <1> DEFINE o == IF Completes(r, b) THEN <<r.frame>> ELSE <<>>
             w == <<b>>
             st == [i \in 0..1 |-> IF i = 0 THEN r ELSE AfterByte(r, b)]
             made == [i \in 0..1 |-> IF i = 0 THEN 0 ELSE Len(o)]
  <1>1. Len(w) = 1 /\ w[1] = b
    OBVIOUS
  <1>2. Len(o) = IF Completes(r, b) THEN 1 ELSE 0
    OBVIOUS
  <1>3. Completes(r, b) => o[1] = r.frame
    OBVIOUS
  <1>4. st \in [0..1 -> Receiver] /\ st[0] = r /\ st[1] = AfterByte(r, b)
    BY AfterByteType
  <1> HIDE DEF o, w, st
  <1>5. made \in [0..1 -> 0..Len(o)] /\ made[0] = 0 /\ made[1] = Len(o)
    BY <1>2
  <1> HIDE DEF made
  <1>6. Makes(r, w, AfterByte(r, b), o)
    <2>1. \A i \in 1..Len(w) : i = 1 /\ i - 1 = 0
      BY <1>1
    <2>2. \A i \in 1..Len(w) : st[i] = AfterByte(st[i - 1], w[i])
      BY <1>1, <1>4, <2>1
    <2>3. \A i \in 1..Len(w) :
              IF Completes(st[i - 1], w[i])
              THEN made[i] = made[i - 1] + 1 /\ o[made[i]] = st[i - 1].frame
              ELSE made[i] = made[i - 1]
      BY <1>1, <1>2, <1>3, <1>4, <1>5, <2>1
    <2> QED
      BY <1>1, <1>4, <1>5, <2>2, <2>3 DEF Makes
  <1> QED
    BY <1>6 DEF o, w

(* What is read in two parts.                                               *)
LEMMA MakesConcat ==
    ASSUME NEW r, NEW m, NEW z,
           NEW v \in Seq(Byte), NEW w \in Seq(Byte),
           NEW o \in Seq(Message), NEW q \in Seq(Message),
           Makes(r, v, m, o), Makes(m, w, z, q)
    PROVE  Makes(r, v \o w, z, o \o q)
  <1> DEFINE a == Len(v)
             b == Len(w)
             s == v \o w
             all == o \o q
             k == Len(o)
             l == Len(q)
  <1>1. /\ a \in Nat /\ b \in Nat /\ s \in Seq(Byte) /\ Len(s) = a + b
        /\ \A i \in 1..a : s[i] = v[i]
        /\ \A i \in 1..b : s[a + i] = w[i]
    OBVIOUS
  <1>2. /\ k \in Nat /\ l \in Nat /\ all \in Seq(Message) /\ Len(all) = k + l
        /\ \A i \in 1..k : all[i] = o[i]
        /\ \A i \in 1..l : all[k + i] = q[i]
    OBVIOUS
  <1>3. PICK s1 \in [0..a -> Receiver], m1 \in [0..a -> 0..k] :
            /\ s1[0] = r /\ s1[a] = m /\ m1[0] = 0 /\ m1[a] = k
            /\ \A i \in 1..a : s1[i] = AfterByte(s1[i - 1], v[i])
            /\ \A i \in 1..a :
                  IF Completes(s1[i - 1], v[i])
                  THEN m1[i] = m1[i - 1] + 1 /\ o[m1[i]] = s1[i - 1].frame
                  ELSE m1[i] = m1[i - 1]
    BY DEF Makes
  <1>4. PICK s2 \in [0..b -> Receiver], m2 \in [0..b -> 0..l] :
            /\ s2[0] = m /\ s2[b] = z /\ m2[0] = 0 /\ m2[b] = l
            /\ \A i \in 1..b : s2[i] = AfterByte(s2[i - 1], w[i])
            /\ \A i \in 1..b :
                  IF Completes(s2[i - 1], w[i])
                  THEN m2[i] = m2[i - 1] + 1 /\ q[m2[i]] = s2[i - 1].frame
                  ELSE m2[i] = m2[i - 1]
    BY DEF Makes
  <1> DEFINE st == [i \in 0..(a + b) |-> IF i <= a THEN s1[i] ELSE s2[i - a]]
             made == [i \in 0..(a + b) |-> IF i <= a THEN m1[i] ELSE k + m2[i - a]]
  <1> HIDE DEF a, b, s, all, k, l
  <1>5. \A i \in 0..(a + b) : i > a => i - a \in 1..b /\ i - a \in 0..b
    BY <1>1
  <1>6. st \in [0..(a + b) -> Receiver]
    BY <1>1, <1>3, <1>4, <1>5
  <1>7. made \in [0..(a + b) -> 0..(k + l)]
    <2>1. \A i \in 0..a : m1[i] \in 0..(k + l)
      BY <1>2, <1>3
    <2>2. \A x \in 0..l : k + x \in 0..(k + l)
      BY <1>2
    <2>3. \A i \in 0..b : m2[i] \in 0..l
      BY <1>4
    <2>4. \A i \in 0..b : k + m2[i] \in 0..(k + l)
      BY <2>2, <2>3
    <2> QED
      BY <1>1, <1>5, <2>1, <2>4
  <1>8. \A i \in 0..b : st[a + i] = s2[i] /\ made[a + i] = k + m2[i]
    <2> SUFFICES ASSUME NEW i \in 0..b PROVE st[a + i] = s2[i] /\ made[a + i] = k + m2[i]
      OBVIOUS
    <2>1. a + i \in 0..(a + b)
      BY <1>1
    <2>2. CASE i = 0
      BY <1>1, <1>2, <1>3, <1>4, <2>1, <2>2
    <2>3. CASE i # 0
      <3>1. ~ (a + i <= a) /\ (a + i) - a = i
        BY <1>1, <2>3
      <3> QED
        BY <2>1, <3>1
    <2> QED
      BY <2>2, <2>3
  <1>9. \A i \in 0..a : st[i] = s1[i] /\ made[i] = m1[i]
    BY <1>1
  <1> HIDE DEF st, made
  <1>10. ASSUME NEW i \in 1..(a + b)
         PROVE  /\ st[i] = AfterByte(st[i - 1], s[i])
                /\ IF Completes(st[i - 1], s[i])
                   THEN made[i] = made[i - 1] + 1 /\ all[made[i]] = st[i - 1].frame
                   ELSE made[i] = made[i - 1]
    <2>1. CASE i <= a
      <3>1. i \in 1..a /\ i \in 0..a /\ i - 1 \in 0..a
        BY <1>1, <2>1
      <3>2. st[i] = s1[i] /\ st[i - 1] = s1[i - 1] /\ made[i] = m1[i]
            /\ made[i - 1] = m1[i - 1] /\ s[i] = v[i]
        BY <1>1, <1>9, <3>1
      <3>3. CASE Completes(s1[i - 1], v[i])
        <4>1. m1[i] = m1[i - 1] + 1 /\ o[m1[i]] = s1[i - 1].frame
          BY <1>3, <3>1, <3>3
        <4>2. m1[i] \in 0..k /\ m1[i - 1] \in 0..k
          BY <1>3, <3>1
        <4>3. m1[i] \in 1..k
          BY <1>2, <4>1, <4>2
        <4>4. all[m1[i]] = o[m1[i]]
          BY <1>2, <4>3
        <4> QED
          BY <1>3, <3>1, <3>2, <3>3, <4>1, <4>4
      <3>4. CASE ~ Completes(s1[i - 1], v[i])
        BY <1>3, <3>1, <3>2, <3>4
      <3> QED
        BY <3>3, <3>4
    <2>2. CASE i > a
      <3> DEFINE j == i - a
      <3>1. j \in 1..b /\ j \in 0..b /\ j - 1 \in 0..b /\ i = a + j /\ i - 1 = a + (j - 1)
        BY <1>1, <2>2
      <3> HIDE DEF j
      <3>2. st[i] = s2[j] /\ st[i - 1] = s2[j - 1] /\ made[i] = k + m2[j]
            /\ made[i - 1] = k + m2[j - 1] /\ s[i] = w[j]
        BY <1>1, <1>8, <3>1
      <3>3. CASE Completes(s2[j - 1], w[j])
        <4>1. m2[j] = m2[j - 1] + 1 /\ q[m2[j]] = s2[j - 1].frame
          BY <1>4, <3>1, <3>3
        <4>2. m2[j] \in 0..l /\ m2[j - 1] \in 0..l
          BY <1>4, <3>1
        <4>3. m2[j] \in 1..l /\ k + m2[j] = (k + m2[j - 1]) + 1
          <5>1. k \in Nat /\ l \in Nat
            BY <1>2
          <5>2. \A x, y \in 0..l : x = y + 1 => x \in 1..l /\ k + x = (k + y) + 1
            BY <5>1
          <5> QED
            BY <4>1, <4>2, <5>2
        <4>4. all[k + m2[j]] = q[m2[j]]
          BY <1>2, <4>3
        <4>5. made[i] = made[i - 1] + 1
          BY <3>2, <4>3
        <4>6. all[made[i]] = st[i - 1].frame
          BY <3>2, <4>1, <4>4
        <4>7. st[i] = AfterByte(st[i - 1], s[i])
          BY <1>4, <3>1, <3>2
        <4>8. Completes(st[i - 1], s[i])
          BY <3>2, <3>3
        <4> QED
          BY <4>5, <4>6, <4>7, <4>8
      <3>4. CASE ~ Completes(s2[j - 1], w[j])
        BY <1>4, <3>1, <3>2, <3>4
      <3> QED
        BY <3>3, <3>4
    <2> QED
      BY <1>1, <2>1, <2>2
  <1>11. /\ st[0] = r /\ st[a + b] = z /\ made[0] = 0 /\ made[a + b] = k + l
    <2>1. 0 \in 0..a /\ b \in 0..b
      BY <1>1
    <2> QED
      BY <1>3, <1>4, <1>8, <1>9, <2>1
  <1>12. /\ st \in [0..Len(s) -> Receiver] /\ made \in [0..Len(s) -> 0..Len(all)]
         /\ st[0] = r /\ st[Len(s)] = z /\ made[0] = 0 /\ made[Len(s)] = Len(all)
         /\ \A i \in 1..Len(s) : st[i] = AfterByte(st[i - 1], s[i])
         /\ \A i \in 1..Len(s) :
               IF Completes(st[i - 1], s[i])
               THEN made[i] = made[i - 1] + 1 /\ all[made[i]] = st[i - 1].frame
               ELSE made[i] = made[i - 1]
    BY <1>1, <1>2, <1>6, <1>7, <1>10, <1>11
  <1>13. Makes(r, s, z, all)
    BY <1>12, Zenon DEF Makes
  <1> QED
    BY <1>13 DEF s, all

(* What is read after its first byte.                                       *)
LEMMA MakesTail ==
    ASSUME NEW r, NEW z, NEW w \in Seq(Byte), w # <<>>, NEW o \in Seq(Message),
           Makes(r, w, z, o)
    PROVE  IF Completes(r, Head(w))
           THEN o # <<>> /\ Head(o) = r.frame /\ Makes(Fresh, Tail(w), z, Tail(o))
           ELSE Makes(AfterByte(r, Head(w)), Tail(w), z, o)
  <1> DEFINE n == Len(w)
             t == Tail(w)
             d == IF Completes(r, Head(w)) THEN 1 ELSE 0
             rest == IF Completes(r, Head(w)) THEN Tail(o) ELSE o
  <1>1. /\ n \in Nat \ {0} /\ t \in Seq(Byte) /\ Len(t) = n - 1 /\ Head(w) = w[1]
        /\ \A i \in 1..Len(t) : t[i] = w[i + 1]
    OBVIOUS
  <1>2. PICK st \in [0..n -> Receiver], made \in [0..n -> 0..Len(o)] :
            /\ st[0] = r /\ st[n] = z /\ made[0] = 0 /\ made[n] = Len(o)
            /\ \A i \in 1..n : st[i] = AfterByte(st[i - 1], w[i])
            /\ \A i \in 1..n :
                  IF Completes(st[i - 1], w[i])
                  THEN made[i] = made[i - 1] + 1 /\ o[made[i]] = st[i - 1].frame
                  ELSE made[i] = made[i - 1]
    BY DEF Makes
  <1>3. st[1] = AfterByte(r, Head(w)) /\ made[1] = d
    <2>1. 1 \in 1..n /\ 1 - 1 = 0
      BY <1>1
    <2>2. st[1] = AfterByte(st[1 - 1], w[1])
      BY <1>2, <2>1
    <2>3. IF Completes(st[1 - 1], w[1]) THEN made[1] = made[1 - 1] + 1 ELSE made[1] = made[1 - 1]
      BY <1>2, <2>1
    <2>4. st[1 - 1] = r /\ made[1 - 1] = 0 /\ w[1] = Head(w)
      BY <1>1, <1>2, <2>1
    <2>5. st[1] = AfterByte(r, Head(w))
      BY <2>2, <2>4
    <2>6. IF Completes(r, Head(w)) THEN made[1] = 0 + 1 ELSE made[1] = 0
      BY <2>3, <2>4
    <2>7. made[1] = d
      BY <2>6
    <2> QED
      BY <2>5, <2>7
  <1>4. Completes(r, Head(w)) => /\ Len(o) >= 1 /\ o[1] = r.frame
    <2>1. 1 \in 1..n /\ 1 - 1 = 0 /\ 1 \in 0..n
      BY <1>1
    <2> QED
      BY <1>1, <1>2, <1>3, <2>1
  <1>5. /\ rest \in Seq(Message) /\ Len(rest) = Len(o) - d /\ Len(o) \in Nat
        /\ \A i \in 1..Len(rest) : rest[i] = o[i + d]
    <2>1. CASE Completes(r, Head(w))
      BY <1>4, <2>1
    <2>2. CASE ~ Completes(r, Head(w))
      BY <2>2
    <2> QED
      BY <2>1, <2>2
  <1>6. d \in {0, 1}
    OBVIOUS
  <1> HIDE DEF d, rest, n, t
  (* The count never falls below what the first byte made it.               *)
  <1>7. \A i \in 1..n : made[i] >= d
    <2> DEFINE T == {i \in 1..n : made[i] >= d}
    <2>1. 1 \in T
      BY <1>1, <1>3, <1>6
    <2>2. ASSUME NEW i \in 1..(n - 1), i \in T PROVE i + 1 \in T
      <3>1. i + 1 \in 1..n /\ (i + 1) - 1 = i /\ i \in 0..n /\ i + 1 \in 0..n
        BY <1>1
      <3>2. made[i + 1] = made[i] \/ made[i + 1] = made[i] + 1
        BY <1>2, <3>1
      <3>3. made[i] \in Nat /\ made[i + 1] \in Nat /\ made[i] >= d
        BY <1>2, <2>2, <3>1
      <3> QED
        BY <1>6, <3>1, <3>2, <3>3
    <2> HIDE DEF T
    <2>3. \A i \in 1..n : i \in T
      BY <1>1, <2>1, <2>2, UpTo
    <2> QED
      BY <2>3 DEF T
  <1> DEFINE st2 == [i \in 0..(n - 1) |-> st[i + 1]]
             made2 == [i \in 0..(n - 1) |-> made[i + 1] - d]
  <1>8. st2 \in [0..Len(t) -> Receiver]
    BY <1>1, <1>2
  <1>9. made2 \in [0..Len(t) -> 0..Len(rest)]
    <2>1. \A i \in 0..(n - 1) : made[i + 1] - d \in 0..Len(rest)
      <3> SUFFICES ASSUME NEW i \in 0..(n - 1) PROVE made[i + 1] - d \in 0..Len(rest)
        OBVIOUS
      <3>1. i + 1 \in 1..n /\ i + 1 \in 0..n
        BY <1>1
      <3>2. made[i + 1] \in 0..Len(o) /\ made[i + 1] >= d
        BY <1>2, <1>7, <3>1
      <3> QED
        BY <1>5, <1>6, <3>2
    <2> QED
      BY <1>1, <2>1
  <1>10. /\ st2[0] = AfterByte(r, Head(w)) /\ st2[Len(t)] = z
         /\ made2[0] = 0 /\ made2[Len(t)] = Len(rest)
    <2>1. n \in Nat \ {0} /\ Len(t) = n - 1 /\ 0 \in 0..(n - 1) /\ n - 1 \in 0..(n - 1)
          /\ 0 + 1 = 1 /\ (n - 1) + 1 = n
      BY <1>1
    <2>2. /\ st2[0] = st[1] /\ st2[Len(t)] = st[n]
          /\ made2[0] = made[1] - d /\ made2[Len(t)] = made[n] - d
      BY <2>1
    <2> HIDE DEF st2, made2
    <2> QED
      BY <1>2, <1>3, <1>5, <1>6, <2>2
  <1>11. ASSUME NEW i \in 1..Len(t)
         PROVE  /\ st2[i] = AfterByte(st2[i - 1], t[i])
                /\ IF Completes(st2[i - 1], t[i])
                   THEN made2[i] = made2[i - 1] + 1 /\ rest[made2[i]] = st2[i - 1].frame
                   ELSE made2[i] = made2[i - 1]
    <2> DEFINE j == i + 1
    <2>1. /\ j \in 1..n /\ j \in 0..n /\ j - 1 \in 0..n /\ j - 1 = i /\ i \in 1..n
          /\ i \in 0..(n - 1) /\ i - 1 \in 0..(n - 1)
      BY <1>1
    <2>2. /\ st2[i] = st[j] /\ st2[i - 1] = st[j - 1] /\ t[i] = w[j]
          /\ made2[i] = made[j] - d /\ made2[i - 1] = made[j - 1] - d
      BY <1>1, <2>1
    <2> HIDE DEF st2, made2, j
    <2>3. made[j] \in 0..Len(o) /\ made[j - 1] \in 0..Len(o) /\ made[j - 1] >= d
      BY <1>2, <1>7, <2>1
    <2>4. CASE Completes(st[j - 1], w[j])
      <3>1. made[j] = made[j - 1] + 1 /\ o[made[j]] = st[j - 1].frame
        BY <1>2, <2>1, <2>4
      <3>2. made[j] - d \in 1..Len(rest) /\ (made[j] - d) + d = made[j]
        BY <1>5, <1>6, <2>3, <3>1
      <3>3. rest[made[j] - d] = o[made[j]]
        BY <1>5, <3>2
      <3>4. made[j] - d = (made[j - 1] - d) + 1
        BY <1>6, <2>3, <3>1
      <3> QED
        BY <1>2, <2>1, <2>2, <2>4, <3>1, <3>3, <3>4
    <2>5. CASE ~ Completes(st[j - 1], w[j])
      BY <1>2, <2>1, <2>2, <2>5
    <2> QED
      BY <2>4, <2>5
  <1> HIDE DEF st2, made2
  <1>12. Makes(AfterByte(r, Head(w)), t, z, rest)
    <2>1. /\ \A i \in 1..Len(t) : st2[i] = AfterByte(st2[i - 1], t[i])
          /\ \A i \in 1..Len(t) :
                IF Completes(st2[i - 1], t[i])
                THEN made2[i] = made2[i - 1] + 1 /\ rest[made2[i]] = st2[i - 1].frame
                ELSE made2[i] = made2[i - 1]
      BY <1>11
    <2> QED
      BY <1>8, <1>9, <1>10, <2>1, Zenon DEF Makes
  <1>13. CASE Completes(r, Head(w))
    <2>1. AfterByte(r, Head(w)) = Fresh
      BY <1>13 DEF Completes, AfterByte
    <2>2. o # <<>> /\ Head(o) = r.frame
      BY <1>4, <1>13
    <2> QED
      BY <1>12, <1>13, <2>1, <2>2 DEF rest, t
  <1>14. CASE ~ Completes(r, Head(w))
    BY <1>12, <1>14 DEF rest, t
  <1> QED
    BY <1>13, <1>14

(* Whole messages are whole frames.                                         *)
LEMMA MakesFramed ==
    ASSUME NEW r, NEW w \in Seq(Byte), NEW o, Makes(r, w, Fresh, o)
    PROVE  Framed(w, r.escaped)
  <1> SUFFICES ASSUME w # <<>> PROVE Framed(w, r.escaped)
    BY DEF Framed
  <1> DEFINE n == Len(w)
  <1>1. n \in Nat \ {0} /\ \A i \in 1..n : w[i] \in Byte
    OBVIOUS
  <1>2. PICK st \in [0..n -> Receiver] :
            /\ st[0] = r /\ st[n] = Fresh
            /\ \A i \in 1..n : st[i] = AfterByte(st[i - 1], w[i])
    BY DEF Makes
  <1> HIDE DEF n
  <1>3. ASSUME NEW i \in 1..n
        PROVE  /\ st[i].escaped <=> w[i] = Esc /\ ~ st[i - 1].escaped
               /\ st[i] = Fresh => IsEnd(st[i - 1], w[i])
    <2>1. st[i - 1] \in Receiver /\ w[i] \in Byte /\ st[i] = AfterByte(st[i - 1], w[i])
      BY <1>1, <1>2
    <2>2. CASE IsEnd(st[i - 1], w[i])
      BY <2>1, <2>2 DEF AfterByte, IsEnd, Fresh, End, Esc
    <2>3. CASE ~ IsEnd(st[i - 1], w[i]) /\ w[i] = Esc /\ ~ st[i - 1].escaped
      <3>1. st[i] = [st[i - 1] EXCEPT !.escaped = TRUE]
        BY <2>1, <2>3 DEF AfterByte, Collect
      <3>2. st[i].escaped
        BY <2>1, <3>1 DEF Receiver
      <3> QED
        BY <2>3, <3>2 DEF Fresh
    <2>4. CASE ~ IsEnd(st[i - 1], w[i]) /\ ~ (w[i] = Esc /\ ~ st[i - 1].escaped)
      <3>1. st[i] = [frame |-> Append(st[i - 1].frame, w[i]), escaped |-> FALSE]
        BY <2>1, <2>4 DEF AfterByte, Collect
      <3>2. Append(st[i - 1].frame, w[i]) # <<>>
        BY <2>1 DEF Receiver
      <3> QED
        BY <2>4, <3>1, <3>2 DEF Fresh
    <2> QED
      BY <2>2, <2>3, <2>4
  <1> DEFINE lit == [i \in 1..n |-> st[i - 1].escaped]
  <1>4. \A i \in 1..n : st[i - 1].escaped \in BOOLEAN
    BY <1>1, <1>2 DEF Receiver
  <1>5. lit \in [1..n -> BOOLEAN]
    BY <1>4
  <1>6. lit[1] = r.escaped
    BY <1>1, <1>2
  <1>7. ASSUME NEW i \in 2..n PROVE lit[i] = (w[i - 1] = Esc /\ ~ lit[i - 1])
    <2>1. i - 1 \in 1..n /\ i \in 1..n
      BY <1>1
    <2>2. lit[i] = st[i - 1].escaped /\ lit[i - 1] = st[(i - 1) - 1].escaped
      BY <2>1
    <2>3. st[i - 1].escaped <=> w[i - 1] = Esc /\ ~ st[(i - 1) - 1].escaped
      BY <1>3, <2>1
    <2>4. st[i - 1].escaped \in BOOLEAN
      BY <1>4, <2>1
    <2> HIDE DEF lit
    <2> QED
      BY <2>2, <2>3, <2>4
  <1>8. w[n] = End /\ ~ lit[n]
    <2>1. n \in 1..n
      BY <1>1
    <2>2. IsEnd(st[n - 1], w[n])
      BY <1>2, <1>3, <2>1
    <2> QED
      BY <2>1, <2>2 DEF IsEnd
  <1> HIDE DEF lit
  <1> QED
    BY <1>5, <1>6, <1>7, <1>8 DEF Framed, n

-----------------------------------------------------------------------------
(* Encode, by induction over the payload.                                   *)

(* FlattenSeq is the last of the partial concatenations.                    *)
LEMMA FlattenUnfolds ==
    ASSUME NEW S, NEW s \in Seq(Seq(S)), s # <<>>
    PROVE  \E f \in [1..Len(s) -> Seq(S)] :
              /\ f[1] = s[1] /\ \A i \in 2..Len(s) : f[i] = f[i - 1] \o s[i]
              /\ FlattenSeq(s) = f[Len(s)]
  <1> DEFINE n == Len(s)
             Sums(f, k) == f[1] = s[1] /\ \A i \in 2..k : f[i] = f[i - 1] \o s[i]
             Equation(f) == f = [i \in 1..n |-> IF i = 1 THEN s[i] ELSE f[i - 1] \o s[i]]
             T == {k \in Nat : \E f \in [1..k -> Seq(S)] : Sums(f, k)}
  <1>1. n \in Nat \ {0} /\ \A i \in 1..n : s[i] \in Seq(S)
    OBVIOUS
  <1> HIDE DEF n
  <1>2. 1 \in T
    <2> DEFINE f == [i \in 1..1 |-> s[1]]
    <2>1. f \in [1..1 -> Seq(S)] /\ f[1] = s[1]
      BY <1>1
    <2> HIDE DEF f
    <2>2. Sums(f, 1) /\ 1 \in Nat
      BY <2>1
    <2> HIDE DEF Sums
    <2> QED
      BY <2>1, <2>2
  <1>3. ASSUME NEW k \in 1..(n - 1), k \in T PROVE k + 1 \in T
    <2>1. PICK f \in [1..k -> Seq(S)] : Sums(f, k)
      BY <1>3
    <2> DEFINE g == [i \in 1..(k + 1) |-> IF i <= k THEN f[i] ELSE f[k] \o s[k + 1]]
    <2>2. k \in Nat /\ k >= 1 /\ k + 1 \in 1..n /\ k \in 1..k
      BY <1>1
    <2>3. f[k] \o s[k + 1] \in Seq(S)
      BY <1>1, <2>1, <2>2
    <2>4. g \in [1..(k + 1) -> Seq(S)]
      BY <2>1, <2>2, <2>3
    <2>5. \A i \in 1..k : g[i] = f[i]
      BY <2>2
    <2>6. g[k + 1] = f[k] \o s[k + 1]
      BY <2>2
    <2> HIDE DEF g
    <2>7. ASSUME NEW i \in 2..(k + 1) PROVE g[i] = g[i - 1] \o s[i]
      <3>1. CASE i = k + 1
        <4>1. i - 1 = k
          BY <2>2, <3>1
        <4> QED
          BY <2>2, <2>5, <2>6, <3>1, <4>1
      <3>2. CASE i # k + 1
        <4>1. i \in 2..k /\ i \in 1..k /\ i - 1 \in 1..k
          BY <2>2, <3>2
        <4> QED
          BY <2>1, <2>5, <4>1
      <3> QED
        BY <3>1, <3>2
    <2>8. g[1] = s[1]
      BY <2>1, <2>2, <2>5
    <2>9. Sums(g, k + 1) /\ k + 1 \in Nat
      <3>1. k + 1 \in Nat
        BY <2>2
      <3>2. \A i \in 2..(k + 1) : g[i] = g[i - 1] \o s[i]
        BY <2>7
      <3> QED
        BY <2>8, <3>1, <3>2, Zenon
    <2> HIDE DEF Sums
    <2>10. \E h \in [1..(k + 1) -> Seq(S)] : Sums(h, k + 1)
      BY <2>4, <2>9
    <2> QED
      BY <2>9, <2>10
  <1>4. n \in T
    <2> HIDE DEF T
    <2>1. n \in Nat /\ n \in 1..n
      BY <1>1
    <2>2. \A i \in 1..n : i \in T
      BY <1>2, <1>3, <2>1, UpTo
    <2> QED
      BY <2>1, <2>2
  <1>5. PICK f \in [1..n -> Seq(S)] : Sums(f, n)
    BY <1>4
  <1>6. Equation(f)
    <2> DEFINE g == [i \in 1..n |-> IF i = 1 THEN s[i] ELSE f[i - 1] \o s[i]]
    <2>1. ASSUME NEW i \in 1..n PROVE g[i] = f[i]
      <3>1. i = 1 \/ i \in 2..n
        BY <1>1
      <3> QED
        BY <1>5, <3>1
    <2> HIDE DEF g
    <2>2. f = g
      BY <1>5, <2>1 DEF g
    <2> QED
      BY <2>2 DEF g
  <1> DEFINE c == CHOOSE h : Equation(h)
  <1>7. Equation(c)
    <2> HIDE DEF Equation
    <2> QED
      BY <1>6
  <1>8. FlattenSeq(s) = c[n]
    BY <1>1 DEF FlattenSeq, n
  <1> HIDE DEF c
  <1>9. c[1] = s[1] /\ \A i \in 2..n : c[i] = c[i - 1] \o s[i]
    <2>1. \A i \in 1..n : c[i] = IF i = 1 THEN s[i] ELSE c[i - 1] \o s[i]
      BY <1>7
    <2>2. 1 \in 1..n /\ \A i \in 2..n : i \in 1..n /\ i # 1
      BY <1>1
    <2> HIDE DEF Equation
    <2> QED
      BY <2>1, <2>2
  <1>10. \A i \in 1..n : c[i] \in Seq(S)
    <2> DEFINE U == {i \in Nat : c[i] \in Seq(S)}
    <2>1. 1 \in U
      BY <1>1, <1>9
    <2>2. ASSUME NEW i \in 1..(n - 1), i \in U PROVE i + 1 \in U
      <3>1. i + 1 \in 2..n /\ i + 1 \in 1..n /\ (i + 1) - 1 = i /\ i + 1 \in Nat
        BY <1>1
      <3>2. c[i + 1] = c[i] \o s[i + 1]
        BY <1>9, <3>1
      <3>3. c[i] \in Seq(S) /\ s[i + 1] \in Seq(S)
        BY <1>1, <2>2, <3>1
      <3>4. c[i + 1] \in Seq(S)
        BY <3>2, <3>3
      <3> QED
        BY <3>1, <3>4
    <2> HIDE DEF U
    <2>3. \A i \in 1..n : i \in U
      BY <1>1, <2>1, <2>2, UpTo
    <2> QED
      BY <2>3 DEF U
  <1>11. c \in [1..n -> Seq(S)]
    <2>1. c = [i \in 1..n |-> c[i]]
      <3>1. c = [i \in 1..n |-> IF i = 1 THEN s[i] ELSE c[i - 1] \o s[i]]
        BY <1>7
      <3> QED
        BY <3>1
    <2> QED
      BY <1>10, <2>1
  <1> QED
    BY <1>8, <1>9, <1>11 DEF n

LEMMA OneAndOne == ASSUME NEW a, NEW b PROVE <<a>> \o <<b>> = <<a, b>>
  <1> DEFINE S == {a, b}
             s == <<a>> \o <<b>>
             t == <<a, b>>
  <1>1. <<a>> \in Seq(S) /\ <<b>> \in Seq(S)
    OBVIOUS
  <1>2. s \in Seq(S) /\ Len(s) = 2 /\ s[1] = a /\ s[2] = b
    BY <1>1
  <1>3. t \in Seq(S) /\ Len(t) = 2 /\ t[1] = a /\ t[2] = b
    OBVIOUS
  <1> HIDE DEF S, s, t
  <1>4. \A i \in 1..Len(s) : s[i] = t[i]
    BY <1>2, <1>3
  <1>5. s = t
    BY <1>2, <1>3, <1>4, SeqEqual
  <1> QED
    BY <1>5 DEF s, t

(* An encoded byte, behind no escape, adds that byte.                       *)
LEMMA EncodedByte ==
    ASSUME NEW r \in Receiver, ~ r.escaped, NEW b \in Byte
    PROVE  /\ EncodeByte(b) \in Message
           /\ Makes(r, EncodeByte(b), [frame |-> Append(r.frame, b), escaped |-> FALSE], <<>>)
  <1> DEFINE z == [frame |-> Append(r.frame, b), escaped |-> FALSE]
  <1>1. Esc \in Byte /\ Esc # End
    BY DEF Esc, End, Byte
  <1>2. CASE b \in {End, Esc}
    <2> DEFINE m == AfterByte(r, Esc)
    <2>1. ~ Completes(r, Esc) /\ m = [r EXCEPT !.escaped = TRUE]
      BY <1>1 DEF Completes, IsEnd, AfterByte, Collect
    <2>2. m \in Receiver /\ m.escaped /\ m.frame = r.frame
      BY <2>1 DEF Receiver
    <2>3. Makes(r, <<Esc>>, m, <<>>)
      BY <1>1, <2>1, MakesByte
    <2> HIDE DEF m
    <2>4. ~ Completes(m, b) /\ AfterByte(m, b) = z
      BY <2>2 DEF Completes, IsEnd, AfterByte, Collect
    <2>5. Makes(m, <<b>>, z, <<>>)
      BY <2>2, <2>4, MakesByte
    <2> HIDE DEF z
    <2>6. <<Esc>> \in Seq(Byte) /\ <<b>> \in Seq(Byte) /\ <<>> \in Seq(Message)
      BY <1>1
    <2>7. Makes(r, <<Esc>> \o <<b>>, z, <<>> \o <<>>)
      BY <2>3, <2>5, <2>6, MakesConcat
    <2>8. <<Esc>> \o <<b>> = <<Esc, b>> /\ <<>> \o <<>> = <<>>
      BY OneAndOne
    <2>9. EncodeByte(b) = <<Esc, b>>
      BY <1>2 DEF EncodeByte
    <2>10. <<Esc, b>> \in Seq(Byte)
      BY <1>1
    <2> QED
      BY <2>7, <2>8, <2>9, <2>10 DEF z, Message
  <1>3. CASE b \notin {End, Esc}
    <2>1. ~ Completes(r, b) /\ AfterByte(r, b) = z
      BY <1>3 DEF Completes, IsEnd, AfterByte, Collect
    <2>2. EncodeByte(b) = <<b>>
      BY <1>3 DEF EncodeByte
    <2>3. Makes(r, <<b>>, z, <<>>)
      BY <2>1, MakesByte
    <2> QED
      BY <2>2, <2>3 DEF Message
  <1> QED
    BY <1>2, <1>3

(* What Encode makes of a payload is one whole frame, and a receiver makes  *)
(* exactly that payload of it.                                              *)
LEMMA EncodeMakes ==
    ASSUME NEW p \in Message, p # <<>>
    PROVE  /\ Encode(p) \in Message /\ Encode(p) # <<>>
           /\ Makes(Fresh, Encode(p), Fresh, <<p>>)
  <1> DEFINE n == Len(p)
             s == [i \in DOMAIN p |-> EncodeByte(p[i])]
             Read(i) == [frame |-> SubSeq(p, 1, i), escaped |-> FALSE]
  <1>1. /\ n \in Nat \ {0} /\ DOMAIN p = 1..n /\ \A i \in 1..n : p[i] \in Byte
        /\ p = SubSeq(p, 1, n)
    BY DEF Message
  <1>2. \A i \in 1..n : EncodeByte(p[i]) \in Message
    BY <1>1, FreshType, EncodedByte DEF Fresh
  <1>3. s \in Seq(Message) /\ Len(s) = n /\ \A i \in 1..n : s[i] = EncodeByte(p[i])
    <2>1. s \in [1..n -> Message]
      BY <1>1, <1>2
    <2>2. s \in Seq(Message)
      BY <1>1, <2>1, IsASeq
    <2> QED
      BY <1>1, <2>1, <2>2
  <1>4. ASSUME NEW i \in 1..n
        PROVE  /\ Read(i) \in Receiver /\ ~ Read(i).escaped
               /\ i + 1 \in 1..n => Append(Read(i).frame, p[i + 1]) = SubSeq(p, 1, i + 1)
    <2>1. SubSeq(p, 1, i) \in Seq(Byte)
      BY <1>1 DEF Message
    <2>2. ASSUME i + 1 \in 1..n PROVE Append(SubSeq(p, 1, i), p[i + 1]) = SubSeq(p, 1, i + 1)
      <3> DEFINE u == Append(SubSeq(p, 1, i), p[i + 1])
                 v == SubSeq(p, 1, i + 1)
      <3>1. u \in Seq(Byte) /\ Len(u) = i + 1 /\ v \in Seq(Byte) /\ Len(v) = i + 1
        BY <1>1, <2>1, <2>2 DEF Message
      <3>2. \A j \in 1..(i + 1) : u[j] = v[j]
        BY <1>1, <2>1, <2>2 DEF Message
      <3> HIDE DEF u, v
      <3>3. u = v
        BY <3>1, <3>2, SeqEqual
      <3> QED
        BY <3>3 DEF u, v
    <2> QED
      BY <2>1, <2>2 DEF Receiver
  <1>5. s # <<>> /\ <<>> \in Seq(Message)
    BY <1>1, <1>3
  <1>6. PICK f \in [1..n -> Message] :
            /\ f[1] = s[1] /\ \A i \in 2..n : f[i] = f[i - 1] \o s[i]
            /\ FlattenSeq(s) = f[n]
    <2> HIDE DEF n, s
    <2>1. s \in Seq(Seq(Byte))
      BY <1>3 DEF Message
    <2> QED
      BY <1>3, <1>5, <2>1, FlattenUnfolds DEF Message
  <1> DEFINE T == {i \in Nat : Makes(Fresh, f[i], Read(i), <<>>)}
  <1>7. 1 \in T
    <2>1. 1 \in 1..n
      BY <1>1
    <2>2. Append(Fresh.frame, p[1]) = SubSeq(p, 1, 1)
      BY <1>1, <2>1 DEF Fresh, Message
    <2>3. Makes(Fresh, s[1], Read(1), <<>>)
      BY <1>1, <1>3, <2>1, <2>2, FreshType, EncodedByte DEF Fresh
    <2> HIDE DEF s, Read
    <2> QED
      BY <1>6, <2>3
  <1>8. ASSUME NEW i \in 1..(n - 1), i \in T PROVE i + 1 \in T
    <2>1. /\ i + 1 \in 2..n /\ i + 1 \in 1..n /\ i \in 1..n /\ (i + 1) - 1 = i
          /\ i + 1 \in Nat
      BY <1>1
    <2>2. Makes(Read(i), s[i + 1], Read(i + 1), <<>>)
      <3>1. /\ Read(i) \in Receiver /\ ~ Read(i).escaped
            /\ Append(Read(i).frame, p[i + 1]) = SubSeq(p, 1, i + 1)
        BY <1>4, <2>1
      <3>2. p[i + 1] \in Byte /\ s[i + 1] = EncodeByte(p[i + 1])
        BY <1>1, <1>3, <2>1
      <3>3. Makes(Read(i), EncodeByte(p[i + 1]),
                  [frame |-> Append(Read(i).frame, p[i + 1]), escaped |-> FALSE], <<>>)
        <4> HIDE DEF Read
        <4> QED
          BY <3>1, <3>2, EncodedByte
      <3> QED
        BY <3>1, <3>2, <3>3
    <2> HIDE DEF s, Read
    <2>3. f[i + 1] = f[i] \o s[i + 1] /\ f[i] \in Seq(Byte) /\ s[i + 1] \in Seq(Byte)
      BY <1>2, <1>3, <1>6, <2>1 DEF Message
    <2>4. Makes(Fresh, f[i] \o s[i + 1], Read(i + 1), <<>> \o <<>>)
      BY <1>5, <1>8, <2>2, <2>3, MakesConcat
    <2>5. <<>> \o <<>> = <<>>
      OBVIOUS
    <2> QED
      BY <2>1, <2>3, <2>4, <2>5
  <1>9. Makes(Fresh, FlattenSeq(s), Read(n), <<>>) /\ FlattenSeq(s) \in Seq(Byte)
    <2>1. n \in Nat /\ n \in 1..n
      BY <1>1
    <2> HIDE DEF T
    <2>2. \A i \in 1..n : i \in T
      BY <1>7, <1>8, <2>1, UpTo
    <2>3. Makes(Fresh, f[n], Read(n), <<>>)
      BY <2>1, <2>2 DEF T
    <2> HIDE DEF Read, s
    <2> QED
      BY <1>6, <2>1, <2>3 DEF Message
  <1>10. Makes(Read(n), <<End>>, Fresh, <<p>>)
    <2>1. Read(n) \in Receiver /\ ~ Read(n).escaped /\ Read(n).frame = p
      BY <1>1, <1>4
    <2>2. End \in Byte /\ IsEnd(Read(n), End)
      BY <2>1 DEF IsEnd, End, Byte
    <2> HIDE DEF Read
    <2>3. Completes(Read(n), End) /\ AfterByte(Read(n), End) = Fresh
      BY <2>1, <2>2 DEF Completes, AfterByte
    <2> QED
      BY <2>1, <2>2, <2>3, MakesByte
  <1>11. <<End>> \in Seq(Byte) /\ <<p>> \in Seq(Message)
    BY DEF End, Byte
  <1>12. Makes(Fresh, FlattenSeq(s) \o <<End>>, Fresh, <<>> \o <<p>>)
    <2> HIDE DEF s, Read
    <2> QED
      BY <1>5, <1>9, <1>10, <1>11, MakesConcat
  <1>13. Encode(p) = FlattenSeq(s) \o <<End>>
    BY DEF Encode
  <1>14. <<>> \o <<p>> = <<p>>
    BY <1>11, ConcatEmptySeq
  <1> HIDE DEF s
  <1>15. FlattenSeq(s) \o <<End>> \in Seq(Byte) /\ FlattenSeq(s) \o <<End>> # <<>>
    BY <1>9, <1>11
  <1> QED
    BY <1>12, <1>13, <1>14, <1>15 DEF Message

LEMMA EncodeFramed ==
    ASSUME NEW p \in Message, p # <<>>
    PROVE  Encode(p) \in Seq(Byte) /\ Encode(p) # <<>> /\ Framed(Encode(p), FALSE)
  <1>1. Fresh.escaped = FALSE
    BY DEF Fresh
  <1> QED
    BY <1>1, EncodeMakes, MakesFramed DEF Message

-----------------------------------------------------------------------------
(* Queues of whole frames.                                                  *)

(* The reading of a queue carries over to what follows its first byte.      *)
LEMMA FramedTail ==
    ASSUME NEW q \in Seq(Byte), NEW e \in BOOLEAN, q # <<>>, Framed(q, e)
    PROVE  /\ Framed(Tail(q), ~ e /\ Head(q) = Esc)
           /\ Tail(q) = <<>> => Head(q) = End /\ ~ e
  <1> DEFINE n == Len(q)
             t == Tail(q)
  <1>1. /\ t \in Seq(Byte) /\ Len(t) = n - 1 /\ n \in Nat \ {0}
        /\ \A i \in 1..Len(t) : t[i] = q[i + 1]
        /\ Head(q) = q[1]
    OBVIOUS
  <1>2. PICK lit \in [1..n -> BOOLEAN] :
            /\ lit[1] = e
            /\ \A i \in 2..n : lit[i] = (q[i - 1] = Esc /\ ~ lit[i - 1])
            /\ q[n] = End /\ ~ lit[n]
    BY DEF Framed
  <1>3. CASE t = <<>>
    <2>1. n = 1
      BY <1>1, <1>3
    <2> QED
      BY <1>1, <1>2, <1>3, <2>1 DEF Framed
  <1>4. CASE t # <<>>
    <2> DEFINE rest == [i \in 1..Len(t) |-> lit[i + 1]]
    <2>1. Len(t) >= 1 /\ n >= 2
      BY <1>1, <1>4
    <2>2. rest \in [1..Len(t) -> BOOLEAN]
      BY <1>1, <1>2
    <2>3. rest[1] = (~ e /\ Head(q) = Esc)
      BY <1>1, <1>2, <2>1
    <2>4. \A i \in 2..Len(t) : rest[i] = (t[i - 1] = Esc /\ ~ rest[i - 1])
      BY <1>1, <1>2, <2>1
    <2>5. t[Len(t)] = End /\ ~ rest[Len(t)]
      BY <1>1, <1>2, <2>1
    <2> HIDE DEF rest
    <2> QED
      BY <1>4, <2>2, <2>3, <2>4, <2>5 DEF Framed
  <1> QED
    BY <1>3, <1>4

(* Whole frames may follow whole frames.                                    *)
LEMMA FramedConcat ==
    ASSUME NEW q \in Seq(Byte), NEW w \in Seq(Byte), NEW e \in BOOLEAN,
           Framed(q, e), Framed(w, FALSE), q = <<>> => ~ e
    PROVE  Framed(q \o w, e)
  <1>1. CASE q = <<>>
    <2>1. q \o w = w /\ e = FALSE
      BY <1>1, ConcatEmptySeq
    <2> QED
      BY <2>1
  <1>2. CASE w = <<>>
    <2>1. q \o w = q
      BY <1>2, ConcatEmptySeq
    <2> QED
      BY <2>1
  <1>3. CASE q # <<>> /\ w # <<>>
    <2> DEFINE m == Len(q)
               n == Len(w)
               s == q \o w
    <2>1. /\ m \in Nat \ {0} /\ n \in Nat \ {0}
          /\ s \in Seq(Byte) /\ Len(s) = m + n
          /\ \A i \in 1..m : s[i] = q[i]
          /\ \A i \in 1..n : s[m + i] = w[i]
      BY <1>3
    <2>2. PICK lq \in [1..m -> BOOLEAN] :
            /\ lq[1] = e
            /\ \A i \in 2..m : lq[i] = (q[i - 1] = Esc /\ ~ lq[i - 1])
            /\ q[m] = End /\ ~ lq[m]
      BY <1>3 DEF Framed
    <2>3. PICK lw \in [1..n -> BOOLEAN] :
            /\ lw[1] = FALSE
            /\ \A i \in 2..n : lw[i] = (w[i - 1] = Esc /\ ~ lw[i - 1])
            /\ w[n] = End /\ ~ lw[n]
      BY <1>3 DEF Framed
    <2> DEFINE lit == [i \in 1..(m + n) |-> IF i <= m THEN lq[i] ELSE lw[i - m]]
    <2>4. lit \in [1..(m + n) -> BOOLEAN]
      BY <2>1, <2>2, <2>3
    <2>5. lit[1] = e /\ s[m + n] = End /\ ~ lit[m + n]
      BY <2>1, <2>2, <2>3
    <2>6. ASSUME NEW i \in 2..(m + n)
          PROVE  lit[i] = (s[i - 1] = Esc /\ ~ lit[i - 1])
      <3>1. CASE i <= m
        BY <2>1, <2>2, <3>1
      <3>2. CASE i = m + 1
        <4>1. lit[i] = lw[1]
          BY <2>1, <3>2
        <4>2. s[i - 1] # Esc
          BY <2>1, <2>2, <3>2 DEF End, Esc
        <4> HIDE DEF lit, s
        <4> QED
          BY <2>3, <4>1, <4>2, Zenon
      <3>3. CASE i > m + 1
        <4> DEFINE j == i - m
        <4>1. j \in 2..n /\ i = m + j /\ i - 1 = m + (j - 1) /\ j - 1 \in 1..n
          BY <2>1, <3>3
        <4>2. lit[i] = lw[j] /\ lit[i - 1] = lw[j - 1] /\ s[i - 1] = w[j - 1]
          BY <2>1, <4>1
        <4> QED
          BY <2>3, <4>1, <4>2
      <3> QED
        BY <2>1, <3>1, <3>2, <3>3
    <2>7. Len(s) = m + n /\ s # <<>>
      BY <2>1
    <2> HIDE DEF lit, s, m, n
    <2>8. /\ lit \in [1..Len(s) -> BOOLEAN]
          /\ lit[1] = e
          /\ \A i \in 2..Len(s) : lit[i] = (s[i - 1] = Esc /\ ~ lit[i - 1])
          /\ s[Len(s)] = End /\ ~ lit[Len(s)]
      BY <2>4, <2>5, <2>6, <2>7, Zenon
    <2>9. Framed(s, e)
      BY <2>8, Zenon DEF Framed
    <2> QED
      BY <2>9 DEF s
  <1> QED
    BY <1>1, <1>2, <1>3

-----------------------------------------------------------------------------
(* The inductive invariant.                                                 *)
IInv ==
    /\ TypeOK
    /\ QueuesHoldWholeFrames
    /\ FramingAgrees
    /\ outEscaped => inFrame

(* One byte through the link's outgoing state and one through a receiver    *)
(* that agrees with it leave them agreeing.                                 *)
LEMMA AdvanceAgrees ==
    ASSUME NEW r \in Receiver, NEW b \in Byte, outEscaped \in BOOLEAN,
           r.escaped <=> outEscaped, AdvanceFrame(b)
    PROVE  /\ AfterByte(r, b).escaped <=> outEscaped'
           /\ AfterByte(r, b) # Fresh <=> inFrame'
  <1>1. /\ inFrame' <=> outEscaped \/ b # End
        /\ outEscaped' <=> ~ outEscaped /\ b = Esc
    BY DEF AdvanceFrame
  <1>2. CASE IsEnd(r, b)
    <2>1. AfterByte(r, b) = Fresh
      BY <1>2 DEF AfterByte
    <2>2. ~ outEscaped' /\ ~ inFrame'
      BY <1>1, <1>2 DEF IsEnd, End, Esc
    <2>3. ~ Fresh.escaped
      BY DEF Fresh
    <2> QED
      BY <2>1, <2>2, <2>3
  <1>3. CASE ~ IsEnd(r, b) /\ b = Esc /\ ~ r.escaped
    <2>1. AfterByte(r, b) = [r EXCEPT !.escaped = TRUE]
      BY <1>3 DEF AfterByte, Collect
    <2>2. AfterByte(r, b).escaped
      BY <2>1 DEF Receiver
    <2>3. AfterByte(r, b) # Fresh
      BY <2>2 DEF Fresh
    <2>4. outEscaped' /\ inFrame'
      BY <1>1, <1>3 DEF End, Esc
    <2> QED
      BY <2>2, <2>3, <2>4
  <1>4. CASE ~ IsEnd(r, b) /\ ~ (b = Esc /\ ~ r.escaped)
    <2>1. AfterByte(r, b) = [frame |-> Append(r.frame, b), escaped |-> FALSE]
      BY <1>4 DEF AfterByte, Collect
    <2>2. Append(r.frame, b) # <<>>
      BY DEF Receiver
    <2>3. AfterByte(r, b) # Fresh /\ ~ AfterByte(r, b).escaped
      BY <2>1, <2>2 DEF Fresh
    <2>4. ~ outEscaped' /\ inFrame'
      BY <1>1, <1>4 DEF IsEnd
    <2> QED
      BY <2>3, <2>4
  <1> QED
    BY <1>2, <1>3, <1>4

LEMMA InitIInv == Init => IInv
  <1> SUFFICES ASSUME Init PROVE IInv
    OBVIOUS
  <1>1. <<>> \in Seq(Byte) /\ Len(<<>>) = 0
    OBVIOUS
  <1>2. TypeOK
    <2>1. inbound = Fresh /\ rx = Fresh
      BY DEF Init
    <2>2. inbound \in Receiver /\ Len(inbound.frame) <= MaxFrame /\ rx \in Receiver
      BY <2>1, FreshType, CsiAssumption
    <2>3. data \in Byte /\ gap \in 0..IdleGap
      BY CsiAssumption DEF Init, Byte
    <2>4. /\ queue \in Seq(Byte) /\ Len(queue) <= MaxQueued
          /\ reply \in Seq(Byte) /\ Len(reply) <= MaxQueued
          /\ tx \in Seq(Byte)
      BY <1>1, CsiAssumption DEF Init
    <2>5. /\ control \in BOOLEAN /\ intEnable \in BOOLEAN /\ armed \in BOOLEAN
          /\ cardLive \in BOOLEAN /\ boxBusy \in BOOLEAN /\ txSeen \in BOOLEAN
          /\ ready \in BOOLEAN
          /\ inFrame \in BOOLEAN /\ sendingReply \in BOOLEAN /\ outEscaped \in BOOLEAN
      BY DEF Init
    <2> QED
      BY <2>2, <2>3, <2>4, <2>5 DEF TypeOK
  <1>3. QueuesHoldWholeFrames
    BY DEF Init, QueuesHoldWholeFrames, Framed
  <1>4. FramingAgrees
    BY DEF Init, FramingAgrees, Fresh
  <1> QED
    BY <1>2, <1>3, <1>4 DEF IInv, Init

-----------------------------------------------------------------------------
(* What joins the end of a queue is whole frames, and a queue that is empty *)
(* is not behind an escape.                                                 *)
LEMMA QueueAppend ==
    ASSUME IInv, NEW w \in Seq(Byte), Framed(w, FALSE)
    PROVE  /\ Framed(queue \o w, outEscaped /\ ~ sendingReply)
           /\ Framed(reply \o w, outEscaped /\ sendingReply)
  <1>1. queue \in Seq(Byte) /\ reply \in Seq(Byte)
    BY DEF IInv, TypeOK
  <1>2. /\ queue = <<>> => ~ (outEscaped /\ ~ sendingReply)
        /\ reply = <<>> => ~ (outEscaped /\ sendingReply)
    BY DEF IInv, TypeOK, QueuesHoldWholeFrames
  <1>3. /\ (outEscaped /\ ~ sendingReply) \in BOOLEAN
        /\ (outEscaped /\ sendingReply) \in BOOLEAN
    OBVIOUS
  <1>4. /\ Framed(queue, outEscaped /\ ~ sendingReply)
        /\ Framed(reply, outEscaped /\ sendingReply)
    BY DEF IInv, QueuesHoldWholeFrames
  <1> QED
    BY <1>1, <1>2, <1>3, <1>4, FramedConcat

LEMMA KeyStep ==
    ASSUME IInv, NEW p \in KeyPayloads, Key(p)
    PROVE  IInv'
  <1> DEFINE w == Encode(p)
  <1>1. w \in Seq(Byte) /\ w # <<>> /\ Framed(w, FALSE)
    BY EncodeFramed, CsiAssumption DEF Message
  <1> HIDE DEF w
  <1>2. queue' = queue \o w /\ Len(queue) + Len(w) <= MaxQueued
    BY DEF Key, w
  <1>3. queue' \in Seq(Byte) /\ Len(queue') <= MaxQueued /\ queue' # <<>>
    BY <1>1, <1>2 DEF IInv, TypeOK
  <1>4. TypeOK'
    BY <1>3 DEF Key, IInv, TypeOK, registers, guest
  <1>5. QueuesHoldWholeFrames'
    BY <1>1, <1>2, <1>3, QueueAppend DEF Key, IInv, QueuesHoldWholeFrames
  <1>6. FramingAgrees'
    BY DEF Key, IInv, FramingAgrees, guest, IsEnd, Collect
  <1> QED
    BY <1>4, <1>5, <1>6 DEF Key, IInv

LEMMA ReplyType ==
    ASSUME NEW f \in Seq(Byte), Len(f) >= 3
    PROVE  Reply(f) \in Message /\ Reply(f) # <<>>
  <1>1. f[2] \in Byte /\ f[3] \in Byte
    OBVIOUS
  <1>2. {0, 1, 2, 3, 4, 8, 255} \subseteq Byte
    BY DEF Byte
  <1> QED
    BY <1>1, <1>2 DEF Reply, ReplyPayload, Message

(* Switching the link on or off touches neither queue.                      *)
LEMMA SwitchStep ==
    ASSUME IInv, NEW on \in BOOLEAN, WriteControl(on) \/ WriteInterruptEnable(on)
    PROVE  IInv'
  <1>1. TypeOK'
    <2>1. CASE WriteControl(on)
      BY <2>1 DEF WriteControl, IInv, TypeOK, outbound, guest
    <2>2. CASE WriteInterruptEnable(on)
      BY <2>2 DEF WriteInterruptEnable, IInv, TypeOK, outbound, guest
    <2> QED  BY <2>1, <2>2
  <1>2. QueuesHoldWholeFrames'
    BY DEF WriteControl, WriteInterruptEnable, IInv, QueuesHoldWholeFrames, outbound
  <1>3. FramingAgrees'
    BY DEF WriteControl, WriteInterruptEnable, IInv, FramingAgrees, outbound, guest,
       IsEnd, Collect
  <1> QED
    BY <1>1, <1>2, <1>3 DEF WriteControl, WriteInterruptEnable, IInv, outbound

(* A guest byte may append a whole reply and touches nothing else that is   *)
(* outgoing.                                                                *)
LEMMA WriteDataStep ==
    ASSUME IInv, NEW b \in Byte, WriteData(b), tx' \in Seq(Byte)
    PROVE  IInv'
  <1>1. inbound \in Receiver /\ Len(inbound.frame) <= MaxFrame
    BY DEF IInv, TypeOK
  <1>2. inbound' \in Receiver /\ Len(inbound'.frame) <= MaxFrame
    <2>1. CASE IsEnd(inbound, b)
      BY <2>1, FreshType, CsiAssumption DEF WriteData, Accept
    <2>2. CASE ~ IsEnd(inbound, b)
      <3> DEFINE next == Collect(inbound, b)
      <3>1. next \in Receiver
        BY <1>1, CollectType
      <3>2. inbound' = IF Len(next.frame) > MaxFrame
                       THEN [frame |-> inbound.frame, escaped |-> FALSE] ELSE next
        BY <2>2 DEF WriteData, Accept
      <3> HIDE DEF next
      <3>3. Len(next.frame) \in Nat
        BY <3>1 DEF Receiver
      <3> QED
        BY <1>1, <3>1, <3>2, <3>3, CsiAssumption DEF Receiver
    <2> QED
      BY <2>1, <2>2
  <1>3. /\ reply' \in Seq(Byte) /\ Len(reply') <= MaxQueued
        /\ reply # <<>> => reply' # <<>>
        /\ Framed(reply', outEscaped /\ sendingReply)
    <2>1. CASE UNCHANGED reply
      BY <2>1 DEF IInv, TypeOK, QueuesHoldWholeFrames
    <2>2. CASE reply' # reply
      <3> DEFINE f == inbound.frame
                 w == Encode(Reply(f))
      <3>1. IsAnswered(f) /\ Len(reply) + Len(w) <= MaxQueued /\ reply' = reply \o w
        BY <2>2 DEF WriteData, Accept, Answer
      <3>2. f \in Seq(Byte) /\ Len(f) >= 3
        BY <1>1, <3>1 DEF Receiver, IsAnswered
      <3>3. Reply(f) \in Message /\ Reply(f) # <<>>
        BY <3>2, ReplyType
      <3>4. w \in Seq(Byte) /\ w # <<>> /\ Framed(w, FALSE)
        BY <3>3, EncodeFramed
      <3> HIDE DEF w
      <3>5. reply' \in Seq(Byte) /\ Len(reply') <= MaxQueued /\ reply' # <<>>
        BY <3>1, <3>4 DEF IInv, TypeOK
      <3> QED
        BY <3>1, <3>4, <3>5, QueueAppend
    <2> QED
      BY <2>1, <2>2
  <1>4. TypeOK'
    BY <1>2, <1>3 DEF WriteData, IInv, TypeOK, registers, guest
  <1>5. QueuesHoldWholeFrames'
    BY <1>3 DEF WriteData, IInv, QueuesHoldWholeFrames
  <1>6. FramingAgrees'
    BY DEF WriteData, IInv, FramingAgrees, guest, IsEnd, Collect
  <1> QED
    BY <1>4, <1>5, <1>6 DEF WriteData, IInv

LEMMA GuestStep ==
    ASSUME IInv, GuestNext
    PROVE  IInv'
  <1>1. CASE TransmitIdle
    <2>1. 0 \in Byte /\ tx' \in Seq(Byte)
      BY <1>1 DEF TransmitIdle, IInv, TypeOK, Byte
    <2> QED
      BY <1>1, <2>1, WriteDataStep DEF TransmitIdle
  <1>2. ASSUME NEW c \in Commands, TransmitCommand(c)
        PROVE  IInv'
    <2>1. Encode(c) \in Seq(Byte) /\ Encode(c) # <<>>
      BY EncodeFramed, CsiAssumption DEF Message
    <2>2. Head(Encode(c)) \in Byte /\ Tail(Encode(c)) \in Seq(Byte)
      BY <2>1
    <2> QED
      BY <1>2, <2>2, WriteDataStep DEF TransmitCommand
  <1>3. CASE TransmitNext
    <2>1. Head(tx) \in Byte /\ Tail(tx) \in Seq(Byte)
      BY <1>3 DEF TransmitNext, IInv, TypeOK
    <2> QED
      BY <1>3, <2>1, WriteDataStep DEF TransmitNext
  <1> QED
    BY <1>1, <1>2, <1>3 DEF GuestNext

(* The guest taking the byte makes real what FramingAgrees foresaw.         *)
LEMMA ReceiveStep ==
    ASSUME IInv, Receive
    PROVE  IInv'
  <1>1. rx' = AfterByte(rx, data) /\ ~ ready' /\ ready
    BY DEF Receive, AfterByte
  <1>2. rx' \in Receiver
    BY <1>1, FreshType, CollectType DEF AfterByte, IInv, TypeOK
  <1>3. TypeOK'
    BY <1>1, <1>2 DEF Receive, IInv, TypeOK, registers, budgets
  <1>4. FramingAgrees'
    BY <1>1 DEF Receive, IInv, FramingAgrees, AfterByte
  <1> QED
    BY <1>3, <1>4 DEF Receive, IInv, QueuesHoldWholeFrames

-----------------------------------------------------------------------------
(* The pump.                                                                *)

(* What leaves a queue leaves it in whole frames behind the byte taken.     *)
LEMMA TakeFirst ==
    ASSUME NEW q \in Seq(Byte), NEW e \in BOOLEAN, q # <<>>, Framed(q, e),
           outEscaped \in BOOLEAN, outEscaped <=> e, AdvanceFrame(Head(q))
    PROVE  /\ Framed(Tail(q), outEscaped')
           /\ inFrame' => Tail(q) # <<>>
           /\ outEscaped' => inFrame'
           /\ inFrame' \in BOOLEAN /\ outEscaped' \in BOOLEAN
  <1>1. /\ inFrame' <=> outEscaped \/ Head(q) # End
        /\ outEscaped' <=> ~ outEscaped /\ Head(q) = Esc
        /\ inFrame' \in BOOLEAN /\ outEscaped' \in BOOLEAN
    BY DEF AdvanceFrame
  <1>2. /\ Framed(Tail(q), ~ e /\ Head(q) = Esc)
        /\ Tail(q) = <<>> => Head(q) = End /\ ~ e
    BY FramedTail
  <1>3. outEscaped' = (~ e /\ Head(q) = Esc)
    BY <1>1
  <1>4. outEscaped' => inFrame'
    BY <1>1 DEF End, Esc
  <1>5. inFrame' => Tail(q) # <<>>
    BY <1>1, <1>2
  <1> QED
    BY <1>1, <1>2, <1>3, <1>4, <1>5

(* The guest had taken the byte before, so what it becomes with the new one *)
(* is what the link foresees.                                               *)
LEMMA PresentAgrees ==
    ASSUME IInv, NEW b \in Byte, NEW powered \in BOOLEAN, MayPresent(powered),
           Present(b, powered), AdvanceFrame(b), UNCHANGED rx
    PROVE  FramingAgrees'
  <1>1. rx \in Receiver /\ outEscaped \in BOOLEAN /\ ~ ready
    BY DEF IInv, TypeOK, MayPresent
  <1>2. rx.escaped <=> outEscaped
    BY <1>1 DEF IInv, FramingAgrees
  <1>3. /\ AfterByte(rx, b).escaped <=> outEscaped'
        /\ AfterByte(rx, b) # Fresh <=> inFrame'
    BY <1>1, <1>2, AdvanceAgrees
  <1>4. ready' /\ data' = b /\ rx' = rx
    BY DEF Present
  <1> QED
    BY <1>3, <1>4 DEF FramingAgrees, AfterByte

LEMMA PresentType ==
    ASSUME IInv, NEW b \in Byte, NEW powered \in BOOLEAN, Present(b, powered)
    PROVE  /\ data' \in Byte /\ ready' \in BOOLEAN /\ gap' \in 0..IdleGap
           /\ cardLive' \in BOOLEAN
  BY CsiAssumption DEF Present, IInv, TypeOK, CardUp

LEMMA PumpReplyStep ==
    ASSUME IInv, NEW powered \in BOOLEAN, PumpReply(powered)
    PROVE  IInv'
  <1>1. /\ reply \in Seq(Byte) /\ reply # <<>> /\ Len(reply) <= MaxQueued
        /\ outEscaped \in BOOLEAN /\ inFrame \in BOOLEAN /\ sendingReply \in BOOLEAN
        /\ Head(reply) \in Byte /\ Tail(reply) \in Seq(Byte)
        /\ Len(Tail(reply)) <= MaxQueued
    BY CsiAssumption DEF PumpReply, FromReply, IInv, TypeOK
  (* The wire was free or already the card's: a handset frame that has      *)
  (* begun has bytes left and keeps it.                                     *)
  <1>2. inFrame => sendingReply
    BY DEF PumpReply, FromReply, FromQueue, IInv, QueuesHoldWholeFrames
  <1>3. /\ Framed(reply, outEscaped)
        /\ Framed(queue, FALSE)
    <2>1. outEscaped => sendingReply
      BY <1>2 DEF IInv
    <2>2. /\ (outEscaped /\ sendingReply) = outEscaped
          /\ (outEscaped /\ ~ sendingReply) = FALSE
      BY <1>1, <2>1
    <2>3. /\ Framed(queue, outEscaped /\ ~ sendingReply)
          /\ Framed(reply, outEscaped /\ sendingReply)
      BY DEF IInv, QueuesHoldWholeFrames
    <2> QED
      BY <2>2, <2>3
  <1>4. /\ AdvanceFrame(Head(reply)) /\ Present(Head(reply), powered) /\ MayPresent(powered)
        /\ reply' = Tail(reply) /\ queue' = queue /\ sendingReply' = TRUE
        /\ txSeen' = FALSE /\ UNCHANGED <<registers, boxBusy, inbound, tx, guest>>
    BY DEF PumpReply
  <1>5. /\ Framed(Tail(reply), outEscaped')
        /\ inFrame' => Tail(reply) # <<>>
        /\ outEscaped' => inFrame'
        /\ inFrame' \in BOOLEAN /\ outEscaped' \in BOOLEAN
    BY <1>1, <1>3, <1>4, TakeFirst
  <1>6. TypeOK'
    BY <1>1, <1>4, <1>5, PresentType DEF IInv, TypeOK, registers, guest
  <1>7. QueuesHoldWholeFrames'
    <2>1. /\ (outEscaped' /\ sendingReply') = outEscaped'
          /\ (outEscaped' /\ ~ sendingReply') = FALSE
      BY <1>4, <1>5
    <2> QED
      BY <1>3, <1>4, <1>5, <2>1 DEF QueuesHoldWholeFrames
  <1>8. FramingAgrees'
    BY <1>1, <1>4, PresentAgrees DEF guest
  <1> QED
    BY <1>5, <1>6, <1>7, <1>8 DEF IInv

LEMMA PumpQueueStep ==
    ASSUME IInv, NEW powered \in BOOLEAN, PumpQueue(powered)
    PROVE  IInv'
  <1>1. /\ queue \in Seq(Byte) /\ queue # <<>> /\ Len(queue) <= MaxQueued
        /\ outEscaped \in BOOLEAN /\ inFrame \in BOOLEAN /\ sendingReply \in BOOLEAN
        /\ Head(queue) \in Byte /\ Tail(queue) \in Seq(Byte)
        /\ Len(Tail(queue)) <= MaxQueued
    BY CsiAssumption DEF PumpQueue, FromQueue, IInv, TypeOK
  <1>2. inFrame => ~ sendingReply
    BY DEF PumpQueue, FromQueue, IInv, QueuesHoldWholeFrames
  <1>3. /\ Framed(queue, outEscaped)
        /\ Framed(reply, FALSE)
    <2>1. outEscaped => ~ sendingReply
      BY <1>2 DEF IInv
    <2>2. /\ (outEscaped /\ ~ sendingReply) = outEscaped
          /\ (outEscaped /\ sendingReply) = FALSE
      BY <1>1, <2>1
    <2>3. /\ Framed(queue, outEscaped /\ ~ sendingReply)
          /\ Framed(reply, outEscaped /\ sendingReply)
      BY DEF IInv, QueuesHoldWholeFrames
    <2> QED
      BY <2>2, <2>3
  <1>4. /\ AdvanceFrame(Head(queue)) /\ Present(Head(queue), powered) /\ MayPresent(powered)
        /\ queue' = Tail(queue) /\ reply' = reply /\ sendingReply' = FALSE
        /\ txSeen' = FALSE /\ UNCHANGED <<registers, boxBusy, inbound, tx, guest>>
    BY DEF PumpQueue
  <1>5. /\ Framed(Tail(queue), outEscaped')
        /\ inFrame' => Tail(queue) # <<>>
        /\ outEscaped' => inFrame'
        /\ inFrame' \in BOOLEAN /\ outEscaped' \in BOOLEAN
    BY <1>1, <1>3, <1>4, TakeFirst
  <1>6. TypeOK'
    BY <1>1, <1>4, <1>5, PresentType DEF IInv, TypeOK, registers, guest
  <1>7. QueuesHoldWholeFrames'
    <2>1. /\ (outEscaped' /\ ~ sendingReply') = outEscaped'
          /\ (outEscaped' /\ sendingReply') = FALSE
      BY <1>4, <1>5
    <2> QED
      BY <1>3, <1>4, <1>5, <2>1 DEF QueuesHoldWholeFrames
  <1>8. FramingAgrees'
    BY <1>1, <1>4, PresentAgrees DEF guest
  <1> QED
    BY <1>5, <1>6, <1>7, <1>8 DEF IInv

(* With nothing queued no frame is leaving, so starting afresh is no change. *)
LEMMA PumpIdleStep ==
    ASSUME IInv, NEW powered \in BOOLEAN, PumpIdle(powered)
    PROVE  IInv'
  <1>1. ~ inFrame /\ ~ outEscaped
    BY DEF PumpIdle, IInv, QueuesHoldWholeFrames
  <1>2. /\ Present(End, powered) /\ MayPresent(powered)
        /\ inFrame' = FALSE /\ outEscaped' = FALSE
        /\ queue = <<>> /\ reply = <<>>
        /\ UNCHANGED <<registers, queue, reply, txSeen, sendingReply, boxBusy, inbound,
                       tx, guest>>
    BY DEF PumpIdle
  <1>3. End \in Byte /\ AdvanceFrame(End)
    <2>1. /\ (outEscaped \/ End # End) = FALSE
          /\ (~ outEscaped /\ End = Esc) = FALSE
      BY <1>1 DEF End, Esc
    <2>2. AdvanceFrame(End)
      BY <1>2, <2>1, Zenon DEF AdvanceFrame
    <2> QED
      BY <2>2 DEF End, Byte
  <1>4. TypeOK'
    BY <1>2, <1>3, PresentType DEF IInv, TypeOK, registers, guest
  <1>5. QueuesHoldWholeFrames'
    BY <1>2 DEF QueuesHoldWholeFrames, Framed
  <1>6. FramingAgrees'
    BY <1>2, <1>3, PresentAgrees DEF guest
  <1> QED
    BY <1>2, <1>4, <1>5, <1>6 DEF IInv

LEMMA PumpWaitsStep ==
    ASSUME IInv, NEW powered \in BOOLEAN, PumpWaits(powered)
    PROVE  IInv'
  <1>1. gap' \in 0..IdleGap /\ cardLive' \in BOOLEAN
    BY CsiAssumption DEF PumpWaits, Elapsed, CardUp, IInv, TypeOK
  <1>2. TypeOK'
    BY <1>1 DEF PumpWaits, IInv, TypeOK, registers, guest
  <1>3. QueuesHoldWholeFrames'
    BY DEF PumpWaits, IInv, QueuesHoldWholeFrames
  <1>4. FramingAgrees'
    BY DEF PumpWaits, IInv, FramingAgrees, guest, IsEnd, Collect
  <1> QED
    BY <1>2, <1>3, <1>4 DEF PumpWaits, IInv

-----------------------------------------------------------------------------
LEMMA StutterStep ==
    ASSUME IInv, UNCHANGED vars
    PROVE  IInv'
  <1>1. TypeOK'
    BY DEF IInv, TypeOK, vars, registers, outbound, guest
  <1>2. QueuesHoldWholeFrames'
    BY DEF IInv, QueuesHoldWholeFrames, vars, outbound
  <1>3. FramingAgrees'
    BY DEF IInv, FramingAgrees, vars, outbound, guest, IsEnd, Collect
  <1> QED
    BY <1>1, <1>2, <1>3 DEF IInv, vars, outbound

LEMMA NextStep == IInv /\ [Next]_vars => IInv'
  <1> SUFFICES ASSUME IInv, [Next]_vars PROVE IInv'
    OBVIOUS
  <1>1. CASE \E p \in KeyPayloads : Key(p)
    BY <1>1, KeyStep
  <1>2. CASE \E on \in BOOLEAN : WriteControl(on) \/ WriteInterruptEnable(on)
    BY <1>2, SwitchStep
  <1>3. CASE GuestNext
    BY <1>3, GuestStep
  <1>4. CASE Receive
    BY <1>4, ReceiveStep
  <1>5. CASE \E powered \in BOOLEAN : Pump(powered)
    BY <1>5, PumpReplyStep, PumpQueueStep, PumpIdleStep, PumpWaitsStep DEF Pump
  <1>6. CASE UNCHANGED vars
    BY <1>6, StutterStep
  <1> QED
    BY <1>1, <1>2, <1>3, <1>4, <1>5, <1>6 DEF Next

(* A pump that puts a byte on the wire in the middle of a frame takes it    *)
(* from the source the frame is from.                                       *)
LEMMA PumpNeverSplices ==
    ASSUME IInv, Next, ~ ready, ready', inFrame
    PROVE  sendingReply' = sendingReply /\ <<queue', reply'>> # <<queue, reply>>
  <1>1. /\ inFrame \in BOOLEAN /\ sendingReply \in BOOLEAN
        /\ queue \in Seq(Byte) /\ reply \in Seq(Byte)
    BY DEF IInv, TypeOK
  <1>2. IF sendingReply THEN reply # <<>> ELSE queue # <<>>
    BY DEF IInv, QueuesHoldWholeFrames
  <1>3. PICK powered \in BOOLEAN : Pump(powered)
    BY DEF Next, Key, WriteControl, WriteInterruptEnable, GuestNext, TransmitIdle,
       TransmitCommand, TransmitNext, WriteData, Receive, outbound
  <1>4. CASE PumpReply(powered)
    <2>1. sendingReply' = sendingReply
      BY <1>1, <1>2, <1>4 DEF PumpReply, FromReply, FromQueue
    <2>2. reply' # reply
      BY <1>1, <1>4 DEF PumpReply, FromReply
    <2> QED
      BY <2>1, <2>2
  <1>5. CASE PumpQueue(powered)
    <2>1. sendingReply' = sendingReply
      BY <1>1, <1>2, <1>5 DEF PumpQueue, FromQueue
    <2>2. queue' # queue
      BY <1>1, <1>5 DEF PumpQueue, FromQueue
    <2> QED
      BY <2>1, <2>2
  <1>6. ~ PumpIdle(powered)
    BY <1>2 DEF PumpIdle
  <1>7. ~ PumpWaits(powered)
    BY DEF PumpWaits
  <1> QED
    BY <1>3, <1>4, <1>5, <1>6, <1>7 DEF Pump

-----------------------------------------------------------------------------
(* The link implements the wire of CsiWire.                                 *)

Answers == {Reply(c) : c \in {d \in Commands : Len(d) >= 3}}

(* The byte the guest has not taken yet.                                    *)
Held == IF ready THEN <<data>> ELSE <<>>

(* What the guest's de-framer still makes, of the byte held and the queue   *)
(* that has the wire, and behind that of the other queue, is what either    *)
(* source is owed.                                                          *)
Owing ==
    /\ owedKeys \in Seq(Message) /\ owedReplies \in Seq(Message)
    /\ IF sendingReply
       THEN Makes(rx, Held \o reply, Fresh, owedReplies) /\ Makes(Fresh, queue, Fresh, owedKeys)
       ELSE Makes(rx, Held \o queue, Fresh, owedKeys) /\ Makes(Fresh, reply, Fresh, owedReplies)

(* accept() has kept of the guest's frame what fits, and its end.           *)
IsKept(kept, r) ==
    /\ kept.escaped = r.escaped
    /\ Len(kept.frame) <= Len(r.frame)
    /\ \A i \in 1..Len(kept.frame) : kept.frame[i] = r.frame[i]
    /\ Len(kept.frame) < MaxFrame => kept.frame = r.frame

(* What the guest is transmitting is commands, of which the link has heard  *)
(* the beginning.                                                           *)
Heard ==
    \E r \in Receiver, o \in Seq(Commands) : Makes(r, tx, Fresh, o) /\ IsKept(inbound, r)

Refined == IInv /\ Owing /\ Heard

WireStep == [Wire!Next]_(Wire!wireVars)

LEMMA HeldType == ASSUME IInv PROVE Held \in Seq(Byte)
  BY DEF IInv, TypeOK, Held

(* A frame that joins the end of a queue adds its message.                  *)
LEMMA FrameJoins ==
    ASSUME NEW x, NEW h \in Seq(Byte), NEW q \in Seq(Byte), NEW o \in Seq(Message),
           NEW p \in Message, p # <<>>, Makes(x, h \o q, Fresh, o)
    PROVE  Makes(x, h \o (q \o Encode(p)), Fresh, Append(o, p))
  <1>1. Encode(p) \in Seq(Byte) /\ Makes(Fresh, Encode(p), Fresh, <<p>>)
    BY EncodeMakes DEF Message
  <1>2. h \o q \in Seq(Byte) /\ <<p>> \in Seq(Message)
    OBVIOUS
  <1>3. Makes(x, (h \o q) \o Encode(p), Fresh, o \o <<p>>)
    BY <1>1, <1>2, MakesConcat
  <1>4. (h \o q) \o Encode(p) = h \o (q \o Encode(p))
    BY <1>1, ConcatAssociative
  <1>5. o \o <<p>> = Append(o, p)
    BY AppendIsConcat
  <1> QED
    BY <1>3, <1>4, <1>5

LEMMA FrameJoinsAlone ==
    ASSUME NEW q \in Seq(Byte), NEW o \in Seq(Message), NEW p \in Message, p # <<>>,
           Makes(Fresh, q, Fresh, o)
    PROVE  Makes(Fresh, q \o Encode(p), Fresh, Append(o, p))
  <1>1. <<>> \in Seq(Byte) /\ <<>> \o q = q
    BY ConcatEmptySeq
  <1>2. Encode(p) \in Seq(Byte)
    BY EncodeMakes DEF Message
  <1>3. q \o Encode(p) \in Seq(Byte)
    BY <1>2
  <1>4. <<>> \o (q \o Encode(p)) = q \o Encode(p)
    BY <1>3, ConcatEmptySeq
  <1>5. Makes(Fresh, <<>> \o q, Fresh, o)
    BY <1>1
  <1>6. Makes(Fresh, <<>> \o (q \o Encode(p)), Fresh, Append(o, p))
    BY <1>1, <1>5, FrameJoins
  <1> QED
    BY <1>4, <1>6

LEMMA InitRefined == Init => Refined /\ Wire!Init
  <1> SUFFICES ASSUME Init PROVE Refined /\ Wire!Init
    OBVIOUS
  <1>1. IInv
    BY InitIInv
  <1>2. /\ queue = <<>> /\ reply = <<>> /\ rx = Fresh /\ ready = FALSE /\ tx = <<>>
        /\ inbound = Fresh /\ owedKeys = <<>> /\ owedReplies = <<>> /\ received = <<>>
        /\ sendingReply = FALSE
    BY DEF Init
  <1>3. /\ <<>> \o <<>> = <<>>
        /\ <<>> \in Seq(Commands) /\ <<>> \in Seq(Message)
    <2>1. <<>> \in Seq(Byte)
      OBVIOUS
    <2>2. <<>> \in Seq(Commands)
      OBVIOUS
    <2>3. <<>> \in Seq(Message)
      OBVIOUS
    <2> QED
      BY <2>1, <2>2, <2>3, ConcatEmptySeq
  <1>4. Makes(Fresh, <<>>, Fresh, <<>>)
    BY <1>3, FreshType, MakesNothing
  <1>5. Owing
    BY <1>2, <1>3, <1>4 DEF Owing, Held
  <1>6. IsKept(Fresh, Fresh)
    BY FreshType DEF IsKept
  <1>7. Heard
    BY <1>2, <1>3, <1>4, <1>6, FreshType DEF Heard
  <1> QED
    BY <1>1, <1>2, <1>5, <1>7 DEF Refined, Wire!Init

LEMMA KeyRefines ==
    ASSUME Refined, NEW p \in KeyPayloads, Key(p)
    PROVE  Owing' /\ Heard' /\ WireStep
  <1>1. p \in Message /\ p # <<>>
    BY CsiAssumption DEF Message
  <1>2. /\ queue' = queue \o Encode(p) /\ owedKeys' = Append(owedKeys, p)
        /\ UNCHANGED <<data, ready, reply, sendingReply, inbound, tx, rx, received, owedReplies>>
    BY DEF Key, guest
  <1>3. /\ queue \in Seq(Byte) /\ Held \in Seq(Byte) /\ owedKeys \in Seq(Message)
        /\ owedReplies \in Seq(Message)
    BY HeldType DEF Refined, IInv, TypeOK, Owing
  <1>4. Held' = Held
    BY <1>2 DEF Held
  <1>5. Owing'
    <2>1. CASE sendingReply
      <3>1. Makes(rx, Held \o reply, Fresh, owedReplies) /\ Makes(Fresh, queue, Fresh, owedKeys)
        BY <2>1 DEF Refined, Owing
      <3>2. Makes(Fresh, queue \o Encode(p), Fresh, Append(owedKeys, p))
        BY <1>1, <1>3, <3>1, FrameJoinsAlone
      <3> QED
        BY <1>1, <1>2, <1>3, <1>4, <2>1, <3>1, <3>2 DEF Owing
    <2>2. CASE ~ sendingReply
      <3>1. Makes(rx, Held \o queue, Fresh, owedKeys) /\ Makes(Fresh, reply, Fresh, owedReplies)
        BY <2>2 DEF Refined, Owing
      <3>2. Makes(rx, Held \o (queue \o Encode(p)), Fresh, Append(owedKeys, p))
        BY <1>1, <1>3, <3>1, FrameJoins
      <3> QED
        BY <1>1, <1>2, <1>3, <1>4, <2>2, <3>1, <3>2 DEF Owing
    <2> QED
      BY <2>1, <2>2
  <1>6. Heard'
    BY <1>2 DEF Refined, Heard, IsKept
  <1>7. Wire!Press(p)
    BY <1>2 DEF Wire!Press
  <1> QED
    BY <1>5, <1>6, <1>7 DEF WireStep, Wire!Next

(* A reply that joins its queue is owed behind those waiting.               *)
LEMMA ReplyOwed ==
    ASSUME Refined, NEW p \in Message, p # <<>>,
           reply' = reply \o Encode(p), owedReplies' = Append(owedReplies, p),
           UNCHANGED <<data, ready, queue, sendingReply, rx, owedKeys>>
    PROVE  Owing'
  <1>1. /\ reply \in Seq(Byte) /\ Held \in Seq(Byte) /\ owedKeys \in Seq(Message)
        /\ owedReplies \in Seq(Message)
    BY HeldType DEF Refined, IInv, TypeOK, Owing
  <1>2. Held' = Held
    BY DEF Held
  <1>3. Append(owedReplies, p) \in Seq(Message)
    BY <1>1
  <1>4. CASE sendingReply
    <2>1. Makes(rx, Held \o reply, Fresh, owedReplies) /\ Makes(Fresh, queue, Fresh, owedKeys)
      BY <1>4 DEF Refined, Owing
    <2>2. Makes(rx, Held \o (reply \o Encode(p)), Fresh, Append(owedReplies, p))
      BY <1>1, <2>1, FrameJoins
    <2> QED
      BY <1>1, <1>2, <1>3, <1>4, <2>1, <2>2 DEF Owing
  <1>5. CASE ~ sendingReply
    <2>1. Makes(rx, Held \o queue, Fresh, owedKeys) /\ Makes(Fresh, reply, Fresh, owedReplies)
      BY <1>5 DEF Refined, Owing
    <2>2. Makes(Fresh, reply \o Encode(p), Fresh, Append(owedReplies, p))
      BY <1>1, <2>1, FrameJoinsAlone
    <2> QED
      BY <1>1, <1>2, <1>3, <1>5, <2>1, <2>2 DEF Owing
  <1> QED
    BY <1>4, <1>5

(* What accept keeps of a byte inside a frame is what fits of the frame.    *)
LEMMA KeptByte ==
    ASSUME NEW kept \in Receiver, Len(kept.frame) <= MaxFrame, NEW r \in Receiver,
           IsKept(kept, r), NEW b \in Byte
    PROVE  IsKept(IF Len(Collect(kept, b).frame) > MaxFrame
                  THEN [frame |-> kept.frame, escaped |-> FALSE] ELSE Collect(kept, b),
                  Collect(r, b))
  <1> DEFINE next == Collect(kept, b)
             new == IF Len(next.frame) > MaxFrame
                    THEN [frame |-> kept.frame, escaped |-> FALSE] ELSE next
             k == kept.frame
             f == r.frame
  <1>1. /\ kept.escaped = r.escaped
        /\ k \in Seq(Byte) /\ f \in Seq(Byte) /\ MaxFrame \in Nat
        /\ Len(k) \in Nat /\ Len(f) \in Nat /\ Len(k) <= MaxFrame /\ Len(k) <= Len(f)
        /\ \A i \in 1..Len(k) : k[i] = f[i]
        /\ Len(k) < MaxFrame => k = f
    BY CsiAssumption DEF IsKept, Receiver
  <1>2. CASE b = Esc /\ ~ kept.escaped
    <2>1. next.frame = k /\ next.escaped = TRUE
      BY <1>2 DEF Collect, Receiver
    <2>2. Collect(r, b).frame = f /\ Collect(r, b).escaped = TRUE
      BY <1>1, <1>2 DEF Collect, Receiver
    <2>3. new = next
      BY <1>1, <2>1
    <2> HIDE DEF next, new, k, f
    <2> QED
      BY <1>1, <2>1, <2>2, <2>3 DEF IsKept, next, new, k, f
  <1>3. CASE ~ (b = Esc /\ ~ kept.escaped)
    <2>1. next = [frame |-> Append(k, b), escaped |-> FALSE]
      BY <1>3, Zenon DEF Collect
    <2>2. Collect(r, b) = [frame |-> Append(f, b), escaped |-> FALSE]
      BY <1>1, <1>3, Zenon DEF Collect
    <2>3. /\ Len(Append(k, b)) = Len(k) + 1 /\ Len(Append(f, b)) = Len(f) + 1
          /\ \A i \in 1..Len(f) : Append(f, b)[i] = f[i]
      BY <1>1
    <2>4. CASE Len(k) < MaxFrame
      <3>1. k = f /\ new = next
        BY <1>1, <2>1, <2>3, <2>4
      <3>2. new.frame = Append(f, b) /\ new.escaped = FALSE
        BY <2>1, <3>1
      <3> HIDE DEF next, new
      <3>3. new = Collect(r, b)
        BY <2>1, <2>2, <3>1
      <3>4. IsKept(Collect(r, b), Collect(r, b))
        BY <1>1, <2>2, <2>3 DEF IsKept
      <3> QED
        BY <3>3, <3>4 DEF new, next
    <2>5. CASE Len(k) = MaxFrame
      <3>1. new = [frame |-> k, escaped |-> FALSE]
        BY <1>1, <2>1, <2>3, <2>5
      <3> HIDE DEF next, new, k, f
      <3>2. /\ Len(k) <= Len(Append(f, b))
            /\ \A i \in 1..Len(k) : k[i] = Append(f, b)[i]
        BY <1>1, <2>3
      <3>3. IsKept([frame |-> k, escaped |-> FALSE], [frame |-> Append(f, b), escaped |-> FALSE])
        BY <2>5, <3>2, <1>1 DEF IsKept
      <3>4. IsKept(new, Collect(r, b))
        BY <2>2, <3>1, <3>3
      <3> QED
        BY <3>4 DEF new, next, k
    <2> QED
      BY <1>1, <2>4, <2>5
  <1> QED
    BY <1>2, <1>3

(* A byte the guest writes, of the transmission t that it has left: an end  *)
(* of a command may be answered, and nothing else is.                       *)
LEMMA WriteDataRefines ==
    ASSUME Refined, NEW r \in Receiver, NEW t \in Seq(Byte), t # <<>>,
           NEW o \in Seq(Commands), Makes(r, t, Fresh, o), IsKept(inbound, r),
           WriteData(Head(t)), tx' = Tail(t)
    PROVE  Owing' /\ Heard' /\ WireStep
  <1> DEFINE b == Head(t)
             f == inbound.frame
  <1>1. /\ b \in Byte /\ inbound \in Receiver /\ Len(f) <= MaxFrame
        /\ f \in Seq(Byte) /\ r.frame \in Seq(Byte)
        /\ inbound.escaped = r.escaped /\ Len(f) <= Len(r.frame)
        /\ \A i \in 1..Len(f) : f[i] = r.frame[i]
    BY DEF Refined, IInv, TypeOK, Receiver, IsKept
  <1>2. Commands \subseteq Message /\ o \in Seq(Message)
    BY CsiAssumption DEF Message
  <1>3. IF Completes(r, b)
        THEN o # <<>> /\ Head(o) = r.frame /\ Makes(Fresh, tx', Fresh, Tail(o))
        ELSE Makes(AfterByte(r, b), tx', Fresh, o)
    BY <1>2, MakesTail
  <1>4. /\ UNCHANGED <<data, ready, queue, sendingReply, rx, received, owedKeys>>
        /\ Accept(b)
    BY DEF WriteData, guest
  <1>5. IsEnd(inbound, b) = IsEnd(r, b)
    BY <1>1 DEF IsEnd
  <1> HIDE DEF b
  <1>6. CASE ~ IsEnd(r, b)
    <2>1. /\ UNCHANGED <<reply, owedReplies>>
          /\ inbound' = IF Len(Collect(inbound, b).frame) > MaxFrame
                        THEN [frame |-> inbound.frame, escaped |-> FALSE]
                        ELSE Collect(inbound, b)
      BY <1>4, <1>5, <1>6 DEF Accept
    <2>2. IsKept(inbound', Collect(r, b))
      BY <1>1, <2>1, KeptByte
    <2>3. Makes(Collect(r, b), tx', Fresh, o) /\ Collect(r, b) \in Receiver
      BY <1>1, <1>3, <1>6, CollectType DEF Completes, AfterByte
    <2>4. Heard'
      BY <2>2, <2>3 DEF Heard
    <2>5. Owing'
      BY <1>4, <2>1 DEF Refined, Owing, Held
    <2> QED
      BY <1>4, <2>1, <2>4, <2>5 DEF WireStep, Wire!wireVars
  <1>7. CASE IsEnd(r, b)
    <2>1. inbound' = Fresh /\ Answer(f)
      BY <1>4, <1>5, <1>7 DEF Accept
    <2>2. IsKept(Fresh, Fresh)
      BY FreshType DEF IsKept
    <2>3. PICK rest \in Seq(Commands) : Makes(Fresh, tx', Fresh, rest)
      <3>1. CASE Completes(r, b)
        <4>1. Tail(o) \in Seq(Commands)
          BY <1>3, <3>1
        <4> QED
          BY <1>3, <3>1, <4>1
      <3>2. CASE ~ Completes(r, b)
        BY <1>3, <1>7, <3>2 DEF AfterByte
      <3> QED
        BY <3>1, <3>2
    <2>4. Heard'
      BY <2>1, <2>2, <2>3, FreshType DEF Heard
    <2>5. CASE IsAnswered(f) /\ Len(reply) + Len(Encode(Reply(f))) <= MaxQueued
      <3>1. reply' = reply \o Encode(Reply(f)) /\ owedReplies' = Append(owedReplies, Reply(f))
        BY <2>1, <2>5 DEF Answer
      <3>2. Len(f) >= 3
        BY <2>5 DEF IsAnswered
      <3>3. Reply(f) \in Message /\ Reply(f) # <<>>
        BY <1>1, <3>2, ReplyType
      <3>4. Owing'
        BY <1>4, <3>1, <3>3, ReplyOwed
      <3>5. r.frame \in Commands /\ Len(r.frame) >= 3
        <4>1. Completes(r, b)
          BY <1>1, <1>7, <3>2 DEF Completes
        <4>2. o # <<>> /\ Head(o) = r.frame
          BY <1>3, <4>1
        <4> QED
          BY <1>1, <3>2, <4>2
      <3>6. Reply(f) = Reply(r.frame)
        <4>1. f[2] = r.frame[2] /\ f[3] = r.frame[3]
          BY <1>1, <3>2
        <4> QED
          BY <4>1, Zenon DEF Reply
      <3>7. Reply(f) \in Answers
        BY <3>5, <3>6 DEF Answers
      <3>8. Wire!Answer(Reply(f))
        BY <1>4, <3>1 DEF Wire!Answer
      <3> QED
        BY <2>4, <3>4, <3>7, <3>8 DEF WireStep, Wire!Next, Answers
    <2>6. CASE ~ (IsAnswered(f) /\ Len(reply) + Len(Encode(Reply(f))) <= MaxQueued)
      <3>1. UNCHANGED <<reply, owedReplies>>
        BY <2>1, <2>6 DEF Answer
      <3>2. Owing'
        BY <1>4, <3>1 DEF Refined, Owing, Held
      <3> QED
        BY <1>4, <2>4, <3>1, <3>2 DEF WireStep, Wire!wireVars
    <2> QED
      BY <2>5, <2>6
  <1> QED
    BY <1>6, <1>7

LEMMA GuestRefines ==
    ASSUME Refined, GuestNext
    PROVE  Owing' /\ Heard' /\ WireStep
  <1>1. PICK r \in Receiver, o \in Seq(Commands) : Makes(r, tx, Fresh, o) /\ IsKept(inbound, r)
    BY DEF Refined, Heard
  <1>2. tx \in Seq(Byte) /\ Commands \subseteq Message /\ o \in Seq(Message)
    BY <1>1, CsiAssumption DEF Refined, IInv, TypeOK, Message
  (* Between commands the link has heard all there was.                     *)
  <1>3. tx = <<>> => IsKept(inbound, Fresh)
    BY <1>1, <1>2, MakesNothing
  <1>4. CASE TransmitIdle
    <2>1. 0 \in Byte /\ Fresh \in Receiver
      BY FreshType DEF Byte
    <2>2. AfterByte(Fresh, 0) = Fresh /\ ~ Completes(Fresh, 0)
      BY DEF AfterByte, Completes, IsEnd, Fresh, End
    <2>3. Makes(Fresh, <<0>>, Fresh, <<>>)
      BY <2>1, <2>2, MakesByte
    <2>4. <<0>> \in Seq(Byte) /\ <<0>> # <<>> /\ Head(<<0>>) = 0 /\ Tail(<<0>>) = <<>>
      BY <2>1
    <2>5. <<>> \in Seq(Commands)
      OBVIOUS
    <2>6. WriteData(0) /\ tx' = <<>> /\ IsKept(inbound, Fresh)
      BY <1>3, <1>4 DEF TransmitIdle
    <2> QED
      BY <2>1, <2>3, <2>4, <2>5, <2>6, WriteDataRefines
  <1>5. ASSUME NEW c \in Commands, TransmitCommand(c)
        PROVE  Owing' /\ Heard' /\ WireStep
    <2>1. c \in Message /\ c # <<>>
      BY <1>2, CsiAssumption
    <2>2. Encode(c) \in Seq(Byte) /\ Encode(c) # <<>> /\ Makes(Fresh, Encode(c), Fresh, <<c>>)
      BY <2>1, EncodeMakes DEF Message
    <2>3. <<c>> \in Seq(Commands)
      OBVIOUS
    <2>4. WriteData(Head(Encode(c))) /\ tx' = Tail(Encode(c)) /\ IsKept(inbound, Fresh)
      BY <1>3, <1>5 DEF TransmitCommand
    <2> QED
      BY <2>2, <2>3, <2>4, FreshType, WriteDataRefines
  <1>6. CASE TransmitNext
    <2>1. tx # <<>> /\ WriteData(Head(tx)) /\ tx' = Tail(tx)
      BY <1>6 DEF TransmitNext
    <2> QED
      BY <1>1, <1>2, <2>1, WriteDataRefines
  <1> QED
    BY <1>4, <1>5, <1>6 DEF GuestNext

-----------------------------------------------------------------------------
(* The guest's de-framer makes of the byte held what the source owes first. *)
LEMMA TakesHeld ==
    ASSUME NEW r \in Receiver, NEW b \in Byte, NEW q \in Seq(Byte), NEW o \in Seq(Message),
           Makes(r, <<b>> \o q, Fresh, o)
    PROVE  IF Completes(r, b)
           THEN o # <<>> /\ Head(o) = r.frame /\ Makes(Fresh, q, Fresh, Tail(o))
           ELSE Makes(AfterByte(r, b), q, Fresh, o)
  <1>1. /\ <<b>> \o q \in Seq(Byte) /\ <<b>> \o q # <<>>
        /\ Head(<<b>> \o q) = b
    OBVIOUS
  <1>2. Tail(<<b>> \o q) = q
    OBVIOUS
  <1> QED
    BY <1>1, <1>2, MakesTail

LEMMA ReceiveRefines ==
    ASSUME Refined, Receive
    PROVE  Owing' /\ Heard' /\ WireStep
  <1>1. /\ rx \in Receiver /\ data \in Byte /\ queue \in Seq(Byte) /\ reply \in Seq(Byte)
        /\ sendingReply \in BOOLEAN
        /\ owedKeys \in Seq(Message) /\ owedReplies \in Seq(Message)
    BY DEF Refined, IInv, TypeOK, Owing
  <1>2. /\ ready /\ ready' = FALSE /\ rx' = AfterByte(rx, data)
        /\ UNCHANGED <<data, queue, reply, sendingReply, inbound, tx>>
    BY DEF Receive, AfterByte
  <1>3. Held = <<data>> /\ Held' = <<>>
    BY <1>2 DEF Held
  <1>4. <<>> \o queue = queue /\ <<>> \o reply = reply
    BY <1>1, ConcatEmptySeq
  <1>5. Heard'
    BY <1>2 DEF Refined, Heard, IsKept
  <1>6. CASE Completes(rx, data)
    <2>1. /\ IsEnd(rx, data) /\ rx' = Fresh /\ received' = Append(received, rx.frame) /\ Settle
      BY <1>6 DEF Receive, Completes
    <2>2. CASE sendingReply
      <3>1. Makes(rx, <<data>> \o reply, Fresh, owedReplies) /\ Makes(Fresh, queue, Fresh, owedKeys)
        BY <1>3, <2>2 DEF Refined, Owing
      <3>2. /\ owedReplies # <<>> /\ Head(owedReplies) = rx.frame
            /\ Makes(Fresh, reply, Fresh, Tail(owedReplies))
        BY <1>1, <1>6, <3>1, TakesHeld
      <3>3. owedReplies' = Tail(owedReplies) /\ owedKeys' = owedKeys
        BY <2>1, <2>2 DEF Settle
      <3>4. Tail(owedReplies) \in Seq(Message)
        BY <1>1, <3>2
      <3>5. Owing'
        BY <1>1, <1>2, <1>3, <1>4, <2>1, <2>2, <3>1, <3>2, <3>3, <3>4 DEF Owing
      <3>6. Wire!DeliverAnswer
        BY <2>1, <3>2, <3>3 DEF Wire!DeliverAnswer
      <3> QED
        BY <1>5, <3>5, <3>6 DEF WireStep, Wire!Next
    <2>3. CASE ~ sendingReply
      <3>1. Makes(rx, <<data>> \o queue, Fresh, owedKeys) /\ Makes(Fresh, reply, Fresh, owedReplies)
        BY <1>3, <2>3 DEF Refined, Owing
      <3>2. /\ owedKeys # <<>> /\ Head(owedKeys) = rx.frame
            /\ Makes(Fresh, queue, Fresh, Tail(owedKeys))
        BY <1>1, <1>6, <3>1, TakesHeld
      <3>3. owedKeys' = Tail(owedKeys) /\ owedReplies' = owedReplies
        BY <2>1, <2>3 DEF Settle
      <3>4. Tail(owedKeys) \in Seq(Message)
        BY <1>1, <3>2
      <3>5. Owing'
        BY <1>1, <1>2, <1>3, <1>4, <2>1, <2>3, <3>1, <3>2, <3>3, <3>4 DEF Owing
      <3>6. Wire!DeliverKey
        BY <2>1, <3>2, <3>3 DEF Wire!DeliverKey
      <3> QED
        BY <1>5, <3>5, <3>6 DEF WireStep, Wire!Next
    <2> QED
      BY <2>2, <2>3
  <1>7. CASE ~ Completes(rx, data)
    <2>1. UNCHANGED <<received, owed>>
      BY <1>7 DEF Receive, Completes
    <2>2. owedKeys' = owedKeys /\ owedReplies' = owedReplies /\ received' = received
      BY <2>1 DEF owed
    <2>3. CASE sendingReply
      <3>1. Makes(rx, <<data>> \o reply, Fresh, owedReplies) /\ Makes(Fresh, queue, Fresh, owedKeys)
        BY <1>3, <2>3 DEF Refined, Owing
      <3>2. Makes(AfterByte(rx, data), reply, Fresh, owedReplies)
        BY <1>1, <1>7, <3>1, TakesHeld
      <3>3. Owing'
        BY <1>1, <1>2, <1>3, <1>4, <2>2, <2>3, <3>1, <3>2 DEF Owing
      <3> QED
        BY <1>5, <2>2, <3>3 DEF WireStep, Wire!wireVars
    <2>4. CASE ~ sendingReply
      <3>1. Makes(rx, <<data>> \o queue, Fresh, owedKeys) /\ Makes(Fresh, reply, Fresh, owedReplies)
        BY <1>3, <2>4 DEF Refined, Owing
      <3>2. Makes(AfterByte(rx, data), queue, Fresh, owedKeys)
        BY <1>1, <1>7, <3>1, TakesHeld
      <3>3. Owing'
        BY <1>1, <1>2, <1>3, <1>4, <2>2, <2>4, <3>1, <3>2 DEF Owing
      <3> QED
        BY <1>5, <2>2, <3>3 DEF WireStep, Wire!wireVars
    <2> QED
      BY <2>3, <2>4
  <1> QED
    BY <1>6, <1>7

(* With the register empty and no frame leaving, the guest's de-framer is   *)
(* where either source can begin.                                           *)
LEMMA WireFree ==
    ASSUME Refined, ~ ready
    PROVE  /\ ~ inFrame => rx = Fresh
           /\ sendingReply \/ ~ inFrame =>
                 Makes(rx, reply, Fresh, owedReplies) /\ Makes(Fresh, queue, Fresh, owedKeys)
           /\ ~ sendingReply \/ ~ inFrame =>
                 Makes(rx, queue, Fresh, owedKeys) /\ Makes(Fresh, reply, Fresh, owedReplies)
  <1>1. ~ inFrame => rx = Fresh
    BY DEF Refined, IInv, FramingAgrees, TypeOK
  <1>2. queue \in Seq(Byte) /\ reply \in Seq(Byte)
    BY DEF Refined, IInv, TypeOK
  <1>3. Held = <<>> /\ Held \o queue = queue /\ Held \o reply = reply
    BY <1>2, ConcatEmptySeq DEF Held
  <1>4. IF sendingReply
        THEN Makes(rx, reply, Fresh, owedReplies) /\ Makes(Fresh, queue, Fresh, owedKeys)
        ELSE Makes(rx, queue, Fresh, owedKeys) /\ Makes(Fresh, reply, Fresh, owedReplies)
    BY <1>3 DEF Refined, Owing
  <1> QED
    BY <1>1, <1>4

LEMMA HeadAndTail ==
    ASSUME NEW q \in Seq(Byte), q # <<>>
    PROVE  <<Head(q)>> \o Tail(q) = q
  OBVIOUS

LEMMA PumpReplyRefines ==
    ASSUME Refined, NEW powered \in BOOLEAN, PumpReply(powered)
    PROVE  Owing' /\ Heard' /\ WireStep
  <1>1. reply \in Seq(Byte) /\ reply # <<>> /\ ~ ready
    BY DEF PumpReply, FromReply, MayPresent, Refined, IInv, TypeOK
  <1>2. sendingReply \/ ~ inFrame
    BY DEF PumpReply, FromReply, FromQueue, Refined, IInv, QueuesHoldWholeFrames
  <1>3. Makes(rx, reply, Fresh, owedReplies) /\ Makes(Fresh, queue, Fresh, owedKeys)
    BY <1>1, <1>2, WireFree
  <1>4. /\ data' = Head(reply) /\ ready' = TRUE /\ reply' = Tail(reply) /\ sendingReply' = TRUE
        /\ UNCHANGED <<queue, inbound, tx, rx, received, owedKeys, owedReplies>>
    BY DEF PumpReply, Present, guest, owed
  <1>5. (Held \o reply)' = reply
    BY <1>1, <1>4, HeadAndTail DEF Held
  <1>6. Owing'
    BY <1>3, <1>4, <1>5 DEF Refined, Owing
  <1>7. Heard'
    BY <1>4 DEF Refined, Heard, IsKept
  <1> QED
    BY <1>4, <1>6, <1>7 DEF WireStep, Wire!wireVars

LEMMA PumpQueueRefines ==
    ASSUME Refined, NEW powered \in BOOLEAN, PumpQueue(powered)
    PROVE  Owing' /\ Heard' /\ WireStep
  <1>1. queue \in Seq(Byte) /\ queue # <<>> /\ ~ ready
    BY DEF PumpQueue, FromQueue, MayPresent, Refined, IInv, TypeOK
  <1>2. ~ sendingReply \/ ~ inFrame
    BY DEF PumpQueue, FromQueue, Refined, IInv, QueuesHoldWholeFrames
  <1>3. Makes(rx, queue, Fresh, owedKeys) /\ Makes(Fresh, reply, Fresh, owedReplies)
    BY <1>1, <1>2, WireFree
  <1>4. /\ data' = Head(queue) /\ ready' = TRUE /\ queue' = Tail(queue) /\ sendingReply' = FALSE
        /\ UNCHANGED <<reply, inbound, tx, rx, received, owedKeys, owedReplies>>
    BY DEF PumpQueue, Present, guest, owed
  <1>5. (Held \o queue)' = queue
    BY <1>1, <1>4, HeadAndTail DEF Held
  <1>6. Owing'
    BY <1>3, <1>4, <1>5 DEF Refined, Owing
  <1>7. Heard'
    BY <1>4 DEF Refined, Heard, IsKept
  <1> QED
    BY <1>4, <1>6, <1>7 DEF WireStep, Wire!wireVars

(* An idle zero between messages is no message.                             *)
LEMMA PumpIdleRefines ==
    ASSUME Refined, NEW powered \in BOOLEAN, PumpIdle(powered)
    PROVE  Owing' /\ Heard' /\ WireStep
  <1>1. ~ ready /\ ~ inFrame /\ queue = <<>> /\ reply = <<>>
    BY DEF PumpIdle, MayPresent, Refined, IInv, QueuesHoldWholeFrames
  <1>2. rx = Fresh /\ Makes(Fresh, <<>>, Fresh, owedReplies) /\ Makes(Fresh, <<>>, Fresh, owedKeys)
    BY <1>1, WireFree
  <1>3. owedKeys = <<>> /\ owedReplies = <<>>
    BY <1>2, FreshType, MakesNothing DEF Refined, Owing
  <1>4. /\ data' = End /\ ready' = TRUE
        /\ UNCHANGED <<queue, reply, sendingReply, inbound, tx, rx, received, owedKeys, owedReplies>>
    BY DEF PumpIdle, Present, guest, owed
  <1>5. Makes(Fresh, <<End>>, Fresh, <<>>)
    <2>1. AfterByte(Fresh, End) = Fresh /\ ~ Completes(Fresh, End) /\ End \in Byte
      BY DEF AfterByte, Completes, IsEnd, Fresh, End, Byte
    <2> QED
      BY <2>1, FreshType, MakesByte
  <1>6. Held' = <<End>> /\ <<End>> \o <<>> = <<End>>
    BY <1>4 DEF Held
  <1>7. Owing'
    BY <1>1, <1>2, <1>3, <1>4, <1>5, <1>6 DEF Refined, Owing
  <1>8. Heard'
    BY <1>4 DEF Refined, Heard, IsKept
  <1> QED
    BY <1>4, <1>7, <1>8 DEF WireStep, Wire!wireVars

LEMMA QuietRefines ==
    ASSUME Refined,
           UNCHANGED <<data, ready, queue, reply, sendingReply, inbound, tx, rx, received,
                       owedKeys, owedReplies>>
    PROVE  Owing' /\ Heard' /\ WireStep
  <1>1. Owing'
    BY DEF Refined, Owing, Held
  <1>2. Heard'
    BY DEF Refined, Heard, IsKept
  <1> QED
    BY <1>1, <1>2 DEF WireStep, Wire!wireVars

LEMMA NextRefined == Refined /\ [Next]_vars => Refined' /\ WireStep
  <1> SUFFICES ASSUME Refined, [Next]_vars PROVE Refined' /\ WireStep
    OBVIOUS
  <1>1. IInv'
    BY NextStep DEF Refined
  <1>2. Owing' /\ Heard' /\ WireStep
    <2>1. CASE \E p \in KeyPayloads : Key(p)
      BY <2>1, KeyRefines
    <2>2. CASE \E on \in BOOLEAN : WriteControl(on) \/ WriteInterruptEnable(on)
      <3>1. UNCHANGED <<data, ready, queue, reply, sendingReply, inbound, tx, rx, received,
                        owedKeys, owedReplies>>
        BY <2>2 DEF WriteControl, WriteInterruptEnable, outbound, guest, owed
      <3> QED
        BY <3>1, QuietRefines
    <2>3. CASE GuestNext
      BY <2>3, GuestRefines
    <2>4. CASE Receive
      BY <2>4, ReceiveRefines
    <2>5. ASSUME NEW powered \in BOOLEAN, PumpWaits(powered)
          PROVE  Owing' /\ Heard' /\ WireStep
      <3>1. UNCHANGED <<data, ready, queue, reply, sendingReply, inbound, tx, rx, received,
                        owedKeys, owedReplies>>
        BY <2>5 DEF PumpWaits, guest, owed
      <3> QED
        BY <3>1, QuietRefines
    <2>6. CASE \E powered \in BOOLEAN : Pump(powered)
      BY <2>5, <2>6, PumpReplyRefines, PumpQueueRefines, PumpIdleRefines DEF Pump
    <2>7. CASE UNCHANGED vars
      <3>1. UNCHANGED <<data, ready, queue, reply, sendingReply, inbound, tx, rx, received,
                        owedKeys, owedReplies>>
        BY <2>7 DEF vars, outbound, guest, owed
      <3> QED
        BY <3>1, QuietRefines
    <2> QED
      BY <2>1, <2>2, <2>3, <2>4, <2>6, <2>7 DEF Next
  <1> QED
    BY <1>1, <1>2 DEF Refined

(* One payload is one frame, and a receiver makes exactly that payload of   *)
(* it: Encode and the de-framer of accept are inverse, for every payload,   *)
(* the bytes that need an escape included.                                  *)
THEOREM FramingIsFaithful ==
    ASSUME NEW p \in Seq(Byte), p # <<>>
    PROVE  Encode(p) \in Seq(Byte) /\ Makes(Fresh, Encode(p), Fresh, <<p>>)
  BY EncodeMakes DEF Message

(* The link implements the wire of CsiWire: whatever the guest and the      *)
(* handset do, no message is split, lost, repeated or overtaken by a later  *)
(* one of its own source.                                                   *)
THEOREM LinkImplementsWire == Spec => ImplementsWire
  <1>1. Init => Refined /\ Wire!Init
    BY InitRefined
  <1>2. Refined /\ [Next]_vars => Refined' /\ [Wire!Next]_(Wire!wireVars)
    BY NextRefined DEF WireStep
  <1> QED
    BY <1>1, <1>2, PTL DEF Spec, ImplementsWire, Wire!Spec

-----------------------------------------------------------------------------
LEMMA Invariance == Spec => []IInv
  BY InitIInv, NextStep, PTL DEF Spec

(* The registers, queues and de-framers keep their types and limits:        *)
(* neither queue outgrows MaxQueuedBytes, no guest frame its 32 bytes.      *)
THEOREM TypeCorrect == Spec => []TypeOK
  BY Invariance, PTL DEF IInv

(* The queues always hold whole frames, so the pump never finds its source  *)
(* dry in the middle of one (Queue, Pump and advanceFrame of link.go).      *)
THEOREM FramesStayWhole == Spec => []QueuesHoldWholeFrames
  BY Invariance, PTL DEF IInv

(* The link and the guest agree on where frames end, escapes included.      *)
THEOREM EndsAgree == Spec => []FramingAgrees
  BY Invariance, PTL DEF IInv

(* Pump does not put a byte of one source, or an idle zero, inside a frame  *)
(* of the other.                                                            *)
THEOREM FramesAreNotSpliced == Spec => NeverSpliced
  <1>1. IInv /\ [Next]_vars =>
            [~ ready /\ ready' /\ inFrame =>
                /\ sendingReply' = sendingReply
                /\ <<queue', reply'>> # <<queue, reply>>]_vars
    BY PumpNeverSplices
  <1> QED
    BY <1>1, Invariance, PTL DEF Spec, NeverSpliced
=============================================================================
