--------------------------- MODULE PacketsProofs ---------------------------
(***************************************************************************)
(* Theorems about Packets: the parser of serial.c gives the same result in *)
(* whatever pieces the bytes are read, for any bytes; every frame that     *)
(* arrives gives its values, once and in order, for any frames; and the    *)
(* delays of time_ref.c are normal, for any times.                         *)
(***************************************************************************)
EXTENDS Packets, WellFoundedInduction, TLAPS

-----------------------------------------------------------------------------
(* A set of numbers has a least element. *)
LEMMA Least ==
  ASSUME NEW S \in SUBSET Nat, S # {}
  PROVE  \E x \in S : \A y \in S : x <= y
<1> DEFINE R == {p \in Nat \X Nat : p[1] < p[2]}
<1>1. IsWellFoundedOn(R, Nat)
  BY NatLessThanWellFounded DEF OpToRel
<1>2. PICK x \in S : \A y \in S : ~ (<<y, x>> \in R)
  <2> HIDE DEF R
  <2> QED
    BY <1>1, WFMin
<1>3. ASSUME NEW y \in S PROVE x <= y
  <2>1. x \in Nat /\ y \in Nat /\ <<y, x>> \in Nat \X Nat
    BY <1>3
  <2>2. ~ (y < x)
    BY <1>2, <1>3, <2>1
  <2> QED
    BY <2>1, <2>2
<1> QED
  BY <1>3

(* Induction over numbers, for a set instead of a predicate. *)
LEMMA Induction ==
  ASSUME NEW T \in SUBSET Nat, 0 \in T, \A n \in T : n + 1 \in T
  PROVE  T = Nat
<1> DEFINE S == Nat \ T
<1>1. SUFFICES ASSUME S # {} PROVE FALSE
  OBVIOUS
<1>2. PICK x \in S : \A y \in S : x <= y
  BY <1>1, Least
<1>3. x \in Nat /\ x # 0 /\ x - 1 \in Nat /\ ~ (x <= x - 1)
  BY <1>2
<1>4. x - 1 \in T
  BY <1>2, <1>3
<1>5. x - 1 + 1 \in T
  BY <1>4
<1> QED
  BY <1>2, <1>3, <1>5

(* What the recursion in ByteStates says. *)
Recurs(st, bs, k) ==
  st = [n \in 0..k |-> IF n = 0 THEN ByteInit ELSE ByteStep(st[n - 1], bs[n])]

(* There is such a function, so the definition of ByteStates means what it  *)
(* says: each state is one step from the one before.                        *)
LEMMA StatesExist ==
  ASSUME NEW bs \in Seq(Byte)
  PROVE  \E st : Recurs(st, bs, Len(bs))
<1> DEFINE T == {k \in Nat : \E st : Recurs(st, bs, k)}
<1>1. 0 \in T
  <2> DEFINE st == [n \in 0..0 |-> ByteInit]
  <2>1. Recurs(st, bs, 0)
    BY DEF Recurs
  <2> QED
    BY <2>1
<1>2. ASSUME NEW k \in T PROVE k + 1 \in T
  <2>1. PICK st : Recurs(st, bs, k)
    BY <1>2
  <2> DEFINE new == [n \in 0..k + 1 |-> IF n = k + 1 THEN ByteStep(st[k], bs[k + 1]) ELSE st[n]]
  <2>2. \A n \in 0..k : new[n] = st[n]
    BY <1>2
  <2>3. new[k + 1] = ByteStep(new[k], bs[k + 1])
    BY <1>2, <2>2
  <2>4. \A n \in 0..k + 1 :
          new[n] = IF n = 0 THEN ByteInit ELSE ByteStep(new[n - 1], bs[n])
    <3> SUFFICES ASSUME NEW n \in 0..k + 1
                 PROVE  new[n] = IF n = 0 THEN ByteInit ELSE ByteStep(new[n - 1], bs[n])
      OBVIOUS
    <3>1. CASE n = k + 1
      <4>1. n # 0 /\ n - 1 = k
        BY <1>2, <3>1
      <4> QED
        BY <3>1, <4>1, <2>3
    <3>2. CASE n # k + 1
      <4>1. n \in 0..k
        BY <1>2, <3>2
      <4>2. st[n] = IF n = 0 THEN ByteInit ELSE ByteStep(st[n - 1], bs[n])
        BY <4>1, <2>1 DEF Recurs
      <4>3. n # 0 => n - 1 \in 0..k
        BY <4>1
      <4> HIDE DEF new
      <4> QED
        BY <4>1, <4>2, <4>3, <2>2
    <3> QED
      BY <3>1, <3>2
  <2>5. Recurs(new, bs, k + 1)
    BY <2>4 DEF Recurs
  <2> QED
    BY <1>2, <2>5
<1>3. T = Nat
  <2>1. T \in SUBSET Nat
    OBVIOUS
  <2> HIDE DEF T
  <2> QED
    BY <1>1, <1>2, <2>1, Induction
<1>4. Len(bs) \in T
  <2>1. Len(bs) \in Nat
    OBVIOUS
  <2> HIDE DEF T
  <2> QED
    BY <2>1, <1>3
<1> QED
  BY <1>4

LEMMA StatesRecur ==
  ASSUME NEW bs \in Seq(Byte)
  PROVE  /\ ByteStates(bs)[0] = ByteInit
         /\ \A n \in 0..Len(bs) - 1 :
              ByteStates(bs)[n + 1] = ByteStep(ByteStates(bs)[n], bs[n + 1])
<1>1. ByteStates(bs) = CHOOSE st : Recurs(st, bs, Len(bs))
  BY DEF ByteStates, Recurs
<1>2. Recurs(ByteStates(bs), bs, Len(bs))
  BY <1>1, StatesExist
<1> QED
  BY <1>2 DEF Recurs

-----------------------------------------------------------------------------
(* Steps of the byte by byte protocol *)

State(st, len, idx, d, o, mh) ==
  [state |-> st, len |-> len, cur_idx |-> idx, data |-> d, outs |-> o, mh |-> mh]

(* After a look at b in search of the synchronisation byte. *)
Looked(b, len, idx, d, o, mh) ==
  State(IF b = SYNC_BYTE THEN "WAIT_LEN" ELSE "IDLE", len, idx, d, o, mh)

LEMMA StepIdle ==
  ASSUME NEW len, NEW i, NEW d, NEW o, NEW mh, NEW b
  PROVE  /\ Searched(State("IDLE", len, i, d, o, mh), b) = Looked(b, len, i, d, o, mh)
         /\ ByteStep(State("IDLE", len, i, d, o, mh), b) = Looked(b, len, i, d, o, mh)
BY DEF ByteStep, Searched, State, Looked

LEMMA StepLen ==
  ASSUME NEW len, NEW i, NEW d, NEW o, NEW mh, NEW b
  PROVE  ByteStep(State("WAIT_LEN", len, i, d, o, mh), b) =
           State("GET_PAYLOAD", b, 0, d, o, mh)
BY DEF ByteStep, State

LEMMA StepEmpty ==
  ASSUME NEW i, NEW d, NEW o, NEW mh, NEW b
  PROVE  ByteStep(State("GET_PAYLOAD", 0, i, d, o, mh), b) =
           Searched(Handled(State("GET_PAYLOAD", 0, i, d, o, mh)), b)
BY DEF ByteStep, State

LEMMA StepPayload ==
  ASSUME NEW len, NEW i, NEW d, NEW o, NEW mh, NEW b, len # 0
  PROVE  LET got == State("GET_PAYLOAD", len, i + 1, Overwrite(d, i, <<b>>), o, mh)
         IN ByteStep(State("GET_PAYLOAD", len, i, d, o, mh), b) =
              IF i + 1 = len THEN Handled(got) ELSE got
<1> DEFINE s == State("GET_PAYLOAD", len, i, d, o, mh)
           got == State("GET_PAYLOAD", len, i + 1, Overwrite(d, i, <<b>>), o, mh)
<1>1. Stored(s, b) = got
  <2>1. /\ s.state = "GET_PAYLOAD" /\ s.len = len /\ s.cur_idx = i
        /\ s.data = d /\ s.outs = o /\ s.mh = mh
    BY DEF State
  <2> HIDE DEF s
  <2> QED
    BY <2>1 DEF Stored, State
<1>2. s.state = "GET_PAYLOAD" /\ s.len = len /\ got.cur_idx = i + 1 /\ got.len = len
  BY DEF State
<1> HIDE DEF s, got
<1>3. ByteStep(s, b) = IF got.cur_idx = got.len THEN Handled(got) ELSE got
  BY <1>1, <1>2 DEF ByteStep
<1> QED
  BY <1>2, <1>3 DEF s, got

LEMMA HandledState ==
  ASSUME NEW st, NEW len, NEW i, NEW d, NEW o, NEW mh
  PROVE  Handled(State(st, len, i, d, o, mh)) =
           State("IDLE", len, i, d, o \o decode_pkt(d, len, mh).out,
                 decode_pkt(d, len, mh).mh)
<1> DEFINE s == State(st, len, i, d, o, mh)
<1>1. s.data = d /\ s.len = len /\ s.cur_idx = i /\ s.mh = mh /\ s.outs = o
  BY DEF State
<1> HIDE DEF s
<1>2. Handled(s) = State("IDLE", len, i, d, o \o decode_pkt(d, len, mh).out,
                         decode_pkt(d, len, mh).mh)
  BY <1>1 DEF Handled, State
<1> QED
  BY <1>2 DEF s

-----------------------------------------------------------------------------
(* Overwriting in pieces *)

LEMMA OverwriteType ==
  ASSUME NEW d \in Seq(Byte), NEW at \in Nat, NEW new \in Seq(Byte), at <= Len(d)
  PROVE  /\ Overwrite(d, at, new) \in Seq(Byte)
         /\ at + Len(new) <= Len(Overwrite(d, at, new))
<1> DEFINE m == IF at + Len(new) > Len(d) THEN at + Len(new) ELSE Len(d)
<1>1. m \in Nat /\ at + Len(new) <= m
  OBVIOUS
<1>2. \A i \in 1..m : (IF i > at /\ i <= at + Len(new) THEN new[i - at] ELSE d[i]) \in Byte
  OBVIOUS
<1>3. Overwrite(d, at, new) \in [1..m -> Byte]
  BY <1>2 DEF Overwrite
<1> HIDE DEF m
<1> QED
  BY <1>1, <1>3

LEMMA OverwriteNothing ==
  ASSUME NEW d \in Seq(Byte), NEW at \in Nat, at <= Len(d)
  PROVE  Overwrite(d, at, <<>>) = d
<1>1. Overwrite(d, at, <<>>) = [i \in 1..Len(d) |-> d[i]]
  BY DEF Overwrite
<1> QED
  BY <1>1

LEMMA OverwriteMore ==
  ASSUME NEW d \in Seq(Byte), NEW at \in Nat, at <= Len(d),
         NEW new \in Seq(Byte), NEW b \in Byte
  PROVE  Overwrite(Overwrite(d, at, new), at + Len(new), <<b>>) =
           Overwrite(d, at, Append(new, b))
<1> DEFINE e == Overwrite(d, at, new)
           n == Len(new)
           m == IF at + n > Len(d) THEN at + n ELSE Len(d)
           l == IF at + n + 1 > Len(d) THEN at + n + 1 ELSE Len(d)
<1>1. e \in Seq(Byte) /\ n \in Nat /\ m \in Nat /\ l \in Nat
  BY OverwriteType
<1>2. e = [i \in 1..m |-> IF i > at /\ i <= at + n THEN new[i - at] ELSE d[i]]
  BY DEF Overwrite
<1>3. Len(e) = m
  BY <1>1, <1>2
<1>4. (IF at + n + 1 > m THEN at + n + 1 ELSE m) = l
  BY <1>1
<1>5. Overwrite(e, at + n, <<b>>) =
        [i \in 1..l |-> IF i > at + n /\ i <= at + n + 1 THEN <<b>>[i - (at + n)] ELSE e[i]]
  <2> HIDE DEF e, m, l, n
  <2> QED
    BY <1>3, <1>4 DEF Overwrite
<1>6. Overwrite(d, at, Append(new, b)) =
        [i \in 1..l |-> IF i > at /\ i <= at + n + 1 THEN Append(new, b)[i - at] ELSE d[i]]
  BY DEF Overwrite
<1>7. ASSUME NEW i \in 1..l
      PROVE  (IF i > at + n /\ i <= at + n + 1 THEN <<b>>[i - (at + n)] ELSE e[i]) =
               (IF i > at /\ i <= at + n + 1 THEN Append(new, b)[i - at] ELSE d[i])
  <2> i \in Int
    BY <1>7
  <2>1. CASE i = at + n + 1
    BY <1>1, <2>1
  <2>2. CASE i > at /\ i < at + n + 1
    <3>1. i \in 1..m /\ i - at \in 1..n
      BY <1>1, <2>2
    <3>2. Append(new, b)[i - at] = new[i - at]
      BY <3>1
    <3>3. e[i] = new[i - at]
      BY <1>1, <1>2, <2>2, <3>1
    <3> HIDE DEF e, m, l, n
    <3> QED
      BY <1>1, <2>2, <3>2, <3>3
  <2>3. CASE i <= at \/ i > at + n + 1
    <3>1. i \in 1..m
      BY <1>1, <2>3
    <3> HIDE DEF e, m, l, n
    <3>2. e[i] = d[i]
      BY <1>1, <1>2, <2>3, <3>1
    <3> QED
      BY <1>1, <2>3, <3>2
  <2>4. at \in Int /\ n \in Int /\ i \in Int
    BY <1>1
  <2> HIDE DEF e, m, l, n
  <2>5. i = at + n + 1 \/ (i > at /\ i < at + n + 1) \/ i <= at \/ i > at + n + 1
    BY <2>4
  <2> QED
    BY <2>5, <2>1, <2>2, <2>3
<1> HIDE DEF e, m, l, n
<1>8. Overwrite(e, at + n, <<b>>) = Overwrite(d, at, Append(new, b))
  BY <1>5, <1>6, <1>7
<1> QED
  BY <1>8 DEF e, n

-----------------------------------------------------------------------------
(* What serial.c does in one go, the byte by byte protocol does in several  *)
(* steps.                                                                   *)

(* The k - 1 bytes after the first p are not synchronisation bytes. *)
Skipped(bs, p, k) ==
  /\ p \in Nat /\ k \in Nat /\ k > 0 /\ p + k <= Len(bs)
  /\ \A j \in 1..k - 1 : bs[p + j] # SYNC_BYTE

(* The search for the synchronisation byte skips k - 1 bytes and looks at   *)
(* one more.                                                                *)
LEMMA Search ==
  ASSUME NEW bs \in Seq(Byte), NEW p, NEW k, Skipped(bs, p, k),
         NEW len, NEW i, NEW d, NEW o, NEW mh,
         ByteStates(bs)[p + 1] = Looked(bs[p + 1], len, i, d, o, mh)
  PROVE  ByteStates(bs)[p + k] = Looked(bs[p + k], len, i, d, o, mh)
<1> USE DEF Skipped
<1> DEFINE S == ByteStates(bs)
           After(j) == Looked(bs[p + j], len, i, d, o, mh)
           T == {j \in Nat : j + 1 <= k => S[p + (j + 1)] = After(j + 1)}
<1>1. 0 \in T
  OBVIOUS
<1>2. ASSUME NEW j \in T PROVE j + 1 \in T
  <2> SUFFICES ASSUME j + 1 + 1 <= k PROVE S[p + (j + 1 + 1)] = After(j + 1 + 1)
    BY <1>2
  <2>1. j \in Nat /\ j + 1 \in 1..k - 1 /\ p + (j + 1) \in 0..Len(bs) - 1
    BY <1>2
  <2>2. S[p + (j + 1)] = State("IDLE", len, i, d, o, mh)
    <3>1. bs[p + (j + 1)] # SYNC_BYTE
      BY <2>1
    <3>2. S[p + (j + 1)] = After(j + 1)
      BY <1>2, <2>1
    <3> HIDE DEF S
    <3> QED
      BY <3>1, <3>2 DEF Looked
  <2>3. S[p + (j + 1) + 1] = ByteStep(S[p + (j + 1)], bs[p + (j + 1) + 1])
    BY <2>1, StatesRecur
  <2>4. p + (j + 1) + 1 = p + (j + 1 + 1)
    BY <2>1
  <2> HIDE DEF S
  <2> QED
    BY <2>2, <2>3, <2>4, StepIdle
<1>3. T = Nat
  <2>1. T \in SUBSET Nat
    OBVIOUS
  <2> HIDE DEF T
  <2> QED
    BY <1>1, <1>2, <2>1, Induction
<1>4. k - 1 \in Nat /\ k - 1 + 1 = k
  OBVIOUS
<1>5. k - 1 \in T
  <2> HIDE DEF T
  <2> QED
    BY <1>3, <1>4
<1> QED
  BY <1>4, <1>5

LEMMA SubSeqMore ==
  ASSUME NEW bs \in Seq(Byte), NEW p \in Nat, NEW j \in Nat, p + j < Len(bs)
  PROVE  /\ SubSeq(bs, p + 1, p + j) \in Seq(Byte)
         /\ Len(SubSeq(bs, p + 1, p + j)) = j
         /\ SubSeq(bs, p + 1, p + (j + 1)) =
              Append(SubSeq(bs, p + 1, p + j), bs[p + j + 1])
<1>1. /\ SubSeq(bs, p + 1, p + j) \in Seq(Byte)
      /\ Len(SubSeq(bs, p + 1, p + j)) = j
      /\ SubSeq(bs, p + 1, p + (j + 1)) \in Seq(Byte)
      /\ Len(SubSeq(bs, p + 1, p + (j + 1))) = j + 1
  OBVIOUS
<1>2. \A x \in 1..j + 1 :
        SubSeq(bs, p + 1, p + (j + 1))[x] =
          Append(SubSeq(bs, p + 1, p + j), bs[p + j + 1])[x]
  OBVIOUS
<1> QED
  BY <1>1, <1>2

(* There are k bytes to copy after the first p, and d takes them at i. *)
Copied(bs, p, k, len, i, d) ==
  /\ p \in Nat /\ k \in Nat /\ k > 0 /\ p + k <= Len(bs)
  /\ len \in Nat /\ i \in Nat /\ i <= Len(d) /\ i + k <= len

(* memcpy of k bytes, and the packet is handled if they complete it. *)
LEMMA Copy ==
  ASSUME NEW bs \in Seq(Byte), NEW p, NEW k, NEW len, NEW i, NEW d \in Seq(Byte),
         Copied(bs, p, k, len, i, d), NEW o, NEW mh,
         ByteStates(bs)[p] = State("GET_PAYLOAD", len, i, d, o, mh)
  PROVE  LET got == State("GET_PAYLOAD", len, i + k,
                          Overwrite(d, i, SubSeq(bs, p + 1, p + k)), o, mh)
         IN ByteStates(bs)[p + k] = IF i + k = len THEN Handled(got) ELSE got
<1> USE DEF Copied
<1> DEFINE S == ByteStates(bs)
           D(j) == Overwrite(d, i, SubSeq(bs, p + 1, p + j))
           Got(j) == State("GET_PAYLOAD", len, i + j, D(j), o, mh)
           T == {j \in Nat : j < k => S[p + j] = Got(j)}
<1>1. 0 \in T
  <2>1. SubSeq(bs, p + 1, p + 0) = <<>>
    OBVIOUS
  <2>2. D(0) = d
    BY <2>1, OverwriteNothing
  <2> QED
    BY <2>2
<1>2. ASSUME NEW j \in Nat, j < k, S[p + j] = Got(j)
      PROVE  S[p + (j + 1)] = IF i + (j + 1) = len THEN Handled(Got(j + 1)) ELSE Got(j + 1)
  <2>1. p + j \in 0..Len(bs) - 1 /\ p + j + 1 = p + (j + 1) /\ bs[p + j + 1] \in Byte
        /\ i + j + 1 = i + (j + 1) /\ len # 0
    BY <1>2
  <2>2. S[p + (j + 1)] = ByteStep(Got(j), bs[p + j + 1])
    BY <1>2, <2>1, StatesRecur
  <2>3. Overwrite(D(j), i + j, <<bs[p + j + 1]>>) = D(j + 1)
    <3> DEFINE new == SubSeq(bs, p + 1, p + j)
               b == bs[p + j + 1]
    <3>1. new \in Seq(Byte) /\ Len(new) = j /\ SubSeq(bs, p + 1, p + (j + 1)) = Append(new, b)
      <4>1. p + j < Len(bs)
        BY <1>2
      <4> QED
        BY <1>2, <4>1, SubSeqMore
    <3> HIDE DEF new, b
    <3>2. Overwrite(Overwrite(d, i, new), i + Len(new), <<b>>) = Overwrite(d, i, Append(new, b))
      BY <2>1, <3>1, OverwriteMore DEF b
    <3> QED
      BY <3>1, <3>2 DEF new, b
  <2> HIDE DEF S, D
  <2> QED
    BY <2>1, <2>2, <2>3, StepPayload
<1>3. ASSUME NEW j \in T PROVE j + 1 \in T
  <2> SUFFICES ASSUME j + 1 < k PROVE S[p + (j + 1)] = Got(j + 1)
    BY <1>3
  <2>1. j \in Nat /\ j < k /\ i + (j + 1) # len
    BY <1>3
  <2>2. S[p + j] = Got(j)
    BY <1>3, <2>1
  <2> HIDE DEF S, Got
  <2> QED
    BY <1>2, <2>1, <2>2
<1>4. T = Nat
  <2>1. T \in SUBSET Nat
    OBVIOUS
  <2> HIDE DEF T
  <2> QED
    BY <1>1, <1>3, <2>1, Induction
<1>5. k - 1 \in Nat /\ k - 1 < k /\ k - 1 + 1 = k
  OBVIOUS
<1>6. k - 1 \in T
  <2> HIDE DEF T
  <2> QED
    BY <1>4, <1>5
<1>7. S[p + (k - 1)] = Got(k - 1)
  BY <1>5, <1>6
<1>8. S[p + (k - 1 + 1)] =
        IF i + (k - 1 + 1) = len THEN Handled(Got(k - 1 + 1)) ELSE Got(k - 1 + 1)
  <2> HIDE DEF S, Got
  <2> QED
    BY <1>2, <1>5, <1>7
<1> HIDE DEF S, Got
<1>9. S[p + k] = IF i + k = len THEN Handled(Got(k)) ELSE Got(k)
  BY <1>5, <1>8
<1> QED
  BY <1>9 DEF S, Got

-----------------------------------------------------------------------------
(* Sequences *)

(* A sequence of anything. *)
IsSeq(s) == s \in Seq(Range(s))

(* A sequence of elements of a set is a sequence. *)
LEMMA SeqIs ==
  ASSUME NEW S, NEW s \in Seq(S)
  PROVE  IsSeq(s) /\ Len(s) \in Nat /\ DOMAIN s = 1..Len(s)
<1>1. Len(s) \in Nat /\ DOMAIN s = 1..Len(s) /\ s = [i \in 1..Len(s) |-> s[i]]
  OBVIOUS
<1>2. \A i \in 1..Len(s) : s[i] \in Range(s)
  BY <1>1 DEF Range
<1>3. s \in [1..Len(s) -> Range(s)]
  BY <1>1, <1>2
<1> QED
  BY <1>1, <1>3 DEF IsSeq

(* A sequence is the function of its elements. *)
LEMMA SeqFacts ==
  ASSUME NEW s, IsSeq(s)
  PROVE  Len(s) \in Nat /\ DOMAIN s = 1..Len(s) /\ s = [i \in 1..Len(s) |-> s[i]]
BY DEF IsSeq

(* A function on 1..n is a sequence of length n. *)
LEMMA SeqMake ==
  ASSUME NEW n \in Nat, NEW s, s = [i \in 1..n |-> s[i]]
  PROVE  IsSeq(s) /\ Len(s) = n
<1>1. \A i \in 1..n : s[i] \in Range(s)
  BY DEF Range
<1>2. s \in [1..n -> Range(s)]
  BY <1>1
<1> QED
  BY <1>2 DEF IsSeq

(* Sequences with the same elements are the same. *)
LEMMA SeqSame ==
  ASSUME NEW s, NEW t, IsSeq(s), IsSeq(t), Len(s) = Len(t),
         \A i \in 1..Len(s) : s[i] = t[i]
  PROVE  s = t
BY SeqFacts

(* The elements of s after the first at begin with those of t. *)
Holds(s, at, t) ==
  /\ at \in Nat /\ Len(s) \in Nat /\ Len(t) \in Nat /\ at + Len(t) <= Len(s)
  /\ \A i \in 1..Len(t) : s[at + i] = t[i]

(* A sequence holds itself. *)
LEMMA HoldsSelf ==
  ASSUME NEW s, IsSeq(s) PROVE Holds(s, 0, s)
BY SeqFacts DEF Holds

(* What is held in a part is held in the whole. *)
LEMMA HoldsWithin ==
  ASSUME NEW s, NEW t, NEW u, NEW a, NEW b, Holds(s, a, t), Holds(t, b, u)
  PROVE  Holds(s, a + b, u)
<1>1. /\ a \in Nat /\ b \in Nat /\ Len(s) \in Nat /\ Len(t) \in Nat /\ Len(u) \in Nat
      /\ a + Len(t) <= Len(s) /\ b + Len(u) <= Len(t)
  BY DEF Holds
<1>2. ASSUME NEW i \in 1..Len(u) PROVE s[a + b + i] = u[i]
  <2>1. b + i \in 1..Len(t) /\ a + (b + i) = a + b + i
    BY <1>1
  <2>2. t[b + i] = u[i]
    BY DEF Holds
  <2>3. s[a + (b + i)] = t[b + i]
    BY <2>1 DEF Holds
  <2> QED
    BY <2>1, <2>2, <2>3
<1>3. a + b \in Nat /\ a + b + Len(u) <= Len(s)
  BY <1>1
<1> QED
  BY <1>1, <1>2, <1>3 DEF Holds

(* What a concatenation is. *)
LEMMA Concat ==
  ASSUME NEW s, NEW t, IsSeq(s), IsSeq(t)
  PROVE  /\ IsSeq(s \o t) /\ Len(s \o t) = Len(s) + Len(t)
         /\ Len(s) \in Nat /\ Len(t) \in Nat
         /\ Holds(s \o t, 0, s) /\ Holds(s \o t, Len(s), t)
<1> DEFINE S == Range(s) \cup Range(t)
<1>1. s \in Seq(S) /\ t \in Seq(S)
  <2>1. \A i \in 1..Len(s) : s[i] \in S
    BY SeqFacts DEF Range
  <2>2. \A i \in 1..Len(t) : t[i] \in S
    BY SeqFacts DEF Range
  <2> HIDE DEF S
  <2> QED
    BY <2>1, <2>2, SeqFacts
<1> HIDE DEF S
<1>2. /\ s \o t \in Seq(S) /\ Len(s \o t) = Len(s) + Len(t)
      /\ Len(s) \in Nat /\ Len(t) \in Nat
  BY <1>1
<1>3. \A i \in 1..Len(s) : (s \o t)[0 + i] = s[i]
  BY <1>1
<1>4. \A i \in 1..Len(t) : (s \o t)[Len(s) + i] = t[i]
  BY <1>1
<1>5. IsSeq(s \o t)
  BY <1>2, SeqIs
<1> DEFINE u == s \o t
<1> HIDE DEF u
<1>6. Holds(u, 0, s) /\ Holds(u, Len(s), t)
  BY <1>2, <1>3, <1>4 DEF Holds, u
<1> QED
  BY <1>2, <1>5, <1>6 DEF u

(* The same, with the type of the elements. *)
LEMMA ConcatTyped ==
  ASSUME NEW S, NEW s \in Seq(S), NEW t \in Seq(S)
  PROVE  s \o t \in Seq(S) /\ Len(s \o t) = Len(s) + Len(t)
OBVIOUS

(* The empty sequence. *)
LEMMA EmptyIs == IsSeq(<<>>) /\ Len(<<>>) = 0
BY DEF IsSeq

(* A sequence that holds another of its length is that one. *)
LEMMA HoldsAll ==
  ASSUME NEW s, NEW t, IsSeq(s), IsSeq(t), Len(s) = Len(t), Holds(s, 0, t)
  PROVE  s = t
<1>1. \A i \in 1..Len(t) : s[0 + i] = t[i]
  BY DEF Holds
<1>2. \A i \in 1..Len(t) : s[i] = t[i]
  BY <1>1
<1> QED
  BY <1>2, SeqSame

(* The empty sequence adds nothing. *)
LEMMA ConcatEmpty ==
  ASSUME NEW s, IsSeq(s)
  PROVE  s \o <<>> = s /\ <<>> \o s = s
<1>1. IsSeq(s \o <<>>) /\ Len(s \o <<>>) = Len(s) + 0 /\ Holds(s \o <<>>, 0, s)
  BY EmptyIs, Concat
<1>2. IsSeq(<<>> \o s) /\ Len(<<>> \o s) = 0 + Len(s) /\ Holds(<<>> \o s, 0, s)
  BY EmptyIs, Concat
<1>3. Len(s) \in Nat
  BY SeqFacts
<1>4. Len(s) + 0 = Len(s) /\ 0 + Len(s) = Len(s)
  BY <1>3
<1> QED
  BY <1>1, <1>2, <1>4, HoldsAll

(* F[i] is the first i sequences of s, one after the other. *)
Joins(F, s) ==
  /\ IsSeq(s) /\ \A i \in 1..Len(s) : IsSeq(s[i])
  /\ F[0] = <<>>
  /\ \A i \in 0..Len(s) - 1 : F[i + 1] = F[i] \o s[i + 1]
  /\ \A i \in 0..Len(s) : IsSeq(F[i])

(* What the recursion in FlattenSeq says. *)
Flattened(f, s, k) ==
  f = [i \in 1..k |-> IF i = 1 THEN s[i] ELSE f[i - 1] \o s[i]]

(* FlattenSeq does what its recursion says. *)
LEMMA FlattenExists ==
  ASSUME NEW s
  PROVE  \A k \in Nat : \E f : Flattened(f, s, k)
<1> DEFINE T == {k \in Nat : \E f : Flattened(f, s, k)}
<1>1. 0 \in T
  <2> DEFINE f == [i \in 1..0 |-> <<>>]
  <2>1. Flattened(f, s, 0)
    BY DEF Flattened
  <2> QED
    BY <2>1
<1>2. ASSUME NEW k \in T PROVE k + 1 \in T
  <2>1. PICK f : Flattened(f, s, k)
    BY <1>2
  <2> DEFINE last == IF k + 1 = 1 THEN s[k + 1] ELSE f[k] \o s[k + 1]
             new == [i \in 1..k + 1 |-> IF i = k + 1 THEN last ELSE f[i]]
  <2>2. k \in Nat /\ \A i \in 1..k : new[i] = f[i]
    <3> HIDE DEF last
    <3> QED
      BY <1>2
  <2>3. new[k + 1] = last
    <3> HIDE DEF last
    <3> QED
      BY <2>2
  <2>4. \A i \in 1..k + 1 : new[i] = IF i = 1 THEN s[i] ELSE new[i - 1] \o s[i]
    <3> SUFFICES ASSUME NEW i \in 1..k + 1
                 PROVE  new[i] = IF i = 1 THEN s[i] ELSE new[i - 1] \o s[i]
      OBVIOUS
    <3>1. CASE i = k + 1
      <4>1. i # 1 => i - 1 = k /\ k \in 1..k
        BY <2>2, <3>1
      <4> HIDE DEF new
      <4> QED
        BY <2>2, <2>3, <3>1, <4>1
    <3>2. CASE i # k + 1
      <4>1. i \in 1..k /\ (i # 1 => i - 1 \in 1..k)
        BY <2>2, <3>2
      <4>2. f[i] = IF i = 1 THEN s[i] ELSE f[i - 1] \o s[i]
        BY <4>1, <2>1 DEF Flattened
      <4> HIDE DEF new
      <4> QED
        BY <2>2, <4>1, <4>2
    <3> QED
      BY <3>1, <3>2
  <2>5. Flattened(new, s, k + 1)
    BY <2>4 DEF Flattened
  <2> QED
    BY <2>2, <2>5
<1>3. T = Nat
  <2>1. T \in SUBSET Nat
    OBVIOUS
  <2> HIDE DEF T
  <2> QED
    BY <1>1, <1>2, <2>1, Induction
<1> QED
  BY <1>3

(* FlattenSeq joins the sequences of s. *)
LEMMA FlattenJoins ==
  ASSUME NEW s, IsSeq(s), \A i \in 1..Len(s) : IsSeq(s[i])
  PROVE  \E F : Joins(F, s) /\ FlattenSeq(s) = F[Len(s)]
<1> DEFINE n == Len(s)
           f == CHOOSE g : Flattened(g, s, n)
           F == [i \in 0..n |-> IF i = 0 THEN <<>> ELSE f[i]]
<1>1. n \in Nat
  BY SeqFacts
<1>2. Flattened(f, s, n)
  BY <1>1, FlattenExists
<1>3. FlattenSeq(s) = IF n = 0 THEN s ELSE f[n]
  BY DEF FlattenSeq, Flattened
<1>4. n = 0 => s = <<>>
  BY SeqFacts
<1>5. FlattenSeq(s) = F[n]
  <2> HIDE DEF f
  <2> QED
    BY <1>1, <1>3, <1>4
<1>6. \A i \in 1..n : (i = 1 => f[i] = s[i]) /\ (i # 1 => f[i] = f[i - 1] \o s[i])
  <2> HIDE DEF f, n
  <2>1. \A i \in 1..n : f[i] = IF i = 1 THEN s[i] ELSE f[i - 1] \o s[i]
    BY <1>2 DEF Flattened
  <2> QED
    BY <2>1, Zenon
<1> HIDE DEF f
<1>7. F[0] = <<>>
  BY <1>1
<1>8. \A i \in 0..n - 1 : F[i + 1] = F[i] \o s[i + 1]
  <2> SUFFICES ASSUME NEW i \in 0..n - 1 PROVE F[i + 1] = F[i] \o s[i + 1]
    OBVIOUS
  <2>1. i + 1 \in 1..n /\ i \in 0..n /\ i + 1 - 1 = i /\ i + 1 # 0 /\ i + 1 \in 0..n
    BY <1>1
  <2>2. F[i + 1] = f[i + 1] /\ F[i] = (IF i = 0 THEN <<>> ELSE f[i])
    BY <2>1
  <2> HIDE DEF F, n
  <2>3. CASE i = 0
    <3>1. F[i + 1] = s[i + 1] /\ F[i] = <<>>
      <4>1. i + 1 = 1
        BY <2>3
      <4> QED
        BY <1>6, <2>1, <2>2, <2>3, <4>1, Zenon
    <3>2. IsSeq(s[i + 1])
      BY <2>1 DEF n
    <3> QED
      BY <3>1, <3>2, ConcatEmpty
  <2>4. CASE i # 0
    <3>1. i + 1 # 1
      BY <2>1, <2>4
    <3>2. f[i + 1] = f[i] \o s[i + 1]
      <4> DEFINE j == i + 1
      <4>1. j \in 1..n /\ j # 1 /\ j - 1 = i
        BY <2>1, <3>1
      <4> HIDE DEF j
      <4>2. f[j] = f[j - 1] \o s[j]
        BY <1>6, <4>1, Zenon
      <4>3. f[j] = f[i] \o s[j]
        BY <4>1, <4>2, Zenon
      <4> QED
        BY <4>3 DEF j
    <3> QED
      BY <2>1, <2>2, <2>4, <3>2
  <2> QED
    BY <2>3, <2>4
<1> DEFINE T == {i \in Nat : i <= n => IsSeq(F[i])}
<1> HIDE DEF F, n
<1>9. 0 \in T
  BY <1>7, EmptyIs
<1>10. ASSUME NEW i \in T PROVE i + 1 \in T
  <2> SUFFICES ASSUME i + 1 <= n PROVE IsSeq(F[i + 1])
    BY <1>10
  <2>1. i \in 0..n - 1 /\ IsSeq(F[i]) /\ i + 1 \in 1..n
    BY <1>1, <1>10
  <2>2. F[i + 1] = F[i] \o s[i + 1] /\ IsSeq(s[i + 1])
    BY <1>8, <2>1 DEF n
  <2> QED
    BY <2>1, <2>2, Concat
<1>11. T = Nat
  <2>1. T \in SUBSET Nat
    OBVIOUS
  <2> HIDE DEF T
  <2> QED
    BY <1>9, <1>10, <2>1, Induction
<1>12. \A i \in 0..n : IsSeq(F[i])
  <2> SUFFICES ASSUME NEW i \in 0..n PROVE IsSeq(F[i])
    OBVIOUS
  <2>1. i \in T /\ i <= n
    <3> HIDE DEF T
    <3> QED
      BY <1>1, <1>11
  <2> QED
    BY <2>1
<1>13. Joins(F, s)
  BY <1>7, <1>8, <1>12 DEF Joins, n
<1> QED
  BY <1>5, <1>13 DEF n

(* One more sequence is joined. *)
LEMMA JoinsStep ==
  ASSUME NEW s, NEW F, Joins(F, s), NEW i \in 0..Len(s) - 1
  PROVE  /\ Len(F[i]) \in Nat /\ Len(s[i + 1]) \in Nat
         /\ Len(F[i + 1]) = Len(F[i]) + Len(s[i + 1])
         /\ Holds(F[i + 1], 0, F[i])
         /\ Holds(F[i + 1], Len(F[i]), s[i + 1])
<1>1. Len(s) \in Nat
  BY SeqFacts DEF Joins
<1>2. i \in 0..Len(s) /\ i + 1 \in 1..Len(s)
  BY <1>1
<1>3. IsSeq(F[i]) /\ IsSeq(s[i + 1]) /\ F[i + 1] = F[i] \o s[i + 1]
  BY <1>2 DEF Joins
<1> QED
  BY <1>3, Concat

(* A part stays where it is when more is joined. *)
LEMMA JoinsGrow ==
  ASSUME NEW s, NEW F, Joins(F, s), NEW i \in 0..Len(s), NEW j \in i..Len(s)
  PROVE  Holds(F[j], 0, F[i])
<1> DEFINE T == {k \in Nat : i + k <= Len(s) => Holds(F[i + k], 0, F[i])}
<1>1. Len(s) \in Nat /\ IsSeq(F[i])
  BY SeqFacts DEF Joins
<1>2. 0 \in T
  <2>1. i + 0 = i
    OBVIOUS
  <2> QED
    BY <1>1, <2>1, HoldsSelf
<1>3. ASSUME NEW k \in T PROVE k + 1 \in T
  <2> SUFFICES ASSUME i + (k + 1) <= Len(s) PROVE Holds(F[i + (k + 1)], 0, F[i])
    BY <1>3
  <2> DEFINE m == i + k
  <2>1. m \in 0..Len(s) - 1 /\ m + 1 = i + (k + 1)
    BY <1>1, <1>3
  <2>2. Holds(F[m], 0, F[i])
    BY <1>1, <1>3, <2>1
  <2> HIDE DEF m
  <2>3. Holds(F[m + 1], 0, F[m])
    BY <2>1, JoinsStep
  <2>4. Holds(F[m + 1], 0 + 0, F[i])
    BY <2>2, <2>3, HoldsWithin
  <2>5. 0 + 0 = 0
    OBVIOUS
  <2> QED
    BY <2>1, <2>4, <2>5
<1>4. T = Nat
  <2>1. T \in SUBSET Nat
    OBVIOUS
  <2> HIDE DEF T
  <2> QED
    BY <1>2, <1>3, <2>1, Induction
<1>5. j - i \in Nat /\ i + (j - i) = j /\ j <= Len(s)
  BY <1>1
<1>6. j - i \in T
  <2> HIDE DEF T
  <2> QED
    BY <1>4, <1>5
<1> QED
  BY <1>5, <1>6

(* Where the parts are in the whole. *)
LEMMA JoinsAt ==
  ASSUME NEW s, NEW F, Joins(F, s), NEW i \in 0..Len(s) - 1
  PROVE  Holds(F[Len(s)], Len(F[i]), s[i + 1])
<1> DEFINE n == Len(s)
           j == i + 1
<1>1. n \in Nat /\ j \in 0..n /\ n \in j..n
  BY SeqFacts DEF Joins
<1>2. Holds(F[j], Len(F[i]), s[j]) /\ Len(F[i]) \in Nat
  BY JoinsStep
<1> HIDE DEF j
<1>3. Holds(F[n], 0, F[j])
  BY <1>1, JoinsGrow
<1> HIDE DEF n
<1>4. Holds(F[n], 0 + Len(F[i]), s[j])
  BY <1>2, <1>3, HoldsWithin
<1>5. 0 + Len(F[i]) = Len(F[i])
  BY <1>2
<1> QED
  BY <1>4, <1>5 DEF n, j

(* What is joined keeps the type of the elements. *)
LEMMA JoinsTyped ==
  ASSUME NEW S, NEW s, NEW F, Joins(F, s), \A i \in 1..Len(s) : s[i] \in Seq(S)
  PROVE  F[Len(s)] \in Seq(S)
<1> DEFINE T == {i \in Nat : i <= Len(s) => F[i] \in Seq(S)}
<1>1. Len(s) \in Nat
  BY SeqFacts DEF Joins
<1>2. 0 \in T
  <2>1. F[0] = <<>> /\ <<>> \in Seq(S)
    BY DEF Joins
  <2> QED
    BY <2>1
<1>3. ASSUME NEW i \in T PROVE i + 1 \in T
  <2> SUFFICES ASSUME i + 1 <= Len(s) PROVE F[i + 1] \in Seq(S)
    BY <1>3
  <2>1. i \in 0..Len(s) - 1 /\ i + 1 \in 1..Len(s) /\ F[i] \in Seq(S)
    BY <1>1, <1>3
  <2>2. F[i + 1] = F[i] \o s[i + 1] /\ s[i + 1] \in Seq(S)
    BY <2>1 DEF Joins
  <2> QED
    BY <2>1, <2>2, ConcatTyped
<1>4. T = Nat
  <2>1. T \in SUBSET Nat
    OBVIOUS
  <2> HIDE DEF T
  <2> QED
    BY <1>2, <1>3, <2>1, Induction
<1>5. Len(s) \in T
  <2> HIDE DEF T
  <2> QED
    BY <1>1, <1>4
<1> QED
  BY <1>1, <1>5

(* Parts of the same length w. *)
LEMMA JoinsEven ==
  ASSUME NEW s, NEW F, Joins(F, s), NEW w \in Nat, \A i \in 1..Len(s) : Len(s[i]) = w
  PROVE  \A i \in 0..Len(s) : Len(F[i]) = i * w
<1> DEFINE T == {i \in Nat : i <= Len(s) => Len(F[i]) = i * w}
<1>1. Len(s) \in Nat
  BY SeqFacts DEF Joins
<1>2. 0 \in T
  <2>1. Len(F[0]) = 0
    BY EmptyIs DEF Joins
  <2>2. 0 * w = 0
    OBVIOUS
  <2> QED
    BY <2>1, <2>2
<1>3. ASSUME NEW i \in T PROVE i + 1 \in T
  <2> SUFFICES ASSUME i + 1 <= Len(s) PROVE Len(F[i + 1]) = (i + 1) * w
    BY <1>3
  <2>1. i \in 0..Len(s) - 1 /\ i + 1 \in 1..Len(s) /\ Len(F[i]) = i * w /\ i \in Nat
    BY <1>1, <1>3
  <2>2. Len(F[i + 1]) = Len(F[i]) + Len(s[i + 1]) /\ Len(s[i + 1]) = w
    BY <2>1, JoinsStep
  <2>3. i * w + w = (i + 1) * w
    BY <2>1
  <2> QED
    BY <2>1, <2>2, <2>3
<1>4. T = Nat
  <2>1. T \in SUBSET Nat
    OBVIOUS
  <2> HIDE DEF T
  <2> QED
    BY <1>2, <1>3, <2>1, Induction
<1>5. ASSUME NEW i \in 0..Len(s) PROVE Len(F[i]) = i * w
  <2>1. i \in T /\ i <= Len(s)
    <3> HIDE DEF T
    <3> QED
      BY <1>1, <1>4
  <2> QED
    BY <2>1
<1> QED
  BY <1>5

(* Sequences of one length are found at its multiples. *)
LEMMA FlattenEven ==
  ASSUME NEW S, NEW s \in Seq(Seq(S)), NEW w \in Nat, \A i \in 1..Len(s) : Len(s[i]) = w
  PROVE  /\ FlattenSeq(s) \in Seq(S) /\ Len(FlattenSeq(s)) = Len(s) * w
         /\ \A i \in 1..Len(s) : Holds(FlattenSeq(s), (i - 1) * w, s[i])
<1> DEFINE n == Len(s)
<1>1. /\ IsSeq(s) /\ n \in Nat /\ \A i \in 1..n : s[i] \in Seq(S)
  BY SeqIs
<1>2. \A i \in 1..n : IsSeq(s[i])
  BY <1>1, SeqIs
<1>3. PICK F : Joins(F, s) /\ FlattenSeq(s) = F[n]
  BY <1>1, <1>2, FlattenJoins
<1>4. F[n] \in Seq(S)
  BY <1>1, <1>3, JoinsTyped
<1>5. \A i \in 0..n : Len(F[i]) = i * w
  BY <1>3, JoinsEven
<1>6. ASSUME NEW i \in 1..n PROVE Holds(F[n], (i - 1) * w, s[i])
  <2> DEFINE j == i - 1
  <2>1. j \in 0..n - 1 /\ j \in 0..n /\ j + 1 = i
    BY <1>1
  <2> HIDE DEF j
  <2>2. Holds(F[n], Len(F[j]), s[j + 1])
    BY <1>3, <2>1, JoinsAt
  <2>3. Len(F[j]) = j * w
    BY <1>5, <2>1
  <2> QED
    BY <2>1, <2>2, <2>3 DEF j
<1>7. Len(F[n]) = n * w
  BY <1>1, <1>5
<1> HIDE DEF n
<1> QED
  BY <1>3, <1>4, <1>6, <1>7 DEF n

-----------------------------------------------------------------------------
(* Bytes, words and frames *)

(* Reading a packet's buffer. *)
LEMMA ReadAt ==
  ASSUME NEW d, NEW at, NEW v, Holds(d, at, v), NEW x \in 0..Len(v) - 1
  PROVE  At(d, at + x) = v[x + 1]
<1>1. at \in Nat /\ Len(d) \in Nat /\ Len(v) \in Nat /\ at + Len(v) <= Len(d)
  BY DEF Holds
<1>2. x + 1 \in 1..Len(v) /\ at + x < Len(d) /\ at + x + 1 = at + (x + 1)
  BY <1>1
<1>3. d[at + (x + 1)] = v[x + 1]
  BY <1>2 DEF Holds
<1> QED
  BY <1>2, <1>3 DEF At

(* Reading the first bytes of the buffer. *)
LEMMA ReadFirst ==
  ASSUME NEW d, NEW v, Holds(d, 0, v), NEW x \in 0..Len(v) - 1
  PROVE  At(d, x) = v[x + 1]
<1>1. At(d, 0 + x) = v[x + 1]
  BY ReadAt
<1>2. 0 + x = x
  OBVIOUS
<1> QED
  BY <1>1, <1>2

(* Reading the first two. *)
LEMMA ReadTwo ==
  ASSUME NEW d, NEW a, NEW b, Holds(d, 0, <<a, b>>)
  PROVE  At(d, 0) = a /\ At(d, 1) = b
<1>1. Len(d) \in Nat /\ 2 <= Len(d) /\ \A i \in 1..2 : d[0 + i] = <<a, b>>[i]
  BY DEF Holds
<1>2. d[0 + 1] = a /\ d[1 + 1] = b
  BY <1>1
<1> QED
  BY <1>1, <1>2 DEF At

(* Reading the first three. *)
LEMMA ReadThree ==
  ASSUME NEW d, NEW a, NEW b, NEW c, Holds(d, 0, <<a, b, c>>)
  PROVE  At(d, 0) = a /\ At(d, 1) = b /\ At(d, 2) = c
<1>1. Len(d) \in Nat /\ 3 <= Len(d) /\ \A i \in 1..3 : d[0 + i] = <<a, b, c>>[i]
  BY DEF Holds
<1>2. d[0 + 1] = a /\ d[1 + 1] = b /\ d[2 + 1] = c
  BY <1>1
<1> QED
  BY <1>1, <1>2 DEF At

(* The range of a byte. *)
LEMMA ByteIs == \A b \in Byte : b \in Nat /\ b <= 255
BY DEF Byte

(* A word is four bytes. *)
LEMMA WordFacts ==
  ASSUME NEW n \in Uint32s
  PROVE  Word(n) \in Seq(Byte) /\ Len(Word(n)) = 4 /\ IsSeq(Word(n)) /\ n \in Nat
<1>1. n \in Nat /\ n \div 16777216 \in Byte
  BY DEF Uint32s
<1>2. n % 256 \in Byte /\ (n \div 256) % 256 \in Byte /\ (n \div 65536) % 256 \in Byte
  BY <1>1, SMT DEF Byte
<1>3. Word(n) \in Seq(Byte) /\ Len(Word(n)) = 4
  BY <1>1, <1>2 DEF Word
<1> QED
  BY <1>1, <1>3, SeqIs

(* The four bytes of a number make it up again. *)
LEMMA WordSum ==
  ASSUME NEW n \in Nat
  PROVE  (n % 256) + 256 * ((n \div 256) % 256) + 65536 * ((n \div 65536) % 256)
           + 16777216 * (n \div 16777216) = n
BY SMT

(* Reading a word gives the number it was made from. *)
LEMMA ReadWord ==
  ASSUME NEW d, NEW at, NEW n \in Uint32s, Holds(d, at, Word(n))
  PROVE  WordAt(d, at) = n
<1>1. at \in Nat /\ Len(Word(n)) = 4 /\ n \in Nat
  BY WordFacts DEF Holds
<1>2. ASSUME NEW x \in 0..3 PROVE At(d, at + x) = Word(n)[x + 1]
  <2>1. x \in 0..Len(Word(n)) - 1
    BY <1>1
  <2> QED
    BY <2>1, ReadAt
<1>3. /\ At(d, at) = n % 256 /\ At(d, at + 1) = (n \div 256) % 256
      /\ At(d, at + 2) = (n \div 65536) % 256 /\ At(d, at + 3) = n \div 16777216
  <2>1. /\ Word(n)[1] = n % 256 /\ Word(n)[2] = (n \div 256) % 256
        /\ Word(n)[3] = (n \div 65536) % 256 /\ Word(n)[4] = n \div 16777216
    BY DEF Word
  <2>2. At(d, at + 0) = Word(n)[0 + 1] /\ At(d, at + 1) = Word(n)[1 + 1]
        /\ At(d, at + 2) = Word(n)[2 + 1] /\ At(d, at + 3) = Word(n)[3 + 1]
    BY <1>2
  <2>3. at + 0 = at /\ 0 + 1 = 1 /\ 1 + 1 = 2 /\ 2 + 1 = 3 /\ 3 + 1 = 4
    BY <1>1
  <2> QED
    BY <2>1, <2>2, <2>3
<1> QED
  BY <1>1, <1>3, WordSum DEF WordAt

(* The types of the frames *)

(* The fields of a frame of each kind. *)
LEMMA FrameKinds ==
  ASSUME NEW f \in Frames
  PROVE  /\ f.k \in {"answer", "error", "config", "sniff", "radio", "consumption",
                     "empty", "noise", "lost"}
         /\ f.k = "answer" => f.type \in CommandTypes /\ f.ack \in ack_d
         /\ f.k = "error" => f.code \in Byte
         /\ f.k = "config" => f.type \in Byte /\ f.config \in Byte
         /\ f.k = "sniff" => /\ f.channel \in Byte /\ f.lqi \in Byte /\ f.rssi \in Byte
                             /\ f.payload \in Seq(Byte)
         /\ f.k = "radio" => /\ f.ref \in Uint32s
                             /\ f.meas \in Seq([us : Uint32s, channel : Byte, rssi : Byte])
         /\ f.k = "consumption" =>
              /\ f.ref \in Uint32s
              /\ f.meas \in Seq([us : Uint32s, p : Uint32s, v : Uint32s, c : Uint32s])
         /\ f.k = "noise" => f.bytes \in Seq(Byte)
<1>1. Seconds \subseteq Uint32s /\ Micros \subseteq Uint32s
  BY DEF Seconds, Micros, Uint32s, Byte
<1>2. /\ f.k \in {"answer", "error", "config", "sniff", "radio", "consumption",
                  "empty", "noise", "lost"}
      /\ f.k = "answer" => f.type \in CommandTypes /\ f.ack \in ack_d
      /\ f.k = "error" => f.code \in Byte
      /\ f.k = "config" => f.type \in Byte /\ f.config \in Byte
      /\ f.k = "sniff" => /\ f.channel \in Byte /\ f.lqi \in Byte /\ f.rssi \in Byte
                          /\ f.payload \in Seq(Byte)
      /\ f.k = "radio" => /\ f.ref \in Seconds
                          /\ f.meas \in Seq([us : Micros, channel : Byte, rssi : Byte])
      /\ f.k = "consumption" =>
           /\ f.ref \in Seconds
           /\ f.meas \in Seq([us : Micros, p : Uint32s, v : Uint32s, c : Uint32s])
      /\ f.k = "noise" => f.bytes \in Seq(Byte)
  BY DEF Frames, SentFrames
<1>3. /\ [us : Micros, channel : Byte, rssi : Byte]
           \subseteq [us : Uint32s, channel : Byte, rssi : Byte]
      /\ [us : Micros, p : Uint32s, v : Uint32s, c : Uint32s]
           \subseteq [us : Uint32s, p : Uint32s, v : Uint32s, c : Uint32s]
  BY <1>1
<1>4. ASSUME NEW S, NEW T, S \subseteq T PROVE Seq(S) \subseteq Seq(T)
  BY <1>4
<1>5. /\ Seq([us : Micros, channel : Byte, rssi : Byte])
           \subseteq Seq([us : Uint32s, channel : Byte, rssi : Byte])
      /\ Seq([us : Micros, p : Uint32s, v : Uint32s, c : Uint32s])
           \subseteq Seq([us : Uint32s, p : Uint32s, v : Uint32s, c : Uint32s])
  BY <1>3, <1>4
<1> QED
  BY <1>1, <1>2, <1>5

(* The handler that each first byte selects in decode_pkt. *)
LEMMA DecodeBy ==
  ASSUME NEW d, NEW len, NEW mh
  PROVE  /\ At(d, 0) = ACK_FRAME => decode_pkt(d, len, mh) = handle_ack_pkt(d, mh)
         /\ At(d, 0) = RADIO_SNIFFER_FRAME =>
              decode_pkt(d, len, mh) = Result(mh, handle_radio_sniffer(d, len))
         /\ At(d, 0) = CONSUMPTION_FRAME =>
              decode_pkt(d, len, mh) =
                Result(mh, [i \in DOMAIN handle_oml_measure(d, len, mh.meas_len) |->
                              consumption_handler(d, mh,
                                handle_oml_measure(d, len, mh.meas_len)[i].at,
                                handle_oml_measure(d, len, mh.meas_len)[i].time)])
         /\ At(d, 0) = RADIO_MEAS_FRAME =>
              decode_pkt(d, len, mh) =
                Result(mh, [i \in DOMAIN handle_oml_measure(d, len, 2) |->
                              radio_handler(d, handle_oml_measure(d, len, 2)[i].at,
                                            handle_oml_measure(d, len, 2)[i].time)])
         /\ At(d, 0) \div 16 # 15 => decode_pkt(d, len, mh) = Result(mh, write_answer(d, len))
<1> USE DEF ACK_FRAME, RADIO_SNIFFER_FRAME, CONSUMPTION_FRAME, RADIO_MEAS_FRAME
<1>1. 250 \div 16 = 15 /\ 243 \div 16 = 15 /\ 252 \div 16 = 15 /\ 241 \div 16 = 15
  OBVIOUS
<1>2. CASE At(d, 0) = ACK_FRAME
  BY <1>1, <1>2 DEF decode_pkt, handle_measure_pkt
<1>3. CASE At(d, 0) = RADIO_SNIFFER_FRAME
  BY <1>1, <1>3 DEF decode_pkt, handle_measure_pkt
<1>4. CASE At(d, 0) = CONSUMPTION_FRAME
  BY <1>1, <1>4 DEF decode_pkt, handle_measure_pkt
<1>5. CASE At(d, 0) = RADIO_MEAS_FRAME
  BY <1>1, <1>5 DEF decode_pkt, handle_measure_pkt
<1>6. CASE At(d, 0) \div 16 # 15
  BY <1>1, <1>6 DEF decode_pkt
<1> QED
  BY <1>1, <1>2, <1>3, <1>4, <1>5, <1>6

(* An answer is printed as it was sent. *)
LEMMA AnswerGives ==
  ASSUME NEW type \in CommandTypes, NEW ack \in ack_d, NEW d, Holds(d, 0, <<type, ack>>), NEW mh
  PROVE  decode_pkt(d, 2, mh) = Result(mh, <<[out |-> "answer", type |-> type, ack |-> ack]>>)
<1>1. At(d, 0) = type /\ At(d, 1) = ack
  BY ReadTwo
<1>2. type \div 16 # 15 /\ type # LOGGER_FRAME
  BY DEF CommandTypes, LOGGER_FRAME
<1>3. write_answer(d, 2) = <<[out |-> "answer", type |-> type, ack |-> ack]>>
  BY <1>1, <1>2 DEF write_answer
<1> QED
  BY <1>1, <1>2, <1>3, DecodeBy

(* An error frame prints its code. *)
LEMMA ErrorGives ==
  ASSUME NEW code \in Byte, NEW d, Holds(d, 0, <<LOGGER_FRAME, code>>), NEW mh
  PROVE  decode_pkt(d, 2, mh) =
           Result(mh, <<[out |-> "error", code |-> IF CharSigned THEN Int8(code) ELSE code]>>)
<1>1. At(d, 0) = LOGGER_FRAME /\ At(d, 1) = code
  BY ReadTwo
<1>2. LOGGER_FRAME \div 16 # 15
  BY DEF LOGGER_FRAME
<1>3. write_answer(d, 2) = <<[out |-> "error", code |-> IF CharSigned THEN Int8(code) ELSE code]>>
  BY <1>1 DEF write_answer
<1> QED
  BY <1>1, <1>2, <1>3, DecodeBy

(* The layout that config announces. *)
Layout(config) == config_consumption(<<>>, config)

(* Frame f announces a layout. *)
Announces(f) == f.k = "config" /\ f.type = CONFIG_CONSUMPTION

(* The length of an acknowledgement is not looked at. *)
LEMMA AckGives ==
  ASSUME NEW f, NEW d, Holds(d, 0, <<ACK_FRAME, f.type, f.config>>), NEW len, NEW mh
  PROVE  decode_pkt(d, len, mh) =
           Result(IF f.type = CONFIG_CONSUMPTION THEN Layout(f.config) ELSE mh, Acked(f))
<1>1. At(d, 0) = ACK_FRAME /\ At(d, 1) = f.type /\ At(d, 2) = f.config
  BY ReadThree
<1>2. decode_pkt(d, len, mh) = handle_ack_pkt(d, mh)
  BY <1>1, DecodeBy
<1>3. config_consumption(mh, f.config) = Layout(f.config)
  BY DEF Layout, config_consumption
<1> USE DEF SET_TIME, CONFIG_RADIO_STOP, CONFIG_RADIO_MEAS, CONFIG_CONSUMPTION
<1>4. CASE f.type \in {SET_TIME, CONFIG_RADIO_STOP, CONFIG_RADIO_MEAS}
  BY <1>1, <1>2, <1>4 DEF handle_ack_pkt, Acked
<1>5. CASE f.type = CONFIG_CONSUMPTION
  BY <1>1, <1>2, <1>3, <1>5 DEF handle_ack_pkt, Acked
<1>6. CASE f.type \notin {SET_TIME, CONFIG_RADIO_STOP, CONFIG_RADIO_MEAS, CONFIG_CONSUMPTION}
  BY <1>1, <1>2, <1>6 DEF handle_ack_pkt, Acked
<1> QED
  BY <1>4, <1>5, <1>6

-----------------------------------------------------------------------------
(* Sniffed packets *)

(* The outputs, without the byte too many of a sniffer client. *)
TrimAll(s) == [i \in DOMAIN s |-> Trimmed(s[i])]

(* The payload of a sniffed packet, and what OML gets of it. *)
SniffPayload(f) == <<RADIO_SNIFFER_FRAME>> \o Zep(f)

Sniffed(f) ==
  [out |-> "sniffer", channel |-> f.channel, lqi |-> f.lqi,
   rssi |-> Int8(f.rssi), length |-> Uint32(Len(f.payload) - 2)]

(* The fields of a sniffed packet. *)
IsSniff(f) == /\ f.channel \in Byte /\ f.lqi \in Byte /\ f.rssi \in Byte
              /\ f.payload \in Seq(Byte)

(* Where the fields of a sniffed packet are. *)
LEMMA ZepFacts ==
  ASSUME NEW f, IsSniff(f)
  PROVE  /\ IsSeq(Zep(f)) /\ Len(Zep(f)) = 32 + Len(f.payload) /\ Len(f.payload) \in Nat
         /\ Zep(f)[5] = f.channel /\ Zep(f)[9] = f.lqi /\ Zep(f)[24] = f.rssi
         /\ Zep(f)[32] = Len(f.payload)
         /\ Len(f.payload) \in Byte => Zep(f) \in Seq(Byte)
<1> DEFINE n == 32 + Len(f.payload)
           z == Zep(f)
<1>1. Len(f.payload) \in Nat /\ n \in Nat /\ n >= 32
  BY DEF IsSniff
<1>2. z = [i \in 1..n |-> z[i]]
  BY DEF Zep
<1>3. IsSeq(z) /\ Len(z) = n
  <2> HIDE DEF n, z
  <2> QED
    BY <1>1, <1>2, SeqMake
<1>4. z[5] = f.channel /\ z[9] = f.lqi /\ z[24] = f.rssi /\ z[32] = Len(f.payload)
  BY <1>1 DEF Zep
<1>5. ASSUME Len(f.payload) \in Byte PROVE z \in Seq(Byte)
  <2>1. ASSUME NEW i \in 1..n PROVE z[i] \in Byte
    <3>1. CASE i > 32
      <4>1. z[i] = f.payload[i - 32] /\ i - 32 \in 1..Len(f.payload)
        BY <1>1, <2>1, <3>1 DEF Zep
      <4>2. f.payload \in Seq(Byte)
        BY DEF IsSniff
      <4> QED
        BY <4>1, <4>2
    <3>2. CASE i <= 32 /\ i \notin {5, 9, 24, 32}
      <4>1. z[i] = i
        BY <1>1, <2>1, <3>2 DEF Zep
      <4> QED
        BY <2>1, <3>2, <4>1 DEF Byte
    <3>3. CASE i \in {5, 9, 24, 32}
      BY <1>4, <1>5, <3>3 DEF IsSniff
    <3> QED
      BY <1>1, <3>1, <3>2, <3>3
  <2> HIDE DEF z, n
  <2> QED
    BY <1>1, <1>2, <2>1
<1> QED
  BY <1>1, <1>3, <1>4, <1>5

(* The payload is the type and then the ZEP packet. *)
LEMMA SniffPayloadFacts ==
  ASSUME NEW f, IsSniff(f)
  PROVE  /\ IsSeq(SniffPayload(f)) /\ Len(SniffPayload(f)) = 33 + Len(f.payload)
         /\ Holds(SniffPayload(f), 0, <<RADIO_SNIFFER_FRAME>>)
         /\ Holds(SniffPayload(f), 1, Zep(f))
         /\ Len(SniffPayload(f)) \in Byte => SniffPayload(f) \in Seq(Byte)
<1> DEFINE h == <<RADIO_SNIFFER_FRAME>>
           z == Zep(f)
<1>1. IsSeq(z) /\ Len(z) = 32 + Len(f.payload) /\ Len(f.payload) \in Nat
      /\ (Len(f.payload) \in Byte => z \in Seq(Byte))
  BY ZepFacts
<1>2. h \in Seq(Byte) /\ Len(h) = 1
  BY DEF RADIO_SNIFFER_FRAME, Byte
<1>3. IsSeq(h)
  BY <1>2, SeqIs
<1> HIDE DEF h, z
<1>4. IsSeq(h \o z) /\ Len(h \o z) = 1 + (32 + Len(f.payload))
      /\ Holds(h \o z, 0, h) /\ Holds(h \o z, 1, z)
  BY <1>1, <1>2, <1>3, Concat
<1>5. 1 + (32 + Len(f.payload)) = 33 + Len(f.payload)
  BY <1>1
<1>6. ASSUME Len(h \o z) \in Byte PROVE h \o z \in Seq(Byte)
  <2>1. Len(f.payload) \in Byte
    <3>1. 1 + (32 + Len(f.payload)) \in 0..255
      BY <1>4, <1>6, Zenon DEF Byte
    <3> DEFINE n == Len(f.payload)
    <3>2. n \in Nat /\ 1 + (32 + n) \in 0..255
      BY <1>1, <3>1, Zenon
    <3> HIDE DEF n
    <3>3. n \in 0..255
      BY <3>2
    <3> QED
      BY <3>3 DEF n, Byte
  <2> QED
    BY <1>1, <1>2, <2>1, ConcatTyped
<1> QED
  BY <1>4, <1>5, <1>6 DEF SniffPayload, h, z

(* A sniffed packet goes to the client, with one byte more, and to OML. *)
LEMMA SniffGives ==
  ASSUME NEW f, IsSniff(f), NEW d, Holds(d, 0, SniffPayload(f)), NEW mh
  PROVE  \E bytes :
           /\ decode_pkt(d, Len(SniffPayload(f)), mh) =
                Result(mh, <<[out |-> "client", bytes |-> bytes], Sniffed(f)>>)
           /\ SubSeq(bytes, 1, Len(bytes) - 1) = Zep(f)
<1> DEFINE n == Len(f.payload)
           z == Zep(f)
           len == 33 + n
           bytes == [i \in 1..len |-> At(d, i)]
<1>1. /\ IsSeq(z) /\ Len(z) = 32 + n /\ n \in Nat
      /\ z[5] = f.channel /\ z[9] = f.lqi /\ z[24] = f.rssi /\ z[32] = n
  BY ZepFacts
<1>2. /\ Len(SniffPayload(f)) = len /\ Holds(SniffPayload(f), 0, <<RADIO_SNIFFER_FRAME>>)
      /\ Holds(SniffPayload(f), 1, z)
  BY SniffPayloadFacts
<1>3. At(d, 0) = RADIO_SNIFFER_FRAME
  <2>1. Holds(d, 0 + 0, <<RADIO_SNIFFER_FRAME>>)
    BY <1>2, HoldsWithin
  <2>2. Len(<<RADIO_SNIFFER_FRAME>>) = 1 /\ 0 + 0 = 0 /\ 0 + 1 = 1
    OBVIOUS
  <2>3. Len(d) \in Nat /\ 1 <= Len(d) /\ d[0 + 1] = <<RADIO_SNIFFER_FRAME>>[1]
    BY <2>1, <2>2 DEF Holds
  <2> QED
    BY <2>2, <2>3 DEF At
<1> HIDE DEF z
<1>4. Holds(d, 1, z)
  <2>1. Holds(d, 0 + 1, z)
    BY <1>2, HoldsWithin
  <2> QED
    BY <2>1
<1>5. ASSUME NEW i \in 1..32 + n PROVE At(d, i) = z[i]
  <2> DEFINE x == i - 1
  <2>1. x \in 0..Len(z) - 1 /\ x + 1 = i /\ 1 + x = i
    BY <1>1
  <2> HIDE DEF x
  <2>2. At(d, 1 + x) = z[x + 1]
    BY <1>4, <2>1, ReadAt
  <2> QED
    BY <2>1, <2>2
<1>6. At(d, 5) = f.channel /\ At(d, 9) = f.lqi /\ At(d, 24) = f.rssi /\ At(d, 32) = n
  <2>1. 5 \in 1..32 + n /\ 9 \in 1..32 + n /\ 24 \in 1..32 + n /\ 32 \in 1..32 + n
    BY <1>1
  <2> QED
    BY <1>1, <1>5, <2>1
<1>7. ~ (len < 33) /\ len \in Nat
  BY <1>1
<1>8. handle_radio_sniffer(d, len) = <<[out |-> "client", bytes |-> bytes], Sniffed(f)>>
  <2> HIDE DEF n
  <2> QED
    BY <1>6, <1>7 DEF handle_radio_sniffer, Sniffed, n
<1>9. decode_pkt(d, len, mh) = Result(mh, handle_radio_sniffer(d, len))
  BY <1>3, DecodeBy
<1>10. SubSeq(bytes, 1, Len(bytes) - 1) = z
  <2>1. bytes = [i \in 1..len |-> bytes[i]]
    OBVIOUS
  <2>2. IsSeq(bytes) /\ Len(bytes) = len
    <3> HIDE DEF bytes, len
    <3> QED
      BY <1>7, <2>1, SeqMake
  <2>3. \A i \in 1..32 + n : bytes[i] = z[i]
    BY <1>1, <1>5
  <2>4. len - 1 = 32 + n
    BY <1>1
  <2> DEFINE t == SubSeq(bytes, 1, 32 + n)
  <2>5. /\ t = [i \in 1..32 + n |-> t[i]] /\ \A i \in 1..32 + n : t[i] = bytes[i]
    <3> HIDE DEF bytes
    <3>1. bytes \in Seq(Range(bytes)) /\ 32 + n <= Len(bytes) /\ 32 + n \in Nat
      BY <1>1, <2>2 DEF IsSeq
    <3> QED
      BY <3>1
  <2>6. IsSeq(t) /\ Len(t) = 32 + n
    <3> HIDE DEF t, bytes
    <3>1. 32 + n \in Nat
      BY <1>1
    <3> QED
      BY <2>5, <3>1, SeqMake
  <2>7. t = z
    <3> HIDE DEF t, bytes
    <3> QED
      BY <1>1, <2>3, <2>5, <2>6, SeqSame
  <2> HIDE DEF bytes
  <2> QED
    BY <2>2, <2>4, <2>7
<1> HIDE DEF bytes, len
<1> QED
  BY <1>2, <1>8, <1>9, <1>10 DEF z

-----------------------------------------------------------------------------
(* Packets of measures *)

(* An element of a sequence. *)
LEMMA SeqElement ==
  ASSUME NEW S, NEW s \in Seq(S), NEW i \in 1..Len(s)
  PROVE  s[i] \in S
OBVIOUS

(* A packet of measures: its type, their number, a time and the measures. *)
MeasPacket(a, n, ref, s) == <<a, n>> \o Word(ref) \o FlattenSeq(s)

(* It has n measures of w bytes each. *)
IsMeas(a, n, ref, s, w) ==
  /\ a \in Byte /\ ref \in Uint32s /\ n \in Nat /\ w \in Nat
  /\ s \in Seq(Seq(Byte)) /\ Len(s) = n /\ \A j \in 1..n : Len(s[j]) = w

(* Where its header, its time and its measures are. *)
LEMMA MeasFacts ==
  ASSUME NEW a, NEW n, NEW ref, NEW s, NEW w, IsMeas(a, n, ref, s, w)
  PROVE  LET P == MeasPacket(a, n, ref, s)
         IN /\ IsSeq(P) /\ Len(P) = 6 + n * w
            /\ n \in Byte => P \in Seq(Byte)
            /\ Holds(P, 0, <<a, n>>) /\ Holds(P, 2, Word(ref))
            /\ \A j \in 1..n : Holds(P, 6 + (j - 1) * w, s[j])
<1> DEFINE h == <<a, n>>
           r == Word(ref)
           b == FlattenSeq(s)
           g == h \o r
           P == g \o b
<1>1. n \in Nat /\ w \in Nat /\ Len(s) = n /\ n * w \in Nat
  BY DEF IsMeas
<1>2. r \in Seq(Byte) /\ IsSeq(r) /\ Len(r) = 4
  BY WordFacts DEF IsMeas
<1>3. b \in Seq(Byte) /\ Len(b) = n * w /\ \A j \in 1..n : Holds(b, (j - 1) * w, s[j])
  BY FlattenEven DEF IsMeas
<1>4. IsSeq(b)
  BY <1>3, SeqIs
<1>5. IsSeq(h) /\ Len(h) = 2
  <2>1. h \in Seq(Nat) /\ Len(h) = 2
    BY <1>1, ByteIs DEF IsMeas
  <2> QED
    BY <2>1, SeqIs
<1>6. n \in Byte => h \in Seq(Byte)
  BY DEF IsMeas
<1> HIDE DEF h, r, b
<1>7. IsSeq(g) /\ Len(g) = 2 + 4 /\ Holds(g, 0, h) /\ Holds(g, 2, r)
  BY <1>2, <1>5, Concat
<1>8. n \in Byte => g \in Seq(Byte)
  BY <1>2, <1>6, ConcatTyped
<1>9. Len(g) = 6
  BY <1>7
<1> HIDE DEF g
<1>10. IsSeq(P) /\ Len(P) = 6 + n * w /\ Holds(P, 0, g) /\ Holds(P, 6, b)
  BY <1>3, <1>4, <1>7, <1>9, Concat
<1>11. n \in Byte => P \in Seq(Byte)
  BY <1>3, <1>8, ConcatTyped
<1> HIDE DEF P
<1>12. Holds(P, 0, h) /\ Holds(P, 2, r)
  <2>1. Holds(P, 0 + 0, h) /\ Holds(P, 0 + 2, r)
    BY <1>7, <1>10, HoldsWithin
  <2>2. 0 + 0 = 0 /\ 0 + 2 = 2
    OBVIOUS
  <2> QED
    BY <2>1, <2>2
<1>13. ASSUME NEW j \in 1..n PROVE Holds(P, 6 + (j - 1) * w, s[j])
  BY <1>3, <1>10, <1>13, HoldsWithin
<1>14. P = MeasPacket(a, n, ref, s)
  BY DEF P, g, h, r, b, MeasPacket
<1> QED
  BY <1>10, <1>11, <1>12, <1>13, <1>14 DEF h, r

(* Its length. *)
LEMMA MeasLen ==
  ASSUME NEW a, NEW n, NEW ref, NEW s, NEW w, IsMeas(a, n, ref, s, w)
  PROVE  Len(MeasPacket(a, n, ref, s)) = 6 + n * w
BY MeasFacts, Zenon

(* What handle_oml_measure finds in it. *)
Measured(d, n, ref, size) ==
  [ i \in 1..n |->
      [ at |-> 6 + (i - 1) * (4 + size) + 4,
        time |-> calculate_time_extended(ref, WordAt(d, 6 + (i - 1) * (4 + size))) ] ]

(* handle_oml_measure accepts it when its length fits the size of a         *)
(* measure.                                                                 *)
LEMMA OmlFacts ==
  ASSUME NEW a, NEW n, NEW ref, NEW s, NEW w, IsMeas(a, n, ref, s, w), NEW d,
         Holds(d, 0, MeasPacket(a, n, ref, s)), NEW size, NEW len
  PROVE  /\ At(d, 0) = a
         /\ \A j \in 1..n : Holds(d, 6 + (j - 1) * w, s[j])
         /\ len # 6 + n * (4 + size) => handle_oml_measure(d, len, size) = <<>>
         /\ len = 6 + n * (4 + size) =>
              handle_oml_measure(d, len, size) = Measured(d, n, ref, size)
<1> DEFINE P == MeasPacket(a, n, ref, s)
<1>1. /\ Holds(P, 0, <<a, n>>) /\ Holds(P, 2, Word(ref))
      /\ \A j \in 1..n : Holds(P, 6 + (j - 1) * w, s[j])
  BY MeasFacts
<1>2. n \in Nat /\ w \in Nat /\ ref \in Uint32s
  BY DEF IsMeas
<1> HIDE DEF P
<1>3. Holds(d, 0, P)
  BY DEF P
<1>4. Holds(d, 0 + 0, <<a, n>>) /\ Holds(d, 0 + 2, Word(ref))
  BY <1>1, <1>3, HoldsWithin
<1>5. 0 + 0 = 0 /\ 0 + 2 = 2
  OBVIOUS
<1>6. At(d, 0) = a /\ At(d, 1) = n
  BY <1>4, <1>5, ReadTwo
<1>7. WordAt(d, 2) = ref
  BY <1>2, <1>4, <1>5, ReadWord
<1>8. ASSUME NEW j \in 1..n PROVE Holds(d, 6 + (j - 1) * w, s[j])
  <2> DEFINE x == 6 + (j - 1) * w
  <2>1. Holds(P, x, s[j])
    BY <1>1
  <2>2. x \in Nat
    BY <2>1 DEF Holds
  <2> HIDE DEF x
  <2>3. Holds(d, 0 + x, s[j])
    BY <1>3, <2>1, HoldsWithin
  <2>4. 0 + x = x
    BY <2>2
  <2>5. Holds(d, x, s[j])
    BY <2>3, <2>4
  <2> QED
    BY <2>5 DEF x
<1>9. len # 6 + n * (4 + size) => handle_oml_measure(d, len, size) = <<>>
  BY <1>6 DEF handle_oml_measure
<1>10. ASSUME len = 6 + n * (4 + size)
       PROVE  handle_oml_measure(d, len, size) = Measured(d, n, ref, size)
  BY <1>6, <1>7, <1>10 DEF handle_oml_measure, Measured
<1> QED
  BY <1>6, <1>8, <1>9, <1>10

(* One measure: its time, then its values. *)
LEMMA MeasureFacts ==
  ASSUME NEW us \in Uint32s, NEW v \in Seq(Byte)
  PROVE  LET m == Word(us) \o v
         IN /\ m \in Seq(Byte) /\ Len(m) = 4 + Len(v)
            /\ Holds(m, 0, Word(us)) /\ Holds(m, 4, v)
<1> DEFINE r == Word(us)
<1>1. r \in Seq(Byte) /\ IsSeq(r) /\ Len(r) = 4
  BY WordFacts
<1>2. IsSeq(v)
  BY SeqIs
<1> HIDE DEF r
<1>3. r \o v \in Seq(Byte)
  BY <1>1, ConcatTyped
<1>4. Len(r \o v) = 4 + Len(v) /\ Holds(r \o v, 0, r) /\ Holds(r \o v, 4, v)
  BY <1>1, <1>2, Concat
<1> QED
  BY <1>3, <1>4 DEF r

(* Reading the time and the values of a measure. *)
LEMMA ReadMeasure ==
  ASSUME NEW us \in Uint32s, NEW v \in Seq(Byte), NEW d, NEW at,
         Holds(d, at, Word(us) \o v)
  PROVE  WordAt(d, at) = us /\ Holds(d, at + 4, v)
<1> DEFINE m == Word(us) \o v
<1>1. Holds(m, 0, Word(us)) /\ Holds(m, 4, v)
  BY MeasureFacts
<1> HIDE DEF m
<1>2. Holds(d, at, m) /\ at \in Nat
  BY DEF m, Holds
<1>3. Holds(d, at + 0, Word(us)) /\ Holds(d, at + 4, v)
  BY <1>1, <1>2, HoldsWithin
<1>4. at + 0 = at
  BY <1>2
<1> QED
  BY <1>3, <1>4, ReadWord

(* The normalised time of a measure is that of its reference and its delay. *)
LEMMA TimeNormal ==
  ASSUME NEW f, NEW m, f.ref \in Uint32s, m.us \in Uint32s
  PROVE  calculate_time_extended(f.ref, m.us) = TimeOf(f, m)
<1>1. f.ref \in Nat /\ m.us \in Nat
  BY DEF Uint32s
<1>2. ASSUME NEW r \in Nat, NEW u \in Nat
      PROVE  (r * 1000000 + u) \div 1000000 = r + (u \div 1000000)
             /\ (r * 1000000 + u) % 1000000 = u % 1000000
  BY SMT
<1>3. (f.ref * MICRO + m.us) \div MICRO = f.ref + (m.us \div MICRO)
      /\ (f.ref * MICRO + m.us) % MICRO = m.us % MICRO
  BY <1>1, <1>2, SMT DEF MICRO
<1> QED
  BY <1>3, Zenon DEF calculate_time_extended, TimeOf

(* The fields of a radio frame, its payload, and what it means. *)
IsRadio(f) ==
  f.ref \in Uint32s /\ f.meas \in Seq([us : Uint32s, channel : Byte, rssi : Byte])

RadioMeasures(f) ==
  [j \in DOMAIN f.meas |-> Word(f.meas[j].us) \o <<f.meas[j].channel, f.meas[j].rssi>>]

RadioPayload(f) == MeasPacket(RADIO_MEAS_FRAME, Len(f.meas), f.ref, RadioMeasures(f))

RadioMeant(f) ==
  [j \in DOMAIN f.meas |->
     [out |-> "radio", time |-> TimeOf(f, f.meas[j]),
      channel |-> f.meas[j].channel, rssi |-> Int8(f.meas[j].rssi)]]

(* A radio frame is a packet of measures of 6 bytes. *)
LEMMA RadioFacts ==
  ASSUME NEW f, IsRadio(f)
  PROVE  /\ Len(f.meas) \in Nat /\ DOMAIN f.meas = 1..Len(f.meas)
         /\ \A j \in 1..Len(f.meas) :
              /\ f.meas[j].us \in Uint32s
              /\ <<f.meas[j].channel, f.meas[j].rssi>> \in Seq(Byte)
              /\ RadioMeasures(f)[j] = Word(f.meas[j].us) \o <<f.meas[j].channel, f.meas[j].rssi>>
         /\ IsMeas(RADIO_MEAS_FRAME, Len(f.meas), f.ref, RadioMeasures(f), 6)
<1> DEFINE n == Len(f.meas)
           s == RadioMeasures(f)
           V(j) == <<f.meas[j].channel, f.meas[j].rssi>>
<1>1. f.meas \in Seq([us : Uint32s, channel : Byte, rssi : Byte])
  BY DEF IsRadio
<1>2. n \in Nat /\ DOMAIN f.meas = 1..n
  BY <1>1
<1>3. ASSUME NEW j \in 1..n
      PROVE  f.meas[j].us \in Uint32s /\ V(j) \in Seq(Byte) /\ Len(V(j)) = 2
  <2>1. f.meas[j] \in [us : Uint32s, channel : Byte, rssi : Byte]
    BY <1>1, <1>3, SeqElement
  <2>2. f.meas[j].us \in Uint32s /\ f.meas[j].channel \in Byte /\ f.meas[j].rssi \in Byte
    BY <2>1
  <2> QED
    BY <2>2
<1> HIDE DEF V
<1>4. s = [j \in 1..n |-> Word(f.meas[j].us) \o V(j)]
  BY <1>2 DEF RadioMeasures, V
<1>5. ASSUME NEW j \in 1..n
      PROVE  s[j] = Word(f.meas[j].us) \o V(j) /\ s[j] \in Seq(Byte) /\ Len(s[j]) = 6
  <2>1. s[j] = Word(f.meas[j].us) \o V(j)
    BY <1>4, <1>5, Zenon
  <2>2. Word(f.meas[j].us) \o V(j) \in Seq(Byte) /\ Len(Word(f.meas[j].us) \o V(j)) = 4 + 2
    BY <1>3, <1>5, MeasureFacts
  <2>3. 4 + 2 = 6
    OBVIOUS
  <2> QED
    BY <2>1, <2>2, <2>3
<1>6. s \in [1..n -> Seq(Byte)]
  <2> DEFINE W(j) == Word(f.meas[j].us) \o V(j)
  <2> HIDE DEF W
  <2>1. s = [j \in 1..n |-> W(j)] /\ \A j \in 1..n : W(j) \in Seq(Byte)
    BY <1>4, <1>5 DEF W
  <2> QED
    BY <2>1
<1> HIDE DEF s
<1>7. s \in Seq(Seq(Byte)) /\ Len(s) = n
  BY <1>2, <1>6
<1>8. RADIO_MEAS_FRAME \in Byte
  BY DEF RADIO_MEAS_FRAME, Byte
<1>9. IsMeas(RADIO_MEAS_FRAME, n, f.ref, s, 6)
  BY <1>2, <1>5, <1>7, <1>8 DEF IsMeas, IsRadio
<1> QED
  BY <1>2, <1>3, <1>5, <1>9 DEF s, V

(* A radio frame gives its measures. *)
LEMMA RadioGives ==
  ASSUME NEW f, IsRadio(f), NEW d, Holds(d, 0, RadioPayload(f)), NEW mh
  PROVE  decode_pkt(d, Len(RadioPayload(f)), mh) = Result(mh, RadioMeant(f))
<1> DEFINE n == Len(f.meas)
           s == RadioMeasures(f)
           len == Len(RadioPayload(f))
           meas == handle_oml_measure(d, len, 2)
<1>1. /\ n \in Nat /\ DOMAIN f.meas = 1..n /\ IsMeas(RADIO_MEAS_FRAME, n, f.ref, s, 6)
      /\ \A j \in 1..n :
              /\ f.meas[j].us \in Uint32s
              /\ <<f.meas[j].channel, f.meas[j].rssi>> \in Seq(Byte)
              /\ s[j] = Word(f.meas[j].us) \o <<f.meas[j].channel, f.meas[j].rssi>>
  BY RadioFacts
<1>2. Holds(d, 0, MeasPacket(RADIO_MEAS_FRAME, n, f.ref, s))
  BY DEF RadioPayload
<1>3. len = 6 + n * (4 + 2)
  <2>1. len = 6 + n * 6
    <3> HIDE DEF n, s
    <3>1. Len(MeasPacket(RADIO_MEAS_FRAME, n, f.ref, s)) = 6 + n * 6
      BY <1>1, MeasLen
    <3> QED
      BY <3>1 DEF RadioPayload, n, s
  <2> QED
    BY <1>1, <2>1
<1> HIDE DEF s, len
<1>4. At(d, 0) = RADIO_MEAS_FRAME /\ \A j \in 1..n : Holds(d, 6 + (j - 1) * 6, s[j])
  BY <1>1, <1>2, OmlFacts
<1>5. meas = Measured(d, n, f.ref, 2)
  <2> HIDE DEF n
  <2> QED
    BY <1>1, <1>2, <1>3, OmlFacts
<1>6. decode_pkt(d, len, mh) =
        Result(mh, [i \in DOMAIN meas |-> radio_handler(d, meas[i].at, meas[i].time)])
  BY <1>4, DecodeBy
<1> HIDE DEF meas, n
<1>7. ASSUME NEW j \in 1..n
      PROVE  radio_handler(d, meas[j].at, meas[j].time) =
               [out |-> "radio", time |-> TimeOf(f, f.meas[j]),
                channel |-> f.meas[j].channel, rssi |-> Int8(f.meas[j].rssi)]
  <2> DEFINE at == 6 + (j - 1) * 6
             v == <<f.meas[j].channel, f.meas[j].rssi>>
  <2>1. at = 6 + (j - 1) * (4 + 2) /\ at \in Nat
    BY <1>1, <1>7
  <2>2. Holds(d, at, Word(f.meas[j].us) \o v) /\ f.meas[j].us \in Uint32s /\ v \in Seq(Byte)
    BY <1>1, <1>4, <1>7
  <2> HIDE DEF at
  <2>3. meas[j].at = at + 4 /\ meas[j].time = calculate_time_extended(f.ref, WordAt(d, at))
    BY <1>5, <1>7, <2>1 DEF Measured
  <2> HIDE DEF v
  <2>4. WordAt(d, at) = f.meas[j].us /\ Holds(d, at + 4, v)
    BY <2>2, ReadMeasure
  <2>5. At(d, at + 4) = f.meas[j].channel /\ At(d, at + 4 + 1) = f.meas[j].rssi
    <3> DEFINE x == at + 4
    <3>1. x \in Nat /\ Len(v) = 2 /\ v[1] = f.meas[j].channel /\ v[2] = f.meas[j].rssi
      BY <2>1 DEF v
    <3> HIDE DEF x
    <3>2. Holds(d, x, v)
      BY <2>4 DEF x
    <3>3. At(d, x + 0) = v[0 + 1] /\ At(d, x + 1) = v[1 + 1]
      <4>1. 0 \in 0..Len(v) - 1 /\ 1 \in 0..Len(v) - 1
        BY <3>1
      <4> QED
        BY <3>2, <4>1, ReadAt
    <3>4. x + 0 = x /\ 0 + 1 = 1 /\ 1 + 1 = 2
      BY <3>1
    <3> QED
      BY <3>1, <3>3, <3>4 DEF x
  <2>6. meas[j].time = TimeOf(f, f.meas[j])
    BY <2>2, <2>3, <2>4, TimeNormal DEF IsRadio
  <2> QED
    BY <2>3, <2>5, <2>6 DEF radio_handler
<1>8. DOMAIN meas = 1..n
  BY <1>5 DEF Measured
<1>9. [i \in DOMAIN meas |-> radio_handler(d, meas[i].at, meas[i].time)] = RadioMeant(f)
  BY <1>1, <1>7, <1>8 DEF RadioMeant
<1> QED
  BY <1>6, <1>9 DEF len

-----------------------------------------------------------------------------
(* Consumption measures *)

(* The fields of a consumption frame. *)
IsCons(f) ==
  f.ref \in Uint32s /\ f.meas \in Seq([us : Uint32s, p : Uint32s, v : Uint32s, c : Uint32s])

(* How many values a layout has. *)
Number(config) ==
  Count(Bit(config, MEASURE_POWER), Bit(config, MEASURE_VOLTAGE), Bit(config, MEASURE_CURRENT))

(* There are at most three. *)
LEMMA NumberRange == \A config : Number(config) \in 0..3
BY DEF Number, Count

(* The layout of config_consumption in terms of them. *)
LEMMA LayoutIs ==
  ASSUME NEW config
  PROVE  Layout(config) = [ p |-> Bit(config, MEASURE_POWER), v |-> Bit(config, MEASURE_VOLTAGE),
                            c |-> Bit(config, MEASURE_CURRENT), meas_len |-> 4 * Number(config) ]
BY DEF Layout, config_consumption, Number

(* The values selected are words, as many as the configuration names. *)
LEMMA SelectedFacts ==
  ASSUME NEW m, m.p \in Uint32s, m.v \in Uint32s, m.c \in Uint32s, NEW config
  PROVE  Selected(m, config) \in Seq(Uint32s) /\ Len(Selected(m, config)) = Number(config)
<1> DEFINE a == IF Bit(config, MEASURE_POWER) THEN <<m.p>> ELSE <<>>
           b == IF Bit(config, MEASURE_VOLTAGE) THEN <<m.v>> ELSE <<>>
           c == IF Bit(config, MEASURE_CURRENT) THEN <<m.c>> ELSE <<>>
<1>1. /\ a \in Seq(Uint32s) /\ Len(a) = IF Bit(config, MEASURE_POWER) THEN 1 ELSE 0
      /\ b \in Seq(Uint32s) /\ Len(b) = IF Bit(config, MEASURE_VOLTAGE) THEN 1 ELSE 0
      /\ c \in Seq(Uint32s) /\ Len(c) = IF Bit(config, MEASURE_CURRENT) THEN 1 ELSE 0
  OBVIOUS
<1>2. Selected(m, config) = a \o b \o c
  BY DEF Selected
<1> HIDE DEF a, b, c
<1>3. a \o b \o c \in Seq(Uint32s) /\ Len(a \o b \o c) = Len(a) + Len(b) + Len(c)
  <2>1. a \o b \in Seq(Uint32s) /\ Len(a \o b) = Len(a) + Len(b)
    BY <1>1, ConcatTyped
  <2> DEFINE ab == a \o b
  <2> HIDE DEF ab
  <2>2. ab \o c \in Seq(Uint32s) /\ Len(ab \o c) = Len(ab) + Len(c)
    <3>1. ab \in Seq(Uint32s)
      BY <2>1 DEF ab
    <3> QED
      BY <1>1, <3>1, ConcatTyped
  <2> QED
    BY <2>1, <2>2, Zenon DEF ab
<1> QED
  BY <1>1, <1>2, <1>3 DEF Number, Count

(* Where each word is. *)
LEMMA WordsFacts ==
  ASSUME NEW ns \in Seq(Uint32s)
  PROVE  /\ Words(ns) \in Seq(Byte) /\ Len(Words(ns)) = 4 * Len(ns)
         /\ \A k \in 1..Len(ns) : Holds(Words(ns), 4 * (k - 1), Word(ns[k]))
<1> DEFINE s == [i \in DOMAIN ns |-> Word(ns[i])]
           n == Len(ns)
<1>1. n \in Nat /\ DOMAIN ns = 1..n /\ \A i \in 1..n : ns[i] \in Uint32s
  OBVIOUS
<1>2. \A i \in 1..n : Word(ns[i]) \in Seq(Byte) /\ Len(Word(ns[i])) = 4
  BY <1>1, WordFacts
<1>3. s \in [1..n -> Seq(Byte)] /\ \A i \in 1..n : s[i] = Word(ns[i])
  BY <1>1, <1>2
<1> HIDE DEF s, n
<1>4. s \in Seq(Seq(Byte)) /\ Len(s) = n /\ \A i \in 1..n : Len(s[i]) = 4
  BY <1>1, <1>2, <1>3
<1>5. /\ FlattenSeq(s) \in Seq(Byte) /\ Len(FlattenSeq(s)) = n * 4
      /\ \A k \in 1..n : Holds(FlattenSeq(s), (k - 1) * 4, s[k])
  BY <1>4, FlattenEven
<1>6. n * 4 = 4 * n /\ \A k \in 1..n : (k - 1) * 4 = 4 * (k - 1)
  BY <1>1
<1>7. Words(ns) = FlattenSeq(s)
  BY DEF Words, s
<1> QED
  BY <1>3, <1>5, <1>6, <1>7 DEF n

(* The values are read in the order they were selected in, and named by the *)
(* layout got.                                                              *)
LEMMA HandlerReads ==
  ASSUME NEW m, m.p \in Uint32s, m.v \in Uint32s, m.c \in Uint32s,
         NEW sent, NEW got, Number(sent) = Number(got),
         NEW d, NEW at, Holds(d, at, Words(Selected(m, sent))), NEW time
  PROVE  consumption_handler(d, Layout(got), at, time) =
           [ out |-> "consumption", time |-> time,
             p |-> ValueOf(m, sent, got, MEASURE_POWER),
             v |-> ValueOf(m, sent, got, MEASURE_VOLTAGE),
             c |-> ValueOf(m, sent, got, MEASURE_CURRENT) ]
<1> DEFINE sel == Selected(m, sent)
           P == Bit(got, MEASURE_POWER)
           V == Bit(got, MEASURE_VOLTAGE)
           C == Bit(got, MEASURE_CURRENT)
<1>1. sel \in Seq(Uint32s) /\ Len(sel) = Number(got)
  BY SelectedFacts
<1>2. at \in Nat
  BY DEF Holds
<1> HIDE DEF sel
<1>3. ASSUME NEW k \in 1..Number(got) PROVE WordAt(d, at + 4 * (k - 1)) = sel[k]
  <2> DEFINE x == 4 * (k - 1)
  <2>1. k \in 1..Len(sel)
    BY <1>1, <1>3
  <2>2. Holds(Words(sel), x, Word(sel[k]))
    BY <1>1, <2>1, WordsFacts
  <2> HIDE DEF x
  <2>3. Holds(d, at + x, Word(sel[k]))
    BY <2>2, HoldsWithin DEF sel
  <2>4. sel[k] \in Uint32s
    BY <1>1, <2>1, SeqElement
  <2>5. WordAt(d, at + x) = sel[k]
    BY <2>3, <2>4, ReadWord
  <2> QED
    BY <2>5 DEF x
<1> HIDE DEF P, V, C
<1>4. Number(got) = Count(P, V, C)
  BY DEF Number, P, V, C
<1>5. Layout(got) = [p |-> P, v |-> V, c |-> C, meas_len |-> 4 * Number(got)]
  BY LayoutIs DEF P, V, C
<1>6. /\ ValueOf(m, sent, got, MEASURE_POWER) = IF ~P THEN NAN ELSE sel[1]
      /\ ValueOf(m, sent, got, MEASURE_VOLTAGE) = IF ~V THEN NAN ELSE sel[IF P THEN 2 ELSE 1]
      /\ ValueOf(m, sent, got, MEASURE_CURRENT) =
           IF ~C THEN NAN ELSE sel[IF P THEN IF V THEN 3 ELSE 2 ELSE IF V THEN 2 ELSE 1]
  <2>1. /\ ~ (MEASURE_POWER >= MEASURE_VOLTAGE) /\ ~ (MEASURE_POWER >= MEASURE_CURRENT)
        /\ MEASURE_VOLTAGE >= MEASURE_VOLTAGE /\ ~ (MEASURE_VOLTAGE >= MEASURE_CURRENT)
        /\ MEASURE_CURRENT >= MEASURE_VOLTAGE /\ MEASURE_CURRENT >= MEASURE_CURRENT
    BY DEF MEASURE_POWER, MEASURE_VOLTAGE, MEASURE_CURRENT
  <2>2. P => ValueOf(m, sent, got, MEASURE_POWER) = sel[Count(P, FALSE, FALSE)]
    BY <2>1 DEF ValueOf, P, sel
  <2>3. V => ValueOf(m, sent, got, MEASURE_VOLTAGE) = sel[Count(P, V, FALSE)]
    BY <2>1 DEF ValueOf, P, V, sel
  <2>4. C => ValueOf(m, sent, got, MEASURE_CURRENT) = sel[Count(P, V, C)]
    <3>1. Count(P, MEASURE_CURRENT >= MEASURE_VOLTAGE /\ V, MEASURE_CURRENT >= MEASURE_CURRENT /\ C)
            = Count(P, V, C)
      BY <2>1 DEF Count
    <3> QED
      BY <3>1, Zenon DEF ValueOf, P, V, C, sel
  <2>5. /\ ~P => ValueOf(m, sent, got, MEASURE_POWER) = NAN
        /\ ~V => ValueOf(m, sent, got, MEASURE_VOLTAGE) = NAN
        /\ ~C => ValueOf(m, sent, got, MEASURE_CURRENT) = NAN
    BY DEF ValueOf, P, V, C
  <2> QED
    BY <2>2, <2>3, <2>4, <2>5 DEF Count
<1>7. /\ Number(got) >= 1 => WordAt(d, at) = sel[1]
      /\ Number(got) >= 2 => WordAt(d, at + 4) = sel[2]
      /\ Number(got) >= 3 => WordAt(d, at + 8) = sel[3] /\ WordAt(d, at + 4 + 4) = sel[3]
  <2>1. Number(got) \in 0..3
    BY NumberRange
  <2>2. at + 4 * (1 - 1) = at /\ at + 4 * (2 - 1) = at + 4 /\ at + 4 * (3 - 1) = at + 8
        /\ at + 8 = at + 4 + 4
    BY <1>2
  <2>3. /\ Number(got) >= 1 => WordAt(d, at + 4 * (1 - 1)) = sel[1]
        /\ Number(got) >= 2 => WordAt(d, at + 4 * (2 - 1)) = sel[2]
        /\ Number(got) >= 3 => WordAt(d, at + 4 * (3 - 1)) = sel[3]
    BY <1>3, <2>1
  <2> QED
    BY <2>2, <2>3
<1>8. at + 0 = at /\ at + 4 + 0 = at + 4 /\ at + 0 + 4 = at + 4 /\ at + 0 + 0 = at
  BY <1>2
<1> HIDE DEF sel
<1> QED
  <2>1. P \in BOOLEAN /\ V \in BOOLEAN /\ C \in BOOLEAN
    BY DEF P, V, C, Bit
  <2> DEFINE h == consumption_handler(d, Layout(got), at, time)
             w == at + (IF P THEN 4 ELSE 0)
             x == w + (IF V THEN 4 ELSE 0)
  <2>2. h = [ out |-> "consumption", time |-> time,
              p |-> IF P THEN WordAt(d, at) ELSE NAN,
              v |-> IF V THEN WordAt(d, w) ELSE NAN,
              c |-> IF C THEN WordAt(d, x) ELSE NAN ]
    BY <1>5, <2>1 DEF consumption_handler
  <2>3. P => WordAt(d, at) = sel[1]
    BY <1>4, <1>7, <2>1 DEF Count
  <2>4. V => WordAt(d, w) = sel[IF P THEN 2 ELSE 1]
    BY <1>4, <1>7, <1>8, <2>1 DEF Count
  <2>5. C => WordAt(d, x) = sel[IF P THEN IF V THEN 3 ELSE 2 ELSE IF V THEN 2 ELSE 1]
    BY <1>4, <1>7, <1>8, <2>1 DEF Count
  <2> HIDE DEF h, w, x
  <2>6. h = [ out |-> "consumption", time |-> time,
             p |-> ValueOf(m, sent, got, MEASURE_POWER),
             v |-> ValueOf(m, sent, got, MEASURE_VOLTAGE),
             c |-> ValueOf(m, sent, got, MEASURE_CURRENT) ]
    BY <1>6, <2>1, <2>2, <2>3, <2>4, <2>5
  <2> QED
    BY <2>6 DEF h

(* The payload of a consumption frame, and what it means. *)
ConsMeasures(f, sent) ==
  [j \in DOMAIN f.meas |-> Word(f.meas[j].us) \o Words(Selected(f.meas[j], sent))]

ConsPayload(f, sent) == MeasPacket(CONSUMPTION_FRAME, Len(f.meas), f.ref, ConsMeasures(f, sent))

ConsMeant(f, sent, got) ==
  IF \E m \in Range(f.meas) : Len(Selected(m, sent)) # Len(Selected(m, got))
  THEN <<>>
  ELSE [j \in DOMAIN f.meas |->
          [out |-> "consumption", time |-> TimeOf(f, f.meas[j]),
           p |-> ValueOf(f.meas[j], sent, got, MEASURE_POWER),
           v |-> ValueOf(f.meas[j], sent, got, MEASURE_VOLTAGE),
           c |-> ValueOf(f.meas[j], sent, got, MEASURE_CURRENT)]]

(* The fields of one measure. *)
IsConsMeas(m) == m.us \in Uint32s /\ m.p \in Uint32s /\ m.v \in Uint32s /\ m.c \in Uint32s

(* A consumption frame is a packet of measures of one length. *)
LEMMA ConsFacts ==
  ASSUME NEW f, IsCons(f), NEW sent
  PROVE  /\ Len(f.meas) \in Nat /\ DOMAIN f.meas = 1..Len(f.meas)
         /\ \A j \in 1..Len(f.meas) :
              /\ IsConsMeas(f.meas[j])
              /\ Words(Selected(f.meas[j], sent)) \in Seq(Byte)
              /\ ConsMeasures(f, sent)[j] = Word(f.meas[j].us) \o Words(Selected(f.meas[j], sent))
         /\ IsMeas(CONSUMPTION_FRAME, Len(f.meas), f.ref, ConsMeasures(f, sent),
                   4 + 4 * Number(sent))
<1> DEFINE n == Len(f.meas)
           s == ConsMeasures(f, sent)
           V(j) == Words(Selected(f.meas[j], sent))
           w == 4 + 4 * Number(sent)
<1>1. f.meas \in Seq([us : Uint32s, p : Uint32s, v : Uint32s, c : Uint32s])
  BY DEF IsCons
<1>2. n \in Nat /\ DOMAIN f.meas = 1..n
  BY <1>1
<1>3. ASSUME NEW j \in 1..n
      PROVE  IsConsMeas(f.meas[j]) /\ V(j) \in Seq(Byte) /\ Len(V(j)) = 4 * Number(sent)
  <2> DEFINE m == f.meas[j]
  <2>1. m \in [us : Uint32s, p : Uint32s, v : Uint32s, c : Uint32s]
    BY <1>1, <1>3, SeqElement
  <2> HIDE DEF m
  <2>2. m.us \in Uint32s /\ m.p \in Uint32s /\ m.v \in Uint32s /\ m.c \in Uint32s
    BY <2>1
  <2>3. Selected(m, sent) \in Seq(Uint32s) /\ Len(Selected(m, sent)) = Number(sent)
    BY <2>2, SelectedFacts
  <2>4. Words(Selected(m, sent)) \in Seq(Byte) /\ Len(Words(Selected(m, sent))) = 4 * Number(sent)
    BY <2>3, WordsFacts
  <2> QED
    BY <2>2, <2>4 DEF IsConsMeas, m
<1> HIDE DEF V
<1>4. s = [j \in 1..n |-> Word(f.meas[j].us) \o V(j)]
  BY <1>2 DEF ConsMeasures, V
<1>5. ASSUME NEW j \in 1..n
      PROVE  s[j] = Word(f.meas[j].us) \o V(j) /\ s[j] \in Seq(Byte) /\ Len(s[j]) = w
  <2>1. s[j] = Word(f.meas[j].us) \o V(j)
    BY <1>4, <1>5, Zenon
  <2>2. Word(f.meas[j].us) \o V(j) \in Seq(Byte) /\ Len(Word(f.meas[j].us) \o V(j)) = 4 + Len(V(j))
    BY <1>3, <1>5, MeasureFacts DEF IsConsMeas
  <2> QED
    BY <1>3, <1>5, <2>1, <2>2, Zenon
<1>6. s \in [1..n -> Seq(Byte)]
  <2> DEFINE W(j) == Word(f.meas[j].us) \o V(j)
  <2> HIDE DEF W
  <2>1. s = [j \in 1..n |-> W(j)] /\ \A j \in 1..n : W(j) \in Seq(Byte)
    BY <1>4, <1>5 DEF W
  <2> QED
    BY <2>1
<1> HIDE DEF s
<1>7. s \in Seq(Seq(Byte)) /\ Len(s) = n
  BY <1>2, <1>6
<1>8. CONSUMPTION_FRAME \in Byte
  BY DEF CONSUMPTION_FRAME, Byte
<1>9. w \in Nat
  BY NumberRange
<1> HIDE DEF w
<1>10. IsMeas(CONSUMPTION_FRAME, n, f.ref, s, w)
  BY <1>2, <1>5, <1>7, <1>8, <1>9 DEF IsMeas, IsCons
<1> QED
  BY <1>2, <1>3, <1>5, <1>10 DEF s, V, w

(* Its length tells the number of values of a measure. *)
LEMMA ConsLen ==
  ASSUME NEW f, IsCons(f), NEW sent
  PROVE  Len(ConsPayload(f, sent)) = 6 + Len(f.meas) * (4 + 4 * Number(sent))
<1> DEFINE n == Len(f.meas)
           s == ConsMeasures(f, sent)
           w == 4 + 4 * Number(sent)
<1>1. IsMeas(CONSUMPTION_FRAME, n, f.ref, s, w)
  BY ConsFacts
<1> HIDE DEF n, s, w
<1>2. Len(MeasPacket(CONSUMPTION_FRAME, n, f.ref, s)) = 6 + n * w
  BY <1>1, MeasLen
<1> QED
  BY <1>2 DEF ConsPayload, n, s, w

(* Measures of another number of values than the layout's are dropped. *)
LEMMA ConsDropped ==
  ASSUME NEW f, IsCons(f), NEW sent, NEW got,
         \E m \in Range(f.meas) : Len(Selected(m, sent)) # Len(Selected(m, got))
  PROVE  /\ Number(sent) # Number(got)
         /\ Len(ConsPayload(f, sent)) # 6 + Len(f.meas) * (4 + 4 * Number(got))
<1> DEFINE n == Len(f.meas)
<1>1. n \in Nat /\ DOMAIN f.meas = 1..n /\ \A j \in 1..n : IsConsMeas(f.meas[j])
  BY ConsFacts
<1>2. PICK j \in 1..n : Len(Selected(f.meas[j], sent)) # Len(Selected(f.meas[j], got))
  BY <1>1 DEF Range
<1>3. Number(sent) # Number(got)
  BY <1>1, <1>2, SelectedFacts DEF IsConsMeas
<1>4. Len(ConsPayload(f, sent)) = 6 + n * (4 + 4 * Number(sent))
  BY ConsLen
<1> HIDE DEF n
<1>5. Number(sent) \in 0..3 /\ Number(got) \in 0..3 /\ n >= 1
  BY <1>1, <1>2, NumberRange
<1>6. ASSUME NEW a \in 0..3, NEW b \in 0..3, a # b
      PROVE  6 + n * (4 + 4 * a) # 6 + n * (4 + 4 * b)
  <2>1. /\ n * (4 + 4 * 0) = 4 * n /\ n * (4 + 4 * 1) = 8 * n
        /\ n * (4 + 4 * 2) = 12 * n /\ n * (4 + 4 * 3) = 16 * n
    BY <1>1
  <2>2. a \in {0, 1, 2, 3} /\ b \in {0, 1, 2, 3}
    BY <1>6
  <2> QED
    BY <1>1, <1>5, <1>6, <2>1, <2>2
<1>7. 6 + n * (4 + 4 * Number(sent)) # 6 + n * (4 + 4 * Number(got))
  BY <1>3, <1>5, <1>6
<1> QED
  BY <1>3, <1>4, <1>7 DEF n

(* With as many values as the layout has, its length is the expected one. *)
LEMMA ConsKept ==
  ASSUME NEW f, IsCons(f), NEW sent, NEW got,
         ~ \E m \in Range(f.meas) : Len(Selected(m, sent)) # Len(Selected(m, got))
  PROVE  /\ Len(f.meas) = 0 \/ Number(sent) = Number(got)
         /\ Len(ConsPayload(f, sent)) = 6 + Len(f.meas) * (4 + 4 * Number(got))
<1> DEFINE n == Len(f.meas)
<1>1. n \in Nat /\ DOMAIN f.meas = 1..n /\ \A j \in 1..n : IsConsMeas(f.meas[j])
  BY ConsFacts
<1>2. Len(ConsPayload(f, sent)) = 6 + n * (4 + 4 * Number(sent))
  BY ConsLen
<1>3. Number(sent) \in 0..3 /\ Number(got) \in 0..3
  BY NumberRange
<1>4. CASE n = 0
  <2> HIDE DEF n
  <2>1. n * (4 + 4 * Number(sent)) = 0 /\ n * (4 + 4 * Number(got)) = 0
    BY <1>3, <1>4
  <2> QED
    BY <1>2, <1>4, <2>1 DEF n
<1>5. CASE n # 0
  <2>1. 1 \in 1..n
    BY <1>1, <1>5
  <2>2. f.meas[1] \in Range(f.meas)
    BY <1>1, <2>1 DEF Range
  <2>3. Len(Selected(f.meas[1], sent)) = Len(Selected(f.meas[1], got))
    BY <2>2
  <2>4. Number(sent) = Number(got)
    BY <1>1, <2>1, <2>3, SelectedFacts DEF IsConsMeas
  <2> QED
    BY <1>2, <2>4
<1> QED
  BY <1>4, <1>5

(* A consumption frame gives its measures, named by the layout got. *)
LEMMA ConsGives ==
  ASSUME NEW f, IsCons(f), NEW sent, NEW got, NEW d, Holds(d, 0, ConsPayload(f, sent))
  PROVE  decode_pkt(d, Len(ConsPayload(f, sent)), Layout(got)) =
           Result(Layout(got), ConsMeant(f, sent, got))
<1> DEFINE n == Len(f.meas)
           s == ConsMeasures(f, sent)
           len == Len(ConsPayload(f, sent))
           mh == Layout(got)
           size == 4 * Number(got)
           meas == handle_oml_measure(d, len, size)
           w == 4 + 4 * Number(sent)
<1>1. /\ n \in Nat /\ DOMAIN f.meas = 1..n /\ IsMeas(CONSUMPTION_FRAME, n, f.ref, s, w)
      /\ \A j \in 1..n :
           /\ IsConsMeas(f.meas[j])
           /\ Words(Selected(f.meas[j], sent)) \in Seq(Byte)
           /\ s[j] = Word(f.meas[j].us) \o Words(Selected(f.meas[j], sent))
  BY ConsFacts
<1>2. Holds(d, 0, MeasPacket(CONSUMPTION_FRAME, n, f.ref, s))
  BY DEF ConsPayload
<1>3. mh.meas_len = size
  BY LayoutIs
<1> HIDE DEF n, s, len, w, mh, size
<1>4. At(d, 0) = CONSUMPTION_FRAME /\ \A j \in 1..n : Holds(d, 6 + (j - 1) * w, s[j])
  BY <1>1, <1>2, OmlFacts
<1>5. decode_pkt(d, len, mh) =
        Result(mh, [i \in DOMAIN meas |-> consumption_handler(d, mh, meas[i].at, meas[i].time)])
  BY <1>3, <1>4, DecodeBy
<1>6. /\ len # 6 + n * (4 + size) => meas = <<>>
      /\ len = 6 + n * (4 + size) => meas = Measured(d, n, f.ref, size)
  BY <1>1, <1>2, OmlFacts
<1> HIDE DEF meas
<1>7. CASE \E m \in Range(f.meas) : Len(Selected(m, sent)) # Len(Selected(m, got))
  <2>1. len # 6 + n * (4 + size)
    BY <1>7, ConsDropped DEF len, n, size
  <2>2. meas = <<>>
    BY <1>6, <2>1
  <2>3. [i \in DOMAIN meas |-> consumption_handler(d, mh, meas[i].at, meas[i].time)] = <<>>
    BY <2>2
  <2>4. ConsMeant(f, sent, got) = <<>>
    BY <1>7 DEF ConsMeant
  <2> QED
    BY <1>5, <2>3, <2>4 DEF len, mh
<1>8. CASE ~ \E m \in Range(f.meas) : Len(Selected(m, sent)) # Len(Selected(m, got))
  <2>1. len = 6 + n * (4 + size) /\ (n = 0 \/ Number(sent) = Number(got))
    BY <1>8, ConsKept DEF len, n, size
  <2>2. meas = Measured(d, n, f.ref, size)
    BY <1>6, <2>1
  <2>3. ASSUME NEW j \in 1..n
        PROVE  consumption_handler(d, mh, meas[j].at, meas[j].time) =
                 [out |-> "consumption", time |-> TimeOf(f, f.meas[j]),
                  p |-> ValueOf(f.meas[j], sent, got, MEASURE_POWER),
                  v |-> ValueOf(f.meas[j], sent, got, MEASURE_VOLTAGE),
                  c |-> ValueOf(f.meas[j], sent, got, MEASURE_CURRENT)]
    <3>1. Number(sent) = Number(got)
      BY <1>1, <2>1, <2>3
    <3>2. w = 4 + size
      BY <3>1 DEF w, size
    <3> DEFINE at == 6 + (j - 1) * w
               m == f.meas[j]
               v == Words(Selected(m, sent))
    <3>3. Holds(d, at, Word(m.us) \o v) /\ IsConsMeas(m) /\ v \in Seq(Byte)
      BY <1>1, <1>4, <2>3, Zenon
    <3>4. meas[j].at = at + 4 /\ meas[j].time = calculate_time_extended(f.ref, WordAt(d, at))
      BY <2>2, <2>3, <3>2 DEF Measured
    <3> HIDE DEF at, m, v
    <3>5. WordAt(d, at) = m.us /\ Holds(d, at + 4, v)
      BY <3>3, ReadMeasure DEF IsConsMeas
    <3>6. meas[j].time = TimeOf(f, m)
      BY <3>3, <3>4, <3>5, TimeNormal DEF IsCons, IsConsMeas
    <3>7. Holds(d, at + 4, Words(Selected(m, sent)))
      BY <3>5 DEF v
    <3> DEFINE x == at + 4
               t == TimeOf(f, m)
    <3> HIDE DEF x, t
    <3>8. consumption_handler(d, mh, x, t) =
            [out |-> "consumption", time |-> t,
             p |-> ValueOf(m, sent, got, MEASURE_POWER),
             v |-> ValueOf(m, sent, got, MEASURE_VOLTAGE),
             c |-> ValueOf(m, sent, got, MEASURE_CURRENT)]
      <4>1. Holds(d, x, Words(Selected(m, sent)))
        BY <3>7 DEF x
      <4>2. m.p \in Uint32s /\ m.v \in Uint32s /\ m.c \in Uint32s
        BY <3>3 DEF IsConsMeas
      <4> QED
        BY <3>1, <4>1, <4>2, HandlerReads DEF mh
    <3> QED
      BY <3>4, <3>6, <3>8 DEF x, t, m
  <2>4. DOMAIN meas = 1..n
    BY <2>2 DEF Measured
  <2>5. [i \in DOMAIN meas |-> consumption_handler(d, mh, meas[i].at, meas[i].time)] =
          [j \in 1..n |->
             [out |-> "consumption", time |-> TimeOf(f, f.meas[j]),
              p |-> ValueOf(f.meas[j], sent, got, MEASURE_POWER),
              v |-> ValueOf(f.meas[j], sent, got, MEASURE_VOLTAGE),
              c |-> ValueOf(f.meas[j], sent, got, MEASURE_CURRENT)]]
    BY <2>3, <2>4
  <2>6. ConsMeant(f, sent, got) =
          [j \in 1..n |->
             [out |-> "consumption", time |-> TimeOf(f, f.meas[j]),
              p |-> ValueOf(f.meas[j], sent, got, MEASURE_POWER),
              v |-> ValueOf(f.meas[j], sent, got, MEASURE_VOLTAGE),
              c |-> ValueOf(f.meas[j], sent, got, MEASURE_CURRENT)]]
    BY <1>1, <1>8, Zenon DEF ConsMeant
  <2> QED
    BY <1>5, <2>5, <2>6 DEF len, mh
<1> QED
  BY <1>7, <1>8

-----------------------------------------------------------------------------
(* Packets and frames *)

(* The layout the control node uses, and the one the gateway got. *)
Sent(fs, i) == Config(fs, i, DOMAIN fs)
Got(fs, i) == Config(fs, i, {j \in DOMAIN fs : fs[j].k # "lost"})

(* The frame i of fs, which fits in a packet. *)
Fits(fs, i) == fs[i] \in Frames /\ Filled(fs[i]) /\ Len(Payload(fs, i)) \in Byte

(* The payload of each kind of frame. *)
LEMMA PayloadIs ==
  ASSUME NEW fs, NEW i, fs[i] \in Frames
  PROVE  LET f == fs[i] IN
         /\ f.k = "answer" => Payload(fs, i) = <<f.type, f.ack>>
         /\ f.k = "error" => Payload(fs, i) = <<LOGGER_FRAME, f.code>>
         /\ f.k = "config" => Payload(fs, i) = <<ACK_FRAME, f.type, f.config>>
         /\ f.k = "sniff" => Payload(fs, i) = SniffPayload(f) /\ IsSniff(f)
         /\ f.k = "radio" => Payload(fs, i) = RadioPayload(f) /\ IsRadio(f)
         /\ f.k = "consumption" => Payload(fs, i) = ConsPayload(f, Sent(fs, i)) /\ IsCons(f)
         /\ f.k = "empty" => Payload(fs, i) = <<>>
<1> DEFINE f == fs[i]
<1>1. CASE f.k = "answer"
  BY <1>1, Zenon DEF Payload
<1>2. CASE f.k = "error"
  BY <1>2 DEF Payload
<1>3. CASE f.k = "config"
  BY <1>3 DEF Payload
<1>4. CASE f.k = "sniff"
  BY <1>4, FrameKinds DEF Payload, SniffPayload, IsSniff
<1>5. CASE f.k = "radio"
  <2>1. Payload(fs, i) = RadioPayload(f)
    BY <1>5 DEF Payload, RadioPayload, MeasPacket, RadioMeasures
  <2> QED
    BY <1>5, <2>1, FrameKinds DEF IsRadio
<1>6. CASE f.k = "consumption"
  <2>1. Payload(fs, i) = ConsPayload(f, Sent(fs, i))
    BY <1>6 DEF Payload, ConsPayload, MeasPacket, ConsMeasures, Sent
  <2> QED
    BY <1>6, <2>1, FrameKinds DEF IsCons
<1>7. CASE f.k = "empty"
  BY <1>7 DEF Payload
<1> QED
  BY <1>1, <1>2, <1>3, <1>4, <1>5, <1>6, <1>7

(* The types of commands and acknowledgements are bytes. *)
LEMMA CommandBytes == CommandTypes \subseteq Byte /\ ack_d \subseteq Byte
BY DEF CommandTypes, ack_d, Byte

(* The number of measures of a packet is a byte if its length is. *)
LEMMA MeasFit ==
  ASSUME NEW a, NEW n, NEW ref, NEW s, NEW w, IsMeas(a, n, ref, s, w), w >= 4,
         Len(MeasPacket(a, n, ref, s)) \in Byte
  PROVE  MeasPacket(a, n, ref, s) \in Seq(Byte)
<1>1. n \in Nat /\ w \in Nat
  BY DEF IsMeas
<1>2. 6 + n * w \in 0..255
  BY MeasLen DEF Byte
<1>3. n * w >= n
  <2>1. w - 1 \in Nat /\ n * (w - 1) \in Nat
    BY <1>1
  <2>2. n * w = n * (w - 1) + n
    BY <1>1
  <2> QED
    BY <1>1, <2>1, <2>2
<1>4. n \in 0..255
  <2> DEFINE x == n * w
  <2>1. x \in Nat
    BY <1>1
  <2> HIDE DEF x
  <2>2. 6 + x \in 0..255 /\ x >= n
    BY <1>2, <1>3 DEF x
  <2> QED
    BY <1>1, <2>1, <2>2
<1>5. n \in Byte
  BY <1>4 DEF Byte
<1> QED
  BY <1>5, MeasFacts, Zenon

(* A payload is some bytes. *)
LEMMA PayloadFacts ==
  ASSUME NEW fs, NEW i, Fits(fs, i)
  PROVE  Payload(fs, i) \in Seq(Byte) /\ Len(Payload(fs, i)) > 0
<1> DEFINE f == fs[i]
           P == Payload(fs, i)
<1>0. f \in Frames /\ Len(P) \in Byte
  BY DEF Fits
<1>1. CASE f.k \in {"answer", "error", "config"}
  <2>1. CASE f.k = "answer"
    <3>1. P = <<f.type, f.ack>> /\ f.type \in Byte /\ f.ack \in Byte
      BY <1>0, <2>1, PayloadIs, FrameKinds, CommandBytes
    <3> HIDE DEF P
    <3> QED
      BY <3>1 DEF P
  <2>2. CASE f.k = "error"
    <3>1. P = <<LOGGER_FRAME, f.code>>
      BY <1>0, <2>2, PayloadIs, Zenon
    <3>2. f.code \in Byte
      BY <1>0, <2>2, FrameKinds, Zenon
    <3>3. LOGGER_FRAME \in Byte
      BY DEF LOGGER_FRAME, Byte
    <3> HIDE DEF P
    <3> QED
      BY <3>1, <3>2, <3>3 DEF P
  <2>3. CASE f.k = "config"
    <3>1. P = <<ACK_FRAME, f.type, f.config>>
      BY <1>0, <2>3, PayloadIs, Zenon
    <3>2. f.type \in Byte /\ f.config \in Byte
      BY <1>0, <2>3, FrameKinds, Zenon
    <3>3. ACK_FRAME \in Byte
      BY DEF ACK_FRAME, Byte
    <3> HIDE DEF P
    <3> QED
      BY <3>1, <3>2, <3>3 DEF P
  <2> QED
    BY <1>1, <2>1, <2>2, <2>3
<1>2. CASE f.k = "sniff"
  <2>1. P = SniffPayload(f) /\ IsSniff(f)
    BY <1>0, <1>2, PayloadIs
  <2>2. P \in Seq(Byte)
    BY <1>0, <2>1, SniffPayloadFacts
  <2>3. Len(P) = 33 + Len(f.payload) /\ Len(f.payload) \in Nat
    BY <2>1, SniffPayloadFacts, ZepFacts
  <2> QED
    BY <2>2, <2>3
<1>3. CASE f.k = "radio"
  <2>1. P = RadioPayload(f) /\ IsRadio(f)
    BY <1>0, <1>3, PayloadIs
  <2> DEFINE n == Len(f.meas)
             s == RadioMeasures(f)
  <2>2. /\ n \in Nat /\ IsMeas(RADIO_MEAS_FRAME, n, f.ref, s, 6)
        /\ P = MeasPacket(RADIO_MEAS_FRAME, n, f.ref, s)
    BY <2>1, RadioFacts DEF RadioPayload
  <2> HIDE DEF n, s, P
  <2>3. P \in Seq(Byte) /\ Len(P) = 6 + n * 6
    BY <1>0, <2>2, MeasFit, MeasLen
  <2> QED
    BY <2>2, <2>3 DEF P
<1>4. CASE f.k = "consumption"
  <2>1. P = ConsPayload(f, Sent(fs, i)) /\ IsCons(f)
    BY <1>0, <1>4, PayloadIs
  <2> DEFINE n == Len(f.meas)
             s == ConsMeasures(f, Sent(fs, i))
             w == 4 + 4 * Number(Sent(fs, i))
  <2>2. /\ n \in Nat /\ IsMeas(CONSUMPTION_FRAME, n, f.ref, s, w)
        /\ P = MeasPacket(CONSUMPTION_FRAME, n, f.ref, s)
    BY <2>1, ConsFacts DEF ConsPayload
  <2>3. w \in Nat /\ w >= 4
    BY NumberRange
  <2> HIDE DEF n, s, P, w
  <2>4. P \in Seq(Byte) /\ Len(P) = 6 + n * w
    BY <1>0, <2>2, <2>3, MeasFit, MeasLen
  <2>5. n * w \in Nat
    BY <2>2, <2>3
  <2> QED
    BY <2>4, <2>5 DEF P
<1> QED
  BY <1>0, <1>1, <1>2, <1>3, <1>4, FrameKinds DEF Fits, Filled

(* The packet of a frame gives what the frame means, and changes the layout *)
(* only if it announces one.                                                *)
Delivered(r, mh, out) == r.mh = mh /\ IsSeq(r.out) /\ IsSeq(out) /\ TrimAll(r.out) = out

(* Outputs that are not for a client are not trimmed. *)
LEMMA TrimOthers ==
  ASSUME NEW s, IsSeq(s), \A i \in 1..Len(s) : s[i].out # "client", NEW mh
  PROVE  Delivered(Result(mh, s), mh, s)
<1>1. \A i \in 1..Len(s) : Trimmed(s[i]) = s[i]
  BY DEF Trimmed
<1>2. DOMAIN s = 1..Len(s) /\ s = [i \in 1..Len(s) |-> s[i]]
  BY SeqFacts
<1>3. TrimAll(s) = s
  BY <1>1, <1>2 DEF TrimAll
<1> QED
  BY <1>3 DEF Delivered, Result

(* A sequence of one element. *)
LEMMA OneIs ==
  ASSUME NEW x PROVE IsSeq(<<x>>) /\ Len(<<x>>) = 1 /\ <<x>>[1] = x
<1>1. <<x>> \in Seq({x}) /\ Len(<<x>>) = 1 /\ <<x>>[1] = x
  OBVIOUS
<1> QED
  BY <1>1, SeqIs

(* The same for one output. *)
LEMMA TrimOne ==
  ASSUME NEW x, x.out # "client", NEW mh
  PROVE  Delivered(Result(mh, <<x>>), mh, <<x>>)
<1> DEFINE s == <<x>>
<1>1. IsSeq(s) /\ Len(s) = 1 /\ s[1] = x
  BY OneIs
<1> HIDE DEF s
<1>2. \A i \in 1..Len(s) : s[i].out # "client"
  BY <1>1
<1>3. Delivered(Result(mh, s), mh, s)
  BY <1>1, <1>2, TrimOthers
<1> QED
  BY <1>3 DEF s

(* The same for none. *)
LEMMA TrimNone ==
  ASSUME NEW mh PROVE Delivered(Result(mh, <<>>), mh, <<>>)
<1> DEFINE s == <<>>
<1>1. IsSeq(s) /\ Len(s) = 0
  BY EmptyIs
<1> HIDE DEF s
<1>2. Delivered(Result(mh, s), mh, s)
  BY <1>1, TrimOthers
<1> QED
  BY <1>2 DEF s

(* The same for the message of an acknowledgement. *)
LEMMA AckedIs ==
  ASSUME NEW f, NEW mh PROVE Delivered(Result(mh, Acked(f)), mh, Acked(f))
<1>1. CASE Acked(f) = <<>>
  BY <1>1, TrimNone
<1>2. CASE Acked(f) = <<[out |-> "config_ack", type |-> f.type]>>
  <2> DEFINE x == [out |-> "config_ack", type |-> f.type]
  <2>1. x.out # "client"
    OBVIOUS
  <2> HIDE DEF x
  <2>2. Delivered(Result(mh, <<x>>), mh, <<x>>)
    BY <2>1, TrimOne
  <2> QED
    BY <1>2, <2>2 DEF x
<1> QED
  BY <1>1, <1>2 DEF Acked

(* What each kind of frame means. *)
LEMMA MeantIs ==
  ASSUME NEW fs, NEW i
  PROVE  LET f == fs[i] IN
         /\ f.k = "answer" =>
              Meant(fs, i) = <<[out |-> "answer", type |-> f.type, ack |-> f.ack]>>
         /\ f.k = "error" =>
              Meant(fs, i) =
                <<[out |-> "error", code |-> IF CharSigned THEN Int8(f.code) ELSE f.code]>>
         /\ f.k = "config" => Meant(fs, i) = Acked(f)
         /\ f.k = "sniff" => Meant(fs, i) = <<[out |-> "client", bytes |-> Zep(f)], Sniffed(f)>>
         /\ f.k = "radio" => Meant(fs, i) = RadioMeant(f)
         /\ f.k = "consumption" => Meant(fs, i) = ConsMeant(f, Sent(fs, i), Got(fs, i))
         /\ f.k \in {"noise", "lost"} => Meant(fs, i) = <<>>
<1> DEFINE f == fs[i]
<1>1. CASE f.k = "answer"
  BY <1>1 DEF Meant
<1>2. CASE f.k = "error"
  BY <1>2 DEF Meant
<1>3. CASE f.k = "config"
  BY <1>3 DEF Meant
<1>4. CASE f.k = "sniff"
  BY <1>4 DEF Meant, Sniffed
<1>5. CASE f.k = "radio"
  BY <1>5 DEF Meant, RadioMeant
<1>6. CASE f.k = "consumption"
  BY <1>6, Zenon DEF Meant, ConsMeant, Sent, Got
<1>7. CASE f.k \in {"noise", "lost"}
  BY <1>7 DEF Meant
<1> QED
  BY <1>1, <1>2, <1>3, <1>4, <1>5, <1>6, <1>7

(* The measures of a radio frame are not trimmed. *)
LEMMA RadioMeantIs ==
  ASSUME NEW f, IsRadio(f), NEW mh
  PROVE  Delivered(Result(mh, RadioMeant(f)), mh, RadioMeant(f))
<1> DEFINE n == Len(f.meas)
           s == RadioMeant(f)
<1>1. n \in Nat /\ DOMAIN f.meas = 1..n
  BY RadioFacts
<1>2. s = [j \in 1..n |-> s[j]] /\ \A j \in 1..n : s[j].out = "radio"
  BY <1>1 DEF RadioMeant
<1> HIDE DEF s, n
<1>3. IsSeq(s) /\ Len(s) = n
  BY <1>1, <1>2, SeqMake
<1>4. Delivered(Result(mh, s), mh, s)
  BY <1>2, <1>3, TrimOthers
<1> QED
  BY <1>4 DEF s

(* Nor are those of a consumption frame. *)
LEMMA ConsMeantIs ==
  ASSUME NEW f, IsCons(f), NEW sent, NEW got, NEW mh
  PROVE  Delivered(Result(mh, ConsMeant(f, sent, got)), mh, ConsMeant(f, sent, got))
<1> DEFINE n == Len(f.meas)
           s == ConsMeant(f, sent, got)
<1>1. n \in Nat /\ DOMAIN f.meas = 1..n
  BY ConsFacts
<1>2. CASE s = <<>>
  BY <1>2, TrimNone
<1>3. CASE s # <<>>
  <2>1. s = [j \in 1..n |-> s[j]] /\ \A j \in 1..n : s[j].out = "consumption"
    BY <1>1, <1>3 DEF ConsMeant
  <2> HIDE DEF s, n
  <2>2. IsSeq(s) /\ Len(s) = n
    BY <1>1, <2>1, SeqMake
  <2>3. Delivered(Result(mh, s), mh, s)
    BY <2>1, <2>2, TrimOthers
  <2> QED
    BY <2>3 DEF s
<1> QED
  BY <1>2, <1>3

(* The layout after the frame i. *)
LayoutAfter(fs, i) ==
  IF Announces(fs[i]) THEN Layout(fs[i].config) ELSE Layout(Got(fs, i))

(* decode_pkt makes of a packet, in a buffer that starts with it, exactly   *)
(* what its frame means, and takes the layout that it announces.            *)
LEMMA FrameGives ==
  ASSUME NEW fs, NEW i, Fits(fs, i), NEW d, Holds(d, 0, Payload(fs, i))
  PROVE  Delivered(decode_pkt(d, Len(Payload(fs, i)), Layout(Got(fs, i))),
                   LayoutAfter(fs, i), Meant(fs, i))
<1> DEFINE f == fs[i]
           P == Payload(fs, i)
           mh == Layout(Got(fs, i))
<1>0. f \in Frames /\ Holds(d, 0, P)
  BY DEF Fits
<1>1. f.k # "config" => LayoutAfter(fs, i) = mh
  BY DEF LayoutAfter, Announces
<1> HIDE DEF mh
<1>2. CASE f.k = "answer"
  <2> DEFINE x == [out |-> "answer", type |-> f.type, ack |-> f.ack]
  <2>1. P = <<f.type, f.ack>> /\ f.type \in CommandTypes /\ f.ack \in ack_d
    BY <1>0, <1>2, PayloadIs, FrameKinds
  <2>2. Len(P) = 2
    BY <2>1
  <2>3. decode_pkt(d, 2, mh) = Result(mh, <<x>>)
    BY <1>0, <2>1, AnswerGives
  <2>4. Meant(fs, i) = <<x>>
    BY <1>2, MeantIs
  <2>5. x.out # "client"
    OBVIOUS
  <2> HIDE DEF x
  <2>6. Delivered(Result(mh, <<x>>), mh, <<x>>)
    BY <2>5, TrimOne
  <2> QED
    BY <1>1, <1>2, <2>2, <2>3, <2>4, <2>6 DEF mh
<1>3. CASE f.k = "error"
  <2> DEFINE x == [out |-> "error", code |-> IF CharSigned THEN Int8(f.code) ELSE f.code]
  <2>1. P = <<LOGGER_FRAME, f.code>> /\ f.code \in Byte
    BY <1>0, <1>3, PayloadIs, FrameKinds
  <2>2. Len(P) = 2
    BY <2>1
  <2>3. decode_pkt(d, 2, mh) = Result(mh, <<x>>)
    BY <1>0, <2>1, ErrorGives
  <2>4. Meant(fs, i) = <<x>>
    BY <1>3, MeantIs
  <2>5. x.out # "client"
    OBVIOUS
  <2> HIDE DEF x
  <2>6. Delivered(Result(mh, <<x>>), mh, <<x>>)
    BY <2>5, TrimOne
  <2> QED
    BY <1>1, <1>3, <2>2, <2>3, <2>4, <2>6 DEF mh
<1>4. CASE f.k = "config"
  <2>1. P = <<ACK_FRAME, f.type, f.config>>
    BY <1>0, <1>4, PayloadIs
  <2>2. decode_pkt(d, Len(P), mh) =
          Result(IF f.type = CONFIG_CONSUMPTION THEN Layout(f.config) ELSE mh, Acked(f))
    BY <1>0, <2>1, AckGives
  <2>3. (IF f.type = CONFIG_CONSUMPTION THEN Layout(f.config) ELSE mh) = LayoutAfter(fs, i)
    BY <1>4 DEF LayoutAfter, Announces, mh
  <2>4. Meant(fs, i) = Acked(f)
    BY <1>4, MeantIs
  <2> QED
    BY <2>2, <2>3, <2>4, AckedIs DEF mh
<1>5. CASE f.k = "sniff"
  <2>1. P = SniffPayload(f) /\ IsSniff(f)
    BY <1>0, <1>5, PayloadIs
  <2>2. PICK bytes : /\ decode_pkt(d, Len(P), mh) =
                          Result(mh, <<[out |-> "client", bytes |-> bytes], Sniffed(f)>>)
                     /\ SubSeq(bytes, 1, Len(bytes) - 1) = Zep(f)
    BY <1>0, <2>1, SniffGives
  <2> DEFINE a == [out |-> "client", bytes |-> bytes]
             b == [out |-> "client", bytes |-> Zep(f)]
             c == Sniffed(f)
  <2>3. Trimmed(a) = b
    BY <2>2 DEF Trimmed
  <2>4. Trimmed(c) = c
    BY DEF Trimmed, Sniffed
  <2>5. Meant(fs, i) = <<b, c>>
    BY <1>5, MeantIs
  <2> HIDE DEF a, b, c
  <2>6. TrimAll(<<a, c>>) = <<b, c>>
    BY <2>3, <2>4 DEF TrimAll
  <2>7. IsSeq(<<a, c>>) /\ IsSeq(<<b, c>>)
    <3>1. <<a, c>> \in Seq({a, b, c}) /\ <<b, c>> \in Seq({a, b, c})
      OBVIOUS
    <3> QED
      BY <3>1, SeqIs
  <2>8. Delivered(Result(mh, <<a, c>>), mh, <<b, c>>)
    BY <2>6, <2>7 DEF Delivered, Result
  <2> QED
    BY <1>1, <1>5, <2>2, <2>5, <2>8 DEF a, c, mh
<1>6. CASE f.k = "radio"
  <2>1. P = RadioPayload(f) /\ IsRadio(f)
    BY <1>0, <1>6, PayloadIs
  <2>2. decode_pkt(d, Len(P), mh) = Result(mh, RadioMeant(f))
    BY <1>0, <2>1, RadioGives
  <2>3. Meant(fs, i) = RadioMeant(f)
    BY <1>6, MeantIs
  <2> QED
    BY <1>1, <1>6, <2>1, <2>2, <2>3, RadioMeantIs DEF mh
<1>7. CASE f.k = "consumption"
  <2> DEFINE sent == Sent(fs, i)
             got == Got(fs, i)
  <2>1. P = ConsPayload(f, sent) /\ IsCons(f)
    BY <1>0, <1>7, PayloadIs
  <2>2. Meant(fs, i) = ConsMeant(f, sent, got)
    BY <1>7, MeantIs
  <2>3. mh = Layout(got)
    BY DEF mh
  <2> HIDE DEF sent, got
  <2>4. decode_pkt(d, Len(P), Layout(got)) = Result(Layout(got), ConsMeant(f, sent, got))
    BY <1>0, <2>1, ConsGives
  <2>5. Delivered(Result(mh, ConsMeant(f, sent, got)), mh, ConsMeant(f, sent, got))
    BY <2>1, ConsMeantIs
  <2> QED
    BY <1>1, <1>7, <2>2, <2>3, <2>4, <2>5 DEF mh
<1> QED
  BY <1>0, <1>2, <1>3, <1>4, <1>5, <1>6, <1>7, FrameKinds DEF Fits, Filled

-----------------------------------------------------------------------------
(* The stream of the frames *)

(* The streams of StreamsAssumption. *)
Stream(fs) ==
  /\ fs \in Seq(Frames)
  /\ \A i \in DOMAIN fs :
       fs[i].k \notin {"noise", "lost"} => Len(Payload(fs, i)) \in Byte

(* Every frame of a stream is a frame, and a filled one fits in a packet. *)
LEMMA StreamFacts ==
  ASSUME NEW fs, Stream(fs)
  PROVE  /\ Len(fs) \in Nat /\ DOMAIN fs = 1..Len(fs) /\ IsSeq(fs)
         /\ \A i \in 1..Len(fs) : fs[i] \in Frames /\ (Filled(fs[i]) => Fits(fs, i))
<1>1. fs \in Seq(Frames) /\ Len(fs) \in Nat /\ DOMAIN fs = 1..Len(fs) /\ IsSeq(fs)
  BY SeqIs DEF Stream
<1>2. ASSUME NEW i \in 1..Len(fs) PROVE fs[i] \in Frames /\ (Filled(fs[i]) => Fits(fs, i))
  <2>1. fs[i] \in Frames
    BY <1>1, <1>2, SeqElement
  <2>2. Filled(fs[i]) => Len(Payload(fs, i)) \in Byte
    BY <1>1, <1>2 DEF Stream, Filled
  <2> QED
    BY <2>1, <2>2 DEF Fits
<1> QED
  BY <1>1, <1>2

(* The bytes of a frame. *)
LEMMA EncodeFacts ==
  ASSUME NEW fs, Stream(fs), NEW i \in 1..Len(fs)
  PROVE  /\ Encode(fs, i) \in Seq(Byte)
         /\ fs[i].k = "lost" => Encode(fs, i) = <<>>
         /\ fs[i].k = "noise" => Encode(fs, i) = fs[i].bytes
         /\ fs[i].k = "empty" => Encode(fs, i) = <<SYNC_BYTE, 0>>
         /\ Filled(fs[i]) =>
              /\ Len(Encode(fs, i)) = 2 + Len(Payload(fs, i))
              /\ Holds(Encode(fs, i), 0, <<SYNC_BYTE, Len(Payload(fs, i))>>)
              /\ Holds(Encode(fs, i), 2, Payload(fs, i))
<1> DEFINE f == fs[i]
           P == Payload(fs, i)
           e == Encode(fs, i)
<1>1. f \in Frames /\ (Filled(f) => Fits(fs, i))
  BY StreamFacts
<1>2. SYNC_BYTE \in Byte /\ 0 \in Byte
  BY DEF SYNC_BYTE, Byte
<1>3. CASE f.k = "lost"
  <2>1. e = <<>>
    BY <1>3 DEF Encode
  <2> QED
    BY <1>3, <2>1 DEF Filled
<1>4. CASE f.k = "noise"
  <2>1. e = f.bytes /\ f.bytes \in Seq(Byte)
    BY <1>1, <1>4, FrameKinds DEF Encode
  <2> QED
    BY <1>4, <2>1 DEF Filled
<1>5. CASE f.k = "empty"
  <2>1. P = <<>> /\ e = <<SYNC_BYTE, Len(P)>> \o P
    BY <1>1, <1>5, PayloadIs DEF Encode
  <2>2. e = <<SYNC_BYTE, 0>> \o <<>>
    BY <2>1, EmptyIs
  <2>3. <<SYNC_BYTE, 0>> \in Seq(Byte)
    BY <1>2
  <2>4. e = <<SYNC_BYTE, 0>>
    BY <2>2, <2>3, SeqIs, ConcatEmpty
  <2> QED
    BY <1>5, <2>3, <2>4 DEF Filled
<1>6. CASE Filled(f)
  <2>1. P \in Seq(Byte) /\ Len(P) \in Byte
    BY <1>1, <1>6, PayloadFacts DEF Fits
  <2>2. e = <<SYNC_BYTE, Len(P)>> \o P
    BY <1>6 DEF Encode, Filled
  <2> DEFINE h == <<SYNC_BYTE, Len(P)>>
  <2>3. h \in Seq(Byte) /\ Len(h) = 2
    BY <1>2, <2>1
  <2> HIDE DEF h, P, e
  <2>4. h \o P \in Seq(Byte)
    BY <2>1, <2>3, ConcatTyped
  <2>5. IsSeq(h) /\ IsSeq(P)
    BY <2>1, <2>3, SeqIs
  <2>6. Len(h \o P) = 2 + Len(P) /\ Holds(h \o P, 0, h) /\ Holds(h \o P, 2, P)
    BY <2>3, <2>5, Concat
  <2>7. e = h \o P
    BY <2>2 DEF h
  <2>8. e \in Seq(Byte) /\ Len(e) = 2 + Len(P) /\ Holds(e, 0, h) /\ Holds(e, 2, P)
    BY <2>4, <2>6, <2>7
  <2> QED
    BY <1>6, <2>8 DEF e, P, h, Filled
<1> QED
  BY <1>1, <1>3, <1>4, <1>5, <1>6, FrameKinds DEF Filled

(* The bytes of the frames and what they mean. *)
EncodesOf(fs) == [i \in DOMAIN fs |-> Encode(fs, i)]
MeantOf(fs) == [i \in DOMAIN fs |-> Meant(fs, i)]

(* What a frame means is a sequence. *)
LEMMA MeantSeq ==
  ASSUME NEW fs, Stream(fs), NEW i \in 1..Len(fs)
  PROVE  IsSeq(Meant(fs, i))
<1>1. fs[i] \in Frames /\ (Filled(fs[i]) => Fits(fs, i))
  BY StreamFacts
<1>2. CASE Filled(fs[i])
  <2> DEFINE P == Payload(fs, i)
  <2>1. Holds(P, 0, P)
    BY <1>1, <1>2, PayloadFacts, SeqIs, HoldsSelf
  <2> QED
    BY <1>1, <1>2, <2>1, FrameGives DEF Delivered
<1>3. CASE fs[i].k \in {"noise", "lost"}
  BY <1>3, MeantIs, EmptyIs
<1>4. CASE fs[i].k = "empty"
  <2>1. Meant(fs, i) = <<>> \/ \E g : Meant(fs, i) = Acked(g)
    BY <1>4 DEF Meant
  <2> QED
    BY <2>1, EmptyIs, AckedIs DEF Delivered
<1> QED
  BY <1>1, <1>2, <1>3, <1>4, FrameKinds DEF Filled

(* The bytes of the frames, and what they mean, joined. *)
LEMMA StreamJoins ==
  ASSUME NEW fs, Stream(fs)
  PROVE  /\ Len(EncodesOf(fs)) = Len(fs) /\ Len(MeantOf(fs)) = Len(fs)
         /\ \E B : Joins(B, EncodesOf(fs)) /\ Bytes(fs) = B[Len(fs)]
         /\ \E M : Joins(M, MeantOf(fs)) /\ FlattenSeq(MeantOf(fs)) = M[Len(fs)]
         /\ Bytes(fs) \in Seq(Byte)
<1> DEFINE n == Len(fs)
           e == EncodesOf(fs)
           m == MeantOf(fs)
<1>1. n \in Nat /\ DOMAIN fs = 1..n
  BY StreamFacts
<1>2. /\ e = [i \in 1..n |-> e[i]] /\ m = [i \in 1..n |-> m[i]]
      /\ \A i \in 1..n : e[i] = Encode(fs, i) /\ m[i] = Meant(fs, i)
  BY <1>1 DEF EncodesOf, MeantOf
<1>3. \A i \in 1..n : e[i] \in Seq(Byte) /\ IsSeq(e[i]) /\ IsSeq(m[i])
  <2> SUFFICES ASSUME NEW i \in 1..n PROVE e[i] \in Seq(Byte) /\ IsSeq(e[i]) /\ IsSeq(m[i])
    OBVIOUS
  <2>1. Encode(fs, i) \in Seq(Byte) /\ IsSeq(Meant(fs, i))
    BY EncodeFacts, MeantSeq
  <2>2. e[i] = Encode(fs, i) /\ m[i] = Meant(fs, i)
    BY <1>2
  <2> HIDE DEF e, m, n
  <2> QED
    BY <2>1, <2>2, SeqIs
<1>4. Bytes(fs) = FlattenSeq(e)
  BY DEF Bytes, EncodesOf
<1> HIDE DEF e, m, n
<1>5. IsSeq(e) /\ Len(e) = n /\ IsSeq(m) /\ Len(m) = n
  BY <1>1, <1>2, SeqMake
<1>6. PICK B : Joins(B, e) /\ FlattenSeq(e) = B[n]
  BY <1>3, <1>5, FlattenJoins
<1>7. \E M : Joins(M, m) /\ FlattenSeq(m) = M[n]
  BY <1>3, <1>5, FlattenJoins
<1>8. B[n] \in Seq(Byte)
  BY <1>3, <1>5, <1>6, JoinsTyped
<1> QED
  BY <1>4, <1>5, <1>6, <1>7, <1>8 DEF e, m, n

(* A frame without bytes means nothing. *)
LEMMA Silent ==
  ASSUME NEW fs, Stream(fs), NEW i \in 1..Len(fs), Encode(fs, i) = <<>>
  PROVE  Meant(fs, i) = <<>> /\ ~ Filled(fs[i]) /\ fs[i].k \in {"noise", "lost"}
<1>1. fs[i].k # "empty"
  <2>1. <<SYNC_BYTE, 0>> # <<>>
    OBVIOUS
  <2> QED
    BY <2>1, EncodeFacts
<1>2. ~ Filled(fs[i])
  <2> SUFFICES ASSUME Filled(fs[i]) PROVE FALSE
    OBVIOUS
  <2>1. Len(Encode(fs, i)) = 2 + Len(Payload(fs, i)) /\ Len(Payload(fs, i)) \in Nat
    <3>1. Fits(fs, i)
      BY StreamFacts
    <3>2. Payload(fs, i) \in Seq(Byte)
      BY <3>1, PayloadFacts
    <3>3. Len(Encode(fs, i)) = 2 + Len(Payload(fs, i))
      BY EncodeFacts, Zenon
    <3>4. Len(Payload(fs, i)) \in Nat
      BY <3>2, SeqIs, Zenon
    <3> QED
      BY <3>3, <3>4
  <2>2. Len(Encode(fs, i)) = 0
    BY EmptyIs
  <2> QED
    BY <2>1, <2>2
<1>3. fs[i].k \in {"noise", "lost"}
  BY <1>1, <1>2, StreamFacts, FrameKinds DEF Filled
<1> QED
  BY <1>2, <1>3, MeantIs

-----------------------------------------------------------------------------
(* Empty packets *)

(* What an empty packet repeats of the frame f before it. *)
Repeated(f) == IF f.k = "config" THEN Acked(f) ELSE <<>>

(* A packet of measures of which no byte counts. *)
LEMMA NoMeasure ==
  ASSUME NEW a, NEW n, NEW ref, NEW s, NEW w, IsMeas(a, n, ref, s, w), NEW d,
         Holds(d, 0, MeasPacket(a, n, ref, s)), NEW size \in Nat
  PROVE  At(d, 0) = a /\ handle_oml_measure(d, 0, size) = <<>>
<1>1. n \in Nat
  BY DEF IsMeas
<1>2. 0 # 6 + n * (4 + size)
  <2>1. n * (4 + size) \in Nat
    BY <1>1
  <2> QED
    BY <2>1
<1> QED
  BY <1>2, OmlFacts

(* Of an empty packet nothing is read but the first bytes of the packet     *)
(* before it, which the buffer still holds.                                 *)
LEMMA EmptyGives ==
  ASSUME NEW fs, NEW l, Fits(fs, l), NEW d, Holds(d, 0, Payload(fs, l)), NEW g,
         Announces(fs[l]) => g = fs[l].config
  PROVE  decode_pkt(d, 0, Layout(g)) = Result(Layout(g), Repeated(fs[l]))
<1> DEFINE f == fs[l]
           P == Payload(fs, l)
           mh == Layout(g)
<1>0. f \in Frames /\ Filled(f) /\ Holds(d, 0, P)
  BY DEF Fits
<1> HIDE DEF P
<1>1. write_answer(d, 0) = <<>>
  BY DEF write_answer
<1>2. CASE f.k = "answer"
  <2>1. P = <<f.type, f.ack>> /\ f.type \in CommandTypes
    BY <1>0, <1>2, PayloadIs, FrameKinds DEF P
  <2>2. At(d, 0) = f.type
    BY <1>0, <2>1, ReadTwo
  <2>3. f.type \div 16 # 15
    BY <2>1 DEF CommandTypes
  <2>4. decode_pkt(d, 0, mh) = Result(mh, <<>>)
    BY <1>1, <2>2, <2>3, DecodeBy
  <2> QED
    BY <1>2, <2>4 DEF Repeated
<1>3. CASE f.k = "error"
  <2>1. P = <<LOGGER_FRAME, f.code>>
    BY <1>0, <1>3, PayloadIs DEF P
  <2>2. At(d, 0) = LOGGER_FRAME
    BY <1>0, <2>1, ReadTwo
  <2>3. LOGGER_FRAME \div 16 # 15
    BY DEF LOGGER_FRAME
  <2>4. decode_pkt(d, 0, mh) = Result(mh, <<>>)
    BY <1>1, <2>2, <2>3, DecodeBy
  <2> QED
    BY <1>3, <2>4 DEF Repeated
<1>4. CASE f.k = "config"
  <2>1. P = <<ACK_FRAME, f.type, f.config>>
    BY <1>0, <1>4, PayloadIs DEF P
  <2>2. Holds(d, 0, <<ACK_FRAME, f.type, f.config>>)
    BY <1>0, <2>1
  <2>3. decode_pkt(d, 0, mh) =
          Result(IF f.type = CONFIG_CONSUMPTION THEN Layout(f.config) ELSE mh, Acked(f))
    BY <2>2, AckGives
  <2>4. (IF f.type = CONFIG_CONSUMPTION THEN Layout(f.config) ELSE mh) = mh
    BY <1>4 DEF Announces
  <2>5. Repeated(f) = Acked(f)
    BY <1>4 DEF Repeated
  <2> QED
    BY <2>3, <2>4, <2>5
<1>5. CASE f.k = "sniff"
  <2>1. P = SniffPayload(f) /\ IsSniff(f)
    BY <1>0, <1>5, PayloadIs DEF P
  <2>2. Holds(d, 0, <<RADIO_SNIFFER_FRAME>>)
    <3>1. Holds(SniffPayload(f), 0, <<RADIO_SNIFFER_FRAME>>)
      BY <2>1, SniffPayloadFacts
    <3>2. Holds(d, 0 + 0, <<RADIO_SNIFFER_FRAME>>)
      BY <1>0, <2>1, <3>1, HoldsWithin
    <3> QED
      BY <3>2
  <2>3. At(d, 0) = RADIO_SNIFFER_FRAME
    <3>1. Len(<<RADIO_SNIFFER_FRAME>>) = 1 /\ <<RADIO_SNIFFER_FRAME>>[0 + 1] = RADIO_SNIFFER_FRAME
      OBVIOUS
    <3> QED
      BY <2>2, <3>1, ReadFirst
  <2>4. handle_radio_sniffer(d, 0) = <<>>
    BY DEF handle_radio_sniffer
  <2>5. decode_pkt(d, 0, mh) = Result(mh, <<>>)
    BY <2>3, <2>4, DecodeBy
  <2> QED
    BY <1>5, <2>5 DEF Repeated
<1>6. CASE f.k = "radio"
  <2>1. P = RadioPayload(f) /\ IsRadio(f)
    BY <1>0, <1>6, PayloadIs DEF P
  <2> DEFINE n == Len(f.meas)
             s == RadioMeasures(f)
  <2>2. /\ IsMeas(RADIO_MEAS_FRAME, n, f.ref, s, 6)
        /\ Holds(d, 0, MeasPacket(RADIO_MEAS_FRAME, n, f.ref, s))
    BY <1>0, <2>1, RadioFacts DEF RadioPayload
  <2> HIDE DEF n, s
  <2>3. At(d, 0) = RADIO_MEAS_FRAME /\ handle_oml_measure(d, 0, 2) = <<>>
    BY <2>2, NoMeasure
  <2>4. decode_pkt(d, 0, mh) =
          Result(mh, [i \in DOMAIN <<>> |-> radio_handler(d, <<>>[i].at, <<>>[i].time)])
    BY <2>3, DecodeBy
  <2>5. [i \in DOMAIN <<>> |-> radio_handler(d, <<>>[i].at, <<>>[i].time)] = <<>>
    OBVIOUS
  <2> QED
    BY <1>6, <2>4, <2>5 DEF Repeated
<1>7. CASE f.k = "consumption"
  <2> DEFINE sent == Sent(fs, l)
             n == Len(f.meas)
             s == ConsMeasures(f, sent)
             size == 4 * Number(g)
  <2>1. P = ConsPayload(f, sent) /\ IsCons(f)
    BY <1>0, <1>7, PayloadIs DEF P
  <2>2. mh.meas_len = size /\ size \in Nat
    BY LayoutIs, NumberRange
  <2> HIDE DEF sent
  <2>3. /\ IsMeas(CONSUMPTION_FRAME, n, f.ref, s, 4 + 4 * Number(sent))
        /\ Holds(d, 0, MeasPacket(CONSUMPTION_FRAME, n, f.ref, s))
    BY <1>0, <2>1, ConsFacts DEF ConsPayload
  <2> HIDE DEF n, s, size, mh
  <2>4. At(d, 0) = CONSUMPTION_FRAME /\ handle_oml_measure(d, 0, size) = <<>>
    BY <2>2, <2>3, NoMeasure
  <2>5. decode_pkt(d, 0, mh) =
          Result(mh, [i \in DOMAIN <<>> |-> consumption_handler(d, mh, <<>>[i].at, <<>>[i].time)])
    BY <2>2, <2>4, DecodeBy
  <2>6. [i \in DOMAIN <<>> |-> consumption_handler(d, mh, <<>>[i].at, <<>>[i].time)] = <<>>
    OBVIOUS
  <2> QED
    BY <1>7, <2>5, <2>6 DEF Repeated, mh
<1> QED
  BY <1>0, <1>2, <1>3, <1>4, <1>5, <1>6, <1>7, FrameKinds DEF Filled

(* An empty packet before any other gives nothing. *)
LEMMA FirstEmptyGives ==
  ASSUME NEW mh PROVE decode_pkt(<<>>, 0, mh) = Result(mh, <<>>)
<1>1. At(<<>>, 0) = 0
  BY EmptyIs DEF At
<1>2. write_answer(<<>>, 0) = <<>>
  BY DEF write_answer
<1> QED
  BY <1>1, <1>2 DEF decode_pkt

-----------------------------------------------------------------------------
(* The layout after each frame *)

(* The acknowledgements of a layout that arrive before frame i. *)
AckedBefore(fs, i) == {j \in 1..i - 1 : Announces(fs[j])}

(* Lost acknowledgements apart, they decide the layout. *)
LEMMA GotIs ==
  ASSUME NEW fs, Stream(fs), NEW i \in 1..Len(fs) + 1
  PROVE  LET acks == AckedBefore(fs, i)
         IN Got(fs, i) = IF acks = {} THEN 0
                         ELSE Frame(fs[CHOOSE j \in acks : \A l \in acks : l <= j]).config
<1> DEFINE acks == { j \in (1..i - 1) \cap {j \in DOMAIN fs : fs[j].k # "lost"} :
                       Frame(fs[j]).k = "config" /\ Frame(fs[j]).type = CONFIG_CONSUMPTION }
<1>1. Len(fs) \in Nat /\ DOMAIN fs = 1..Len(fs)
  BY StreamFacts
<1>2. 1..i - 1 \subseteq DOMAIN fs
  BY <1>1
<1>3. \A j \in 1..i - 1 : j \in acks <=> Announces(fs[j])
  BY <1>2 DEF Frame, Announces
<1>4. acks = AckedBefore(fs, i)
  BY <1>3 DEF AckedBefore
<1>5. Got(fs, i) = IF acks = {} THEN 0
                   ELSE Frame(fs[CHOOSE j \in acks : \A l \in acks : l <= j]).config
  BY DEF Got, Config
<1> HIDE DEF acks
<1> QED
  BY <1>4, <1>5

(* Before any, the layout is that of the start. *)
LEMMA GotFirst ==
  ASSUME NEW fs, Stream(fs) PROVE Layout(Got(fs, 1)) = ByteInit.mh
<1>1. AckedBefore(fs, 1) = {} /\ 1 \in 1..Len(fs) + 1
  BY StreamFacts DEF AckedBefore
<1>2. Got(fs, 1) = 0
  BY <1>1, GotIs
<1>3. ~ Bit(0, MEASURE_POWER) /\ ~ Bit(0, MEASURE_VOLTAGE) /\ ~ Bit(0, MEASURE_CURRENT)
  BY DEF Bit, MEASURE_POWER, MEASURE_VOLTAGE, MEASURE_CURRENT
<1>4. /\ Bit(0, MEASURE_POWER) = FALSE /\ Bit(0, MEASURE_VOLTAGE) = FALSE
      /\ Bit(0, MEASURE_CURRENT) = FALSE
  BY <1>3 DEF Bit
<1>5. Number(0) = 0
  BY <1>4 DEF Number, Count
<1> QED
  BY <1>2, <1>4, <1>5, LayoutIs DEF ByteInit

(* The layout that counts is that of the last acknowledgement. *)
LEMMA GotLast ==
  ASSUME NEW fs, Stream(fs), NEW i \in 1..Len(fs) + 1, NEW l \in 1..i - 1, Announces(fs[l]),
         \A j \in l + 1..i - 1 : ~ Announces(fs[j])
  PROVE  Got(fs, i) = fs[l].config
<1> DEFINE acks == AckedBefore(fs, i)
           best == CHOOSE j \in acks : \A x \in acks : x <= j
<1>1. l \in acks /\ acks \subseteq Int /\ l \in Int
  BY DEF AckedBefore
<1>2. \A x \in acks : x <= l
  BY <1>1 DEF AckedBefore
<1>3. Got(fs, i) = Frame(fs[best]).config
  BY <1>1, GotIs
<1> HIDE DEF acks
<1>4. best \in acks /\ \A x \in acks : x <= best
  BY <1>1, <1>2
<1> HIDE DEF best
<1>5. best = l
  BY <1>1, <1>2, <1>4
<1>6. Frame(fs[l]) = fs[l]
  BY DEF Frame, Announces
<1> QED
  BY <1>3, <1>5, <1>6

(* The layout that a frame leaves is the one the next frame meets. *)
LEMMA LayoutNext ==
  ASSUME NEW fs, Stream(fs), NEW i \in 1..Len(fs)
  PROVE  Layout(Got(fs, i + 1)) = LayoutAfter(fs, i)
<1>0. /\ Len(fs) \in Nat /\ i \in 1..Len(fs) + 1 /\ i + 1 \in 1..Len(fs) + 1
      /\ i \in Nat /\ i + 1 - 1 = i
  BY StreamFacts
<1>1. CASE Announces(fs[i])
  <2>1. i \in 1..i + 1 - 1 /\ \A j \in i + 1..i + 1 - 1 : ~ Announces(fs[j])
    BY <1>0
  <2>2. Got(fs, i + 1) = fs[i].config
    BY <1>0, <1>1, <2>1, GotLast
  <2> QED
    BY <1>1, <2>2 DEF LayoutAfter
<1>2. CASE ~ Announces(fs[i])
  <2>1. AckedBefore(fs, i + 1) = AckedBefore(fs, i)
    BY <1>0, <1>2 DEF AckedBefore
  <2>2. Got(fs, i + 1) = Got(fs, i)
    BY <1>0, <2>1, GotIs
  <2> QED
    BY <1>2, <2>2 DEF LayoutAfter
<1> QED
  BY <1>1, <1>2

(* A frame without a payload leaves the layout alone. *)
LEMMA LayoutKept ==
  ASSUME NEW fs, Stream(fs), NEW i \in 1..Len(fs), ~ Filled(fs[i])
  PROVE  Layout(Got(fs, i + 1)) = Layout(Got(fs, i))
BY LayoutNext DEF LayoutAfter, Announces, Filled

-----------------------------------------------------------------------------
(* The buffer after each frame *)

(* Frame l is the last of the first i that fills the buffer. *)
LastFilled(fs, i, l) ==
  l \in 1..i /\ Filled(fs[l]) /\ \A j \in l + 1..i : ~ Filled(fs[j])

(* What the buffer d holds after the first i frames. *)
Held(fs, i, d) ==
  \/ d = <<>> /\ \A j \in 1..i : ~ Filled(fs[j])
  \/ \E l : LastFilled(fs, i, l) /\ Holds(d, 0, Payload(fs, l))

(* The buffer is kept by a frame without a payload. *)
LEMMA HeldKept ==
  ASSUME NEW fs, NEW i \in Nat, NEW d, Held(fs, i, d), ~ Filled(fs[i + 1])
  PROVE  Held(fs, i + 1, d)
<1>1. CASE d = <<>> /\ \A j \in 1..i : ~ Filled(fs[j])
  BY <1>1 DEF Held
<1>2. CASE \E l : LastFilled(fs, i, l) /\ Holds(d, 0, Payload(fs, l))
  <2>1. PICK l : LastFilled(fs, i, l) /\ Holds(d, 0, Payload(fs, l))
    BY <1>2
  <2>2. LastFilled(fs, i + 1, l)
    BY <2>1 DEF LastFilled
  <2> QED
    BY <2>1, <2>2 DEF Held
<1> QED
  BY <1>1, <1>2 DEF Held

(* A frame with a payload fills it. *)
LEMMA HeldNew ==
  ASSUME NEW fs, NEW i \in Nat, NEW d, Filled(fs[i + 1]), Holds(d, 0, Payload(fs, i + 1))
  PROVE  Held(fs, i + 1, d)
<1>1. LastFilled(fs, i + 1, i + 1)
  BY DEF LastFilled
<1> QED
  BY <1>1 DEF Held

(* Something comes after frame i. *)
Followed(fs, i) == \E j \in i + 1..Len(fs) : Encode(fs, j) # <<>>

(* What an empty packet means. *)
LEMMA EmptyMeantIs ==
  ASSUME NEW fs, NEW i, fs[i].k = "empty"
  PROVE  LET before == {j \in 1..i - 1 : Filled(fs[j])}
         IN Meant(fs, i) = IF \/ \A j \in i + 1..Len(fs) : Encode(fs, j) = <<>>
                              \/ before = {}
                              \/ fs[Max(before)].k # "config"
                           THEN <<>> ELSE Acked(fs[Max(before)])
BY DEF Meant

(* Nothing, if no byte comes after it. *)
LEMMA EmptyLast ==
  ASSUME NEW fs, NEW i, fs[i].k = "empty", ~ Followed(fs, i)
  PROVE  Meant(fs, i) = <<>>
BY EmptyMeantIs DEF Followed

(* Otherwise the message of the acknowledgement before it, which is what    *)
(* decode_pkt makes of the bytes that the buffer still holds.               *)
LEMMA EmptyMeant ==
  ASSUME NEW fs, Stream(fs), NEW i \in 1..Len(fs), fs[i].k = "empty", Followed(fs, i),
         NEW d, Held(fs, i - 1, d)
  PROVE  Delivered(decode_pkt(d, 0, Layout(Got(fs, i))), Layout(Got(fs, i)), Meant(fs, i))
<1> DEFINE before == {j \in 1..i - 1 : Filled(fs[j])}
           g == Got(fs, i)
<1>0. Meant(fs, i) = IF before = {} \/ fs[Max(before)].k # "config"
                     THEN <<>> ELSE Acked(fs[Max(before)])
  BY EmptyMeantIs DEF Followed
<1>1. CASE d = <<>> /\ \A j \in 1..i - 1 : ~ Filled(fs[j])
  <2>1. Meant(fs, i) = <<>>
    BY <1>0, <1>1
  <2>2. decode_pkt(d, 0, Layout(g)) = Result(Layout(g), <<>>)
    BY <1>1, FirstEmptyGives
  <2> QED
    BY <2>1, <2>2, TrimNone
<1>2. CASE \E l : LastFilled(fs, i - 1, l) /\ Holds(d, 0, Payload(fs, l))
  <2>1. PICK l : LastFilled(fs, i - 1, l) /\ Holds(d, 0, Payload(fs, l))
    BY <1>2
  <2>2. /\ l \in 1..i - 1 /\ l \in 1..Len(fs) /\ Filled(fs[l]) /\ Len(fs) \in Nat
        /\ \A j \in l + 1..i - 1 : ~ Filled(fs[j])
    BY <2>1, StreamFacts DEF LastFilled
  <2>3. Fits(fs, l)
    BY <2>2, StreamFacts
  <2>4. Announces(fs[l]) => g = fs[l].config
    <3> SUFFICES ASSUME Announces(fs[l]) PROVE g = fs[l].config
      OBVIOUS
    <3>1. \A j \in l + 1..i - 1 : ~ Announces(fs[j])
      BY <2>2 DEF Announces, Filled
    <3>2. i \in 1..Len(fs) + 1
      BY <2>2
    <3> QED
      BY <2>2, <3>1, <3>2, GotLast
  <2>5. Max(before) = l /\ before # {}
    <3>1. l \in before /\ before \subseteq Int /\ l \in Int
      BY <2>2
    <3>2. \A x \in before : x <= l
      BY <2>2
    <3> HIDE DEF before
    <3>3. Max(before) \in before /\ \A y \in before : Max(before) >= y
      BY <3>1, <3>2 DEF Max
    <3> DEFINE x == Max(before)
    <3>4. x \in Int /\ x <= l /\ x >= l
      BY <3>1, <3>2, <3>3
    <3> HIDE DEF x
    <3>5. x = l
      BY <3>1, <3>4
    <3> QED
      BY <3>1, <3>5 DEF x
  <2>6. Meant(fs, i) = Repeated(fs[l])
    <3> HIDE DEF before
    <3> QED
      BY <1>0, <2>5 DEF Repeated
  <2> HIDE DEF g
  <2>7. decode_pkt(d, 0, Layout(g)) = Result(Layout(g), Repeated(fs[l]))
    BY <2>1, <2>3, <2>4, EmptyGives
  <2>8. Delivered(Result(Layout(g), Repeated(fs[l])), Layout(g), Repeated(fs[l]))
    BY AckedIs, TrimNone DEF Repeated
  <2> QED
    BY <2>6, <2>7, <2>8 DEF g
<1> QED
  BY <1>1, <1>2 DEF Held

-----------------------------------------------------------------------------
(* Outputs *)

(* Trimming works output by output. *)
LEMMA TrimFacts ==
  ASSUME NEW s, IsSeq(s)
  PROVE  /\ IsSeq(TrimAll(s)) /\ Len(TrimAll(s)) = Len(s) /\ Len(s) \in Nat
         /\ \A i \in 1..Len(s) : TrimAll(s)[i] = Trimmed(s[i])
<1> DEFINE t == TrimAll(s)
           n == Len(s)
<1>1. n \in Nat /\ DOMAIN s = 1..n
  BY SeqFacts
<1>2. t = [i \in 1..n |-> Trimmed(s[i])]
  BY <1>1 DEF TrimAll
<1>3. \A i \in 1..n : t[i] = Trimmed(s[i])
  BY <1>2
<1>4. t = [i \in 1..n |-> t[i]]
  BY <1>2
<1> HIDE DEF t, n
<1>5. IsSeq(t) /\ Len(t) = n
  BY <1>1, <1>4, SeqMake
<1> QED
  BY <1>1, <1>3, <1>5 DEF t, n

(* And so on what is given in two times. *)
LEMMA TrimConcat ==
  ASSUME NEW s, NEW t, IsSeq(s), IsSeq(t)
  PROVE  TrimAll(s \o t) = TrimAll(s) \o TrimAll(t)
<1> DEFINE a == s \o t
           u == TrimAll(a)
           x == TrimAll(s)
           y == TrimAll(t)
           v == x \o y
           m == Len(s)
           n == Len(t)
<1>1. /\ IsSeq(a) /\ Len(a) = m + n /\ m \in Nat /\ n \in Nat
      /\ Holds(a, 0, s) /\ Holds(a, m, t)
  BY Concat
<1>2. IsSeq(x) /\ IsSeq(y) /\ Len(x) = m /\ Len(y) = n
      /\ (\A i \in 1..m : x[i] = Trimmed(s[i])) /\ (\A i \in 1..n : y[i] = Trimmed(t[i]))
  BY TrimFacts
<1> HIDE DEF a, x, y
<1>3. IsSeq(u) /\ Len(u) = m + n /\ \A i \in 1..m + n : u[i] = Trimmed(a[i])
  BY <1>1, TrimFacts
<1>4. /\ IsSeq(v) /\ Len(v) = m + n /\ Holds(v, 0, x) /\ Holds(v, m, y)
  BY <1>2, Concat
<1> HIDE DEF u, v, m, n
<1>5. ASSUME NEW i \in 1..m + n PROVE u[i] = v[i]
  <2>1. CASE i <= m
    <3>1. i \in 1..m /\ 0 + i = i
      BY <1>1, <2>1
    <3>2. a[0 + i] = s[i] /\ v[0 + i] = x[i]
      BY <1>1, <1>2, <1>4, <3>1 DEF Holds, m
    <3> QED
      BY <1>2, <1>3, <3>1, <3>2
  <2>2. CASE ~ (i <= m)
    <3> DEFINE j == i - m
    <3>1. j \in 1..n /\ m + j = i
      BY <1>1, <2>2
    <3> HIDE DEF j
    <3>2. a[m + j] = t[j] /\ v[m + j] = y[j]
      BY <1>1, <1>2, <1>4, <3>1 DEF Holds, n
    <3> QED
      BY <1>2, <1>3, <3>1, <3>2
  <2> QED
    BY <2>1, <2>2
<1>6. u = v
  BY <1>3, <1>4, <1>5, SeqSame
<1> QED
  BY <1>6 DEF u, v, a, x, y

(* The outputs o are m, but for the byte too many of a sniffer client. *)
Said(o, m) == IsSeq(o) /\ TrimAll(o) = m

(* At first nothing is given. *)
LEMMA SaidNone == Said(<<>>, <<>>)
BY TrimNone DEF Delivered, Result, Said

(* What a packet gives is added. *)
LEMMA SaidMore ==
  ASSUME NEW o, NEW m, Said(o, m), NEW r, NEW mh, NEW out, Delivered(r, mh, out)
  PROVE  Said(o \o r.out, m \o out)
<1>1. IsSeq(o) /\ IsSeq(r.out) /\ TrimAll(o) = m /\ TrimAll(r.out) = out
  BY DEF Said, Delivered
<1>2. TrimAll(o \o r.out) = TrimAll(o) \o TrimAll(r.out)
  BY <1>1, TrimConcat, Zenon
<1>3. IsSeq(o \o r.out)
  BY <1>1, Concat
<1> QED
  BY <1>1, <1>2, <1>3 DEF Said

(* A buffer written from its start holds what was written. *)
LEMMA OverwriteHolds ==
  ASSUME NEW d \in Seq(Byte), NEW P \in Seq(Byte)
  PROVE  Overwrite(d, 0, P) \in Seq(Byte) /\ Holds(Overwrite(d, 0, P), 0, P)
<1> DEFINE e == Overwrite(d, 0, P)
           n == Len(P)
           m == IF 0 + n > Len(d) THEN 0 + n ELSE Len(d)
<1>1. e \in Seq(Byte) /\ 0 + n <= Len(e) /\ n \in Nat /\ Len(e) \in Nat /\ m \in Nat /\ n <= m
  <2>1. 0 <= Len(d)
    OBVIOUS
  <2>2. e \in Seq(Byte) /\ 0 + n <= Len(e)
    BY <2>1, OverwriteType
  <2> HIDE DEF e
  <2> QED
    BY <2>2
<1>2. e = [i \in 1..m |-> IF i > 0 /\ i <= 0 + n THEN P[i - 0] ELSE d[i]]
  BY DEF Overwrite
<1> HIDE DEF n, m
<1>3. ASSUME NEW i \in 1..n PROVE e[0 + i] = P[i]
  <2>1. i \in 1..m /\ i > 0 /\ i <= 0 + n /\ i - 0 = i /\ 0 + i = i
    BY <1>1, <1>3
  <2> HIDE DEF e
  <2> QED
    BY <1>2, <2>1
<1> HIDE DEF e
<1>4. Holds(e, 0, P)
  BY <1>1, <1>3 DEF Holds, n
<1> QED
  BY <1>1, <1>4 DEF e

-----------------------------------------------------------------------------
(* Reading the frames one by one *)

(* The bytes bs of the frames fs, joined in B, and what they mean, in M. *)
Traffic(fs, bs, B, M) ==
  /\ Stream(fs) /\ Quiet(fs)
  /\ bs \in Seq(Byte) /\ bs = B[Len(fs)]
  /\ Joins(B, EncodesOf(fs)) /\ Joins(M, MeantOf(fs))

(* The bytes of the first i frames. *)
Pos(B, i) == Len(B[i])

(* The bytes of frame i + 1 and what it means. *)
LEMMA TrafficFacts ==
  ASSUME NEW fs, NEW bs, NEW B, NEW M, Traffic(fs, bs, B, M), NEW i \in 0..Len(fs) - 1
  PROVE  /\ Pos(B, i) \in Nat
         /\ Pos(B, i + 1) = Pos(B, i) + Len(Encode(fs, i + 1))
         /\ Holds(bs, Pos(B, i), Encode(fs, i + 1))
         /\ M[i + 1] = M[i] \o Meant(fs, i + 1)
         /\ IsSeq(M[i]) /\ IsSeq(M[i + 1])
<1> DEFINE n == Len(fs)
           e == EncodesOf(fs)
           m == MeantOf(fs)
<1>1. n \in Nat /\ DOMAIN fs = 1..n /\ Len(e) = n /\ Len(m) = n /\ bs = B[n]
      /\ Joins(B, e) /\ Joins(M, m)
  BY StreamFacts, StreamJoins DEF Traffic
<1>2. i \in 0..n /\ i + 1 \in 0..n /\ i + 1 \in 1..n /\ i \in 0..n - 1
  BY <1>1
<1>3. e[i + 1] = Encode(fs, i + 1) /\ m[i + 1] = Meant(fs, i + 1)
  BY <1>1, <1>2 DEF EncodesOf, MeantOf
<1> HIDE DEF e, m, n
<1>4. Len(B[i]) \in Nat /\ Len(B[i + 1]) = Len(B[i]) + Len(e[i + 1])
  BY <1>1, <1>2, JoinsStep
<1>5. Holds(bs, Len(B[i]), e[i + 1])
  BY <1>1, <1>2, JoinsAt
<1>6. M[i + 1] = M[i] \o m[i + 1]
  BY <1>1, <1>2 DEF Joins
<1>7. IsSeq(M[i]) /\ IsSeq(M[i + 1])
  BY <1>1, <1>2 DEF Joins
<1> QED
  BY <1>3, <1>4, <1>5, <1>6, <1>7 DEF Pos

(* The parser has read the first i frames, and waits for a packet, or for   *)
(* a byte with which to handle the empty packet of frame j.                 *)
AtRest(s, fs, M, i) ==
  \E len, idx, d, o :
    /\ s = State("IDLE", len, idx, d, o, Layout(Got(fs, i + 1)))
    /\ d \in Seq(Byte) /\ Held(fs, i, d) /\ Said(o, M[i])

(* Frame j is an empty packet and no byte came after it. *)
Pending(fs, i, j) ==
  j \in 1..i /\ fs[j].k = "empty" /\ \A x \in j + 1..i : Encode(fs, x) = <<>>

WaitsFor(s, fs, M, i, j, d, o) ==
  /\ s = State("GET_PAYLOAD", 0, 0, d, o, Layout(Got(fs, j)))
  /\ Pending(fs, i, j)
  /\ Layout(Got(fs, j)) = Layout(Got(fs, i + 1))
  /\ d \in Seq(Byte) /\ Held(fs, j - 1, d) /\ Held(fs, i, d)
  /\ Said(o, M[j - 1]) /\ M[i] = M[j - 1] \o Meant(fs, j)

Waits(s, fs, M, i) == \E j, d, o : WaitsFor(s, fs, M, i, j, d, o)

(* The parser has looked at the first byte of frame i + 1. *)
Looks(s, fs, M, i, b) ==
  \E len, idx, d, o :
    /\ s = Looked(b, len, idx, d, o, Layout(Got(fs, i + 1)))
    /\ d \in Seq(Byte) /\ Held(fs, i, d) /\ Said(o, M[i])

(* What was given is what some of the first frames mean. *)
Given(s, M, n) == \E y \in 0..n : Said(s.outs, M[y])

(* The outputs of a state. *)
LEMMA OutsOf ==
  ASSUME NEW st, NEW len, NEW idx, NEW d, NEW o, NEW mh
  PROVE  State(st, len, idx, d, o, mh).outs = o
BY DEF State

(* The first byte of a frame is looked at, *)
LEMMA RestLooks ==
  ASSUME NEW fs, NEW M, NEW i, NEW s, AtRest(s, fs, M, i), NEW b
  PROVE  Looks(ByteStep(s, b), fs, M, i, b)
<1> DEFINE mh == Layout(Got(fs, i + 1))
<1>1. PICK len, idx, d, o :
        /\ s = State("IDLE", len, idx, d, o, mh)
        /\ d \in Seq(Byte) /\ Held(fs, i, d) /\ Said(o, M[i])
  BY DEF AtRest
<1>2. ByteStep(s, b) = Looked(b, len, idx, d, o, mh)
  <2> HIDE DEF mh
  <2> QED
    BY <1>1, StepIdle
<1> QED
  BY <1>1, <1>2 DEF Looks

(* after the empty packet before it was handled, if there is one. *)
LEMMA WaitsLooks ==
  ASSUME NEW fs, Stream(fs), NEW M, NEW i \in 0..Len(fs) - 1, NEW s, Waits(s, fs, M, i),
         Encode(fs, i + 1) # <<>>, NEW b
  PROVE  Looks(ByteStep(s, b), fs, M, i, b)
<1>0. PICK j, d, o : WaitsFor(s, fs, M, i, j, d, o)
  BY DEF Waits
<1>1. /\ s = State("GET_PAYLOAD", 0, 0, d, o, Layout(Got(fs, j)))
      /\ Pending(fs, i, j)
      /\ Layout(Got(fs, j)) = Layout(Got(fs, i + 1))
      /\ d \in Seq(Byte) /\ Held(fs, j - 1, d) /\ Held(fs, i, d)
      /\ Said(o, M[j - 1]) /\ M[i] = M[j - 1] \o Meant(fs, j)
  BY <1>0 DEF WaitsFor
<1>2. j \in 1..Len(fs) /\ fs[j].k = "empty" /\ i + 1 \in j + 1..Len(fs)
  BY <1>1, StreamFacts DEF Pending
<1>3. Followed(fs, j)
  BY <1>2 DEF Followed
<1> DEFINE mh == Layout(Got(fs, j))
           r == decode_pkt(d, 0, mh)
<1>4. Delivered(r, mh, Meant(fs, j))
  BY <1>1, <1>2, <1>3, EmptyMeant
<1>5. Said(o \o r.out, M[i])
  <2> HIDE DEF r, mh
  <2>1. Said(o \o r.out, M[j - 1] \o Meant(fs, j))
    BY <1>1, <1>4, SaidMore
  <2> QED
    BY <1>1, <2>1
<1>6. r.mh = mh
  BY <1>4 DEF Delivered
<1>7. ByteStep(s, b) = Looked(b, 0, 0, d, o \o r.out, mh)
  <2>0. s = State("GET_PAYLOAD", 0, 0, d, o, mh)
    BY <1>1
  <2> HIDE DEF mh
  <2>1. ByteStep(s, b) = Searched(Handled(s), b)
    BY <2>0, StepEmpty
  <2>2. Handled(s) = State("IDLE", 0, 0, d, o \o r.out, mh)
    BY <1>6, <2>0, HandledState
  <2> HIDE DEF r
  <2> QED
    BY <2>1, <2>2, StepIdle
<1>8. ByteStep(s, b) = Looked(b, 0, 0, d, o \o r.out, Layout(Got(fs, i + 1)))
  <2> HIDE DEF r
  <2> QED
    BY <1>1, <1>7
<1> HIDE DEF r
<1> QED
  BY <1>1, <1>5, <1>8 DEF Looks

(* The parser has read the first i frames. *)
Reached(s, fs, M, i) == AtRest(s, fs, M, i) \/ Waits(s, fs, M, i)

(* Frame i + 1 is not silent, and its first byte was looked at. *)
Begun(fs, bs, B, M, i) ==
  /\ Traffic(fs, bs, B, M) /\ i \in 0..Len(fs) - 1 /\ Encode(fs, i + 1) # <<>>
  /\ Looks(ByteStates(bs)[Pos(B, i) + 1], fs, M, i, bs[Pos(B, i) + 1])

(* Frame i + 1 was read. *)
Read(fs, bs, B, M, i) ==
  /\ Reached(ByteStates(bs)[Pos(B, i + 1)], fs, M, i + 1)
  /\ \A x \in Pos(B, i) + 1..Pos(B, i + 1) : Given(ByteStates(bs)[x], M, Len(fs))

(* The bytes of frame i + 1, *)
LEMMA BegunFacts ==
  ASSUME NEW fs, NEW bs, NEW B, NEW M, NEW i, Begun(fs, bs, B, M, i)
  PROVE  /\ Stream(fs) /\ bs \in Seq(Byte) /\ Len(fs) \in Nat
         /\ i \in Nat /\ i + 1 \in 1..Len(fs) /\ i \in 0..Len(fs) /\ i + 1 \in 0..Len(fs)
         /\ Encode(fs, i + 1) \in Seq(Byte) /\ Len(Encode(fs, i + 1)) \in Nat \ {0}
         /\ Pos(B, i) \in Nat
         /\ Holds(bs, Pos(B, i), Encode(fs, i + 1))
<1>1. Traffic(fs, bs, B, M) /\ i \in 0..Len(fs) - 1 /\ Encode(fs, i + 1) # <<>>
  BY DEF Begun
<1>2. Stream(fs) /\ bs \in Seq(Byte) /\ Len(fs) \in Nat
  BY <1>1, StreamFacts DEF Traffic
<1>3. i \in Nat /\ i + 1 \in 1..Len(fs) /\ i \in 0..Len(fs) /\ i + 1 \in 0..Len(fs)
  BY <1>1, <1>2
<1>4. Encode(fs, i + 1) \in Seq(Byte)
  BY <1>2, <1>3, EncodeFacts
<1>5. Len(Encode(fs, i + 1)) \in Nat \ {0}
  <2> DEFINE e == Encode(fs, i + 1)
  <2>1. e # <<>> /\ e \in Seq(Byte)
    BY <1>1, <1>4
  <2> HIDE DEF e
  <2>2. Len(e) \in Nat \ {0}
    BY <2>1
  <2> QED
    BY <2>2 DEF e
<1>6. /\ Pos(B, i) \in Nat
      /\ Holds(bs, Pos(B, i), Encode(fs, i + 1))
  BY <1>1, TrafficFacts
<1> QED
  BY <1>2, <1>3, <1>4, <1>5, <1>6

(* where they end, *)
LEMMA BegunEnds ==
  ASSUME NEW fs, NEW bs, NEW B, NEW M, NEW i, Begun(fs, bs, B, M, i)
  PROVE  Pos(B, i + 1) = Pos(B, i) + Len(Encode(fs, i + 1))
<1>1. Traffic(fs, bs, B, M) /\ i \in 0..Len(fs) - 1
  BY DEF Begun
<1> QED
  BY <1>1, TrafficFacts, Zenon

(* and what they mean. *)
LEMMA BegunMeans ==
  ASSUME NEW fs, NEW bs, NEW B, NEW M, NEW i, Begun(fs, bs, B, M, i)
  PROVE  M[i + 1] = M[i] \o Meant(fs, i + 1) /\ IsSeq(M[i])
<1>1. Traffic(fs, bs, B, M) /\ i \in 0..Len(fs) - 1
  BY DEF Begun
<1> QED
  BY <1>1, TrafficFacts, Zenon

(* The byte p was looked at. *)
LookedAt(bs, p, len, i, d, o, mh) ==
  ByteStates(bs)[p] = Looked(bs[p], len, i, d, o, mh)

(* The search for a synchronisation byte, in these terms. *)
LEMMA SearchTo ==
  ASSUME NEW bs \in Seq(Byte), NEW p, NEW k, Skipped(bs, p, k),
         NEW len, NEW i, NEW d, NEW o, NEW mh, LookedAt(bs, p + 1, len, i, d, o, mh)
  PROVE  LookedAt(bs, p + k, len, i, d, o, mh)
BY Search DEF LookedAt

(* Noise without a synchronisation byte is skipped. *)
LEMMA NoiseRead ==
  ASSUME NEW fs, NEW bs, NEW B, NEW M, NEW i, Begun(fs, bs, B, M, i), fs[i + 1].k = "noise"
  PROVE  Read(fs, bs, B, M, i)
<1> DEFINE S == ByteStates(bs)
           p == Pos(B, i)
           e == Encode(fs, i + 1)
           k == Len(e)
           n == Len(fs)
           mh == Layout(Got(fs, i + 1))
<1>1. /\ Stream(fs) /\ bs \in Seq(Byte) /\ n \in Nat
      /\ i \in Nat /\ i + 1 \in 1..n /\ i \in 0..n
      /\ e \in Seq(Byte) /\ k \in Nat \ {0} /\ p \in Nat /\ Pos(B, i + 1) = p + k
      /\ Holds(bs, p, e)
  <2>1. Stream(fs) /\ bs \in Seq(Byte) /\ n \in Nat
    BY BegunFacts
  <2>2. i \in Nat /\ i + 1 \in 1..n /\ i \in 0..n
    BY BegunFacts
  <2>3. e \in Seq(Byte) /\ k \in Nat \ {0} /\ p \in Nat
    BY BegunFacts
  <2>4. Pos(B, i + 1) = p + k
    BY BegunEnds
  <2>5. Holds(bs, p, e)
    BY BegunFacts
  <2> QED
    BY <2>1, <2>2, <2>3, <2>4, <2>5
<1>0. Quiet(fs)
  BY DEF Begun, Traffic
<1>2. M[i + 1] = M[i] \o Meant(fs, i + 1) /\ IsSeq(M[i])
  BY BegunMeans, Zenon
<1>3. M[i + 1] = M[i]
  <2>1. Meant(fs, i + 1) = <<>>
    BY MeantIs
  <2> QED
    BY <1>2, <2>1, ConcatEmpty
<1>4. \A x \in 1..k : bs[p + x] # SYNC_BYTE
  <2>1. e = fs[i + 1].bytes
    BY <1>1, EncodeFacts
  <2>2. fs[i + 1] \in Range(fs)
    BY <1>1, StreamFacts DEF Range
  <2>3. SYNC_BYTE \notin Range(e)
    BY <1>0, <2>1, <2>2 DEF Quiet
  <2> HIDE DEF e
  <2>4. \A x \in 1..k : e[x] # SYNC_BYTE
    BY <1>1, <2>3 DEF Range
  <2> QED
    BY <1>1, <2>4 DEF Holds
<1>5. PICK len, idx, d, o :
        /\ S[p + 1] = Looked(bs[p + 1], len, idx, d, o, mh)
        /\ d \in Seq(Byte) /\ Held(fs, i, d) /\ Said(o, M[i])
  BY DEF Begun, Looks
<1> HIDE DEF mh, e, S, p, n, k
<1>6. ASSUME NEW x \in 1..k PROVE S[p + x] = State("IDLE", len, idx, d, o, mh)
  <2>1. Skipped(bs, p, x)
    <3>1. p + k <= Len(bs)
      BY <1>1 DEF Holds, k
    <3>2. Len(bs) \in Nat
      BY <1>1
    <3> QED
      <4>1. k \in Nat /\ p \in Nat
        BY <1>1
      <4>2. x \in Nat /\ x > 0 /\ p + x <= Len(bs) /\ 1..x - 1 \subseteq 1..k
        BY <3>1, <3>2, <4>1
      <4>3. \A j \in 1..x - 1 : bs[p + j] # SYNC_BYTE
        BY <1>4, <4>2
      <4> QED
        BY <4>1, <4>2, <4>3 DEF Skipped
  <2>2. S[p + x] = Looked(bs[p + x], len, idx, d, o, mh)
    <3>1. LookedAt(bs, p + 1, len, idx, d, o, mh)
      BY <1>5 DEF S, LookedAt
    <3>2. bs \in Seq(Byte)
      BY <1>1
    <3>3. LookedAt(bs, p + x, len, idx, d, o, mh)
      BY <2>1, <3>1, <3>2, SearchTo
    <3> QED
      BY <3>3 DEF S, LookedAt
  <2> QED
    BY <1>4, <2>2 DEF Looked
<1>7. ~ Filled(fs[i + 1])
  BY DEF Filled
<1>8. Held(fs, i + 1, d)
  BY <1>1, <1>5, <1>7, HeldKept
<1>9. mh = Layout(Got(fs, i + 1 + 1))
  BY <1>1, <1>7, LayoutKept DEF mh, n
<1>10. Said(o, M[i + 1])
  BY <1>3, <1>5
<1>11. AtRest(S[p + k], fs, M, i + 1)
  <2>1. S[p + k] = State("IDLE", len, idx, d, o, Layout(Got(fs, i + 1 + 1)))
    <3>1. k \in 1..k
      BY <1>1
    <3> QED
      BY <1>6, <1>9, <3>1
  <2> QED
    BY <1>5, <1>8, <1>10, <2>1 DEF AtRest
<1>12. ASSUME NEW x \in p + 1..p + k PROVE Given(S[x], M, n)
  <2> DEFINE y == x - p
  <2>1. y \in 1..k /\ p + y = x
    BY <1>1
  <2> HIDE DEF y
  <2>2. S[x].outs = o
    BY <1>6, <2>1, OutsOf
  <2> QED
    BY <1>1, <1>5, <2>2 DEF Given
<1> QED
  BY <1>1, <1>11, <1>12 DEF Read, Reached, S, p, n

(* A synchronisation byte and a length. *)
LEMMA HeaderRead ==
  ASSUME NEW fs, NEW bs, NEW B, NEW M, NEW i, Begun(fs, bs, B, M, i),
         NEW len, Holds(Encode(fs, i + 1), 0, <<SYNC_BYTE, len>>)
  PROVE  \E d, o :
           /\ d \in Seq(Byte) /\ Held(fs, i, d) /\ Said(o, M[i])
           /\ ByteStates(bs)[Pos(B, i) + 1].outs = o
           /\ ByteStates(bs)[Pos(B, i) + 2] =
                State("GET_PAYLOAD", len, 0, d, o, Layout(Got(fs, i + 1)))
<1> DEFINE S == ByteStates(bs)
           p == Pos(B, i)
           e == Encode(fs, i + 1)
           mh == Layout(Got(fs, i + 1))
           h == <<SYNC_BYTE, len>>
<1>1. /\ bs \in Seq(Byte) /\ p \in Nat /\ Holds(bs, p, e)
  BY BegunFacts
<1>2. PICK l, idx, d, o :
        /\ S[p + 1] = Looked(bs[p + 1], l, idx, d, o, mh)
        /\ d \in Seq(Byte) /\ Held(fs, i, d) /\ Said(o, M[i])
  BY DEF Begun, Looks
<1>3. Len(h) = 2 /\ h[1] = SYNC_BYTE /\ h[2] = len
  OBVIOUS
<1> HIDE DEF S, p, e, mh, h
<1>4. Holds(bs, p + 0, h)
  BY <1>1, HoldsWithin DEF h, e
<1>5. bs[p + 1] = SYNC_BYTE /\ bs[p + 2] = len /\ p + 2 <= Len(bs) /\ Len(bs) \in Nat
  BY <1>1, <1>3, <1>4 DEF Holds
<1>6. S[p + 1] = State("WAIT_LEN", l, idx, d, o, mh)
  BY <1>2, <1>5 DEF Looked
<1>7. S[p + 1 + 1] = ByteStep(S[p + 1], bs[p + 1 + 1])
  <2>1. p + 1 \in 0..Len(bs) - 1
    BY <1>1, <1>5
  <2> QED
    BY <1>1, <2>1, StatesRecur DEF S
<1>8. p + 1 + 1 = p + 2
  BY <1>1
<1>9. S[p + 2] = State("GET_PAYLOAD", len, 0, d, o, mh)
  BY <1>5, <1>6, <1>7, <1>8, StepLen
<1>10. S[p + 1].outs = o
  BY <1>6, OutsOf
<1> QED
  BY <1>2, <1>9, <1>10 DEF S, p, mh

(* The part of the bytes that is held. *)
LEMMA HoldsSub ==
  ASSUME NEW bs \in Seq(Byte), NEW P \in Seq(Byte), NEW at, Holds(bs, at, P)
  PROVE  SubSeq(bs, at + 1, at + Len(P)) = P
<1> DEFINE s == SubSeq(bs, at + 1, at + Len(P))
           n == Len(P)
<1>1. at \in Nat /\ n \in Nat /\ at + n <= Len(bs) /\ \A i \in 1..n : bs[at + i] = P[i]
  BY DEF Holds
<1>2. s \in Seq(Byte) /\ Len(s) = n /\ \A i \in 1..n : s[i] = bs[at + i]
  BY <1>1
<1> HIDE DEF s
<1>3. s = P
  BY <1>1, <1>2
<1> QED
  BY <1>3 DEF s

(* The state of the parser after q bytes. *)
StateAt(bs, q, st, len, i, d, o, mh) == ByteStates(bs)[q] = State(st, len, i, d, o, mh)

(* A part of the payload is copied. *)
LEMMA PartRead ==
  ASSUME NEW bs \in Seq(Byte), NEW q, NEW len, NEW d \in Seq(Byte), NEW o, NEW mh,
         StateAt(bs, q, "GET_PAYLOAD", len, 0, d, o, mh),
         NEW x, Copied(bs, q, x, len, 0, d), x # len
  PROVE  ByteStates(bs)[q + x].outs = o
<1> DEFINE got == State("GET_PAYLOAD", len, 0 + x, Overwrite(d, 0, SubSeq(bs, q + 1, q + x)), o, mh)
<1>1. 0 + x # len
  BY DEF Copied
<1>2. ByteStates(bs)[q + x] = IF 0 + x = len THEN Handled(got) ELSE got
  BY Copy DEF StateAt
<1>3. got.outs = o
  BY OutsOf
<1> HIDE DEF got
<1> QED
  BY <1>1, <1>2, <1>3

(* The whole payload is copied and handled. *)
LEMMA WholeRead ==
  ASSUME NEW bs \in Seq(Byte), NEW q, NEW P \in Seq(Byte), NEW d \in Seq(Byte), NEW o, NEW mh,
         StateAt(bs, q, "GET_PAYLOAD", Len(P), 0, d, o, mh), Holds(bs, q, P), Len(P) > 0
  PROVE  LET D == Overwrite(d, 0, P)
             r == decode_pkt(D, Len(P), mh)
         IN ByteStates(bs)[q + Len(P)] = State("IDLE", Len(P), Len(P), D, o \o r.out, r.mh)
<1> DEFINE n == Len(P)
           D == Overwrite(d, 0, P)
           got == State("GET_PAYLOAD", n, 0 + n, Overwrite(d, 0, SubSeq(bs, q + 1, q + n)), o, mh)
<1>1. q \in Nat /\ n \in Nat /\ n > 0 /\ q + n <= Len(bs) /\ 0 + n = n /\ 0 <= Len(d)
  BY DEF Holds
<1>2. Copied(bs, q, n, n, 0, d)
  BY <1>1 DEF Copied
<1>3. ByteStates(bs)[q + n] = IF 0 + n = n THEN Handled(got) ELSE got
  <2> HIDE DEF n
  <2> QED
    BY <1>2, Copy DEF StateAt, n
<1>4. got = State("GET_PAYLOAD", n, n, D, o, mh)
  <2>1. SubSeq(bs, q + 1, q + n) = P
    BY HoldsSub
  <2> HIDE DEF n
  <2> QED
    BY <1>1, <2>1
<1> HIDE DEF n, got, D
<1>5. ByteStates(bs)[q + n] = Handled(State("GET_PAYLOAD", n, n, D, o, mh))
  BY <1>1, <1>3, <1>4
<1> QED
  BY <1>5, HandledState DEF n, D

(* An empty packet waits for the next byte. *)
LEMMA EmptyRead ==
  ASSUME NEW fs, NEW bs, NEW B, NEW M, NEW i, Begun(fs, bs, B, M, i), fs[i + 1].k = "empty"
  PROVE  Read(fs, bs, B, M, i)
<1> DEFINE S == ByteStates(bs)
           p == Pos(B, i)
           e == Encode(fs, i + 1)
           n == Len(fs)
           mh == Layout(Got(fs, i + 1))
<1>1. Stream(fs) /\ n \in Nat /\ i \in Nat /\ i + 1 \in 1..n /\ i \in 0..n /\ p \in Nat
  BY BegunFacts
<1>2. M[i + 1] = M[i] \o Meant(fs, i + 1) /\ IsSeq(M[i])
  BY BegunMeans, Zenon
<1>3. e = <<SYNC_BYTE, 0>>
  BY <1>1, EncodeFacts
<1>4. Pos(B, i + 1) = p + 2
  <2>1. Len(e) = 2
    BY <1>3
  <2>2. Pos(B, i + 1) = p + Len(e)
    BY BegunEnds
  <2> HIDE DEF p, e
  <2> QED
    BY <2>1, <2>2
<1>5. Holds(e, 0, <<SYNC_BYTE, 0>>)
  <2>1. <<SYNC_BYTE, 0>> \in Seq(Int)
    BY DEF SYNC_BYTE
  <2> QED
    BY <1>3, <2>1, SeqIs, HoldsSelf
<1>6. PICK d, o :
        /\ d \in Seq(Byte) /\ Held(fs, i, d) /\ Said(o, M[i])
        /\ S[p + 1].outs = o /\ S[p + 2] = State("GET_PAYLOAD", 0, 0, d, o, mh)
  BY <1>5, HeaderRead
<1>7. ~ Filled(fs[i + 1])
  BY DEF Filled
<1>8. Held(fs, i + 1, d)
  BY <1>1, <1>6, <1>7, HeldKept
<1>9. mh = Layout(Got(fs, i + 1 + 1))
  BY <1>1, <1>7, LayoutKept
<1>10. Pending(fs, i + 1, i + 1)
  BY <1>1 DEF Pending
<1> HIDE DEF S, p, e, n
<1>11. Waits(S[p + 2], fs, M, i + 1)
  <2> DEFINE j == i + 1
  <2>1. j - 1 = i
    BY <1>1
  <2>2. S[p + 2] = State("GET_PAYLOAD", 0, 0, d, o, Layout(Got(fs, j)))
    BY <1>6
  <2>3. Layout(Got(fs, j)) = Layout(Got(fs, j + 1))
    BY <1>9
  <2>4. Pending(fs, j, j) /\ Held(fs, j, d)
    BY <1>8, <1>10
  <2>5. M[j] = M[i] \o Meant(fs, j)
    BY <1>2
  <2> HIDE DEF j, mh
  <2>6. Held(fs, j - 1, d) /\ Said(o, M[j - 1]) /\ d \in Seq(Byte)
    BY <1>6, <2>1
  <2>7. M[j] = M[j - 1] \o Meant(fs, j)
    BY <2>1, <2>5
  <2>8. WaitsFor(S[p + 2], fs, M, j, j, d, o)
    BY <2>2, <2>3, <2>4, <2>6, <2>7 DEF WaitsFor
  <2> QED
    BY <2>8 DEF Waits, j
<1>12. ASSUME NEW x \in p + 1..p + 2 PROVE Given(S[x], M, n)
  <2>1. x = p + 1 \/ x = p + 2
    BY <1>1
  <2>2. S[p + 2].outs = o
    BY <1>6, OutsOf
  <2>3. S[x].outs = o
    BY <1>6, <2>1, <2>2
  <2> QED
    BY <1>1, <1>6, <2>3 DEF Given
<1> QED
  BY <1>4, <1>11, <1>12 DEF Read, Reached, S, p, n

(* A packet with a payload gives what its frame means. *)
LEMMA PacketRead ==
  ASSUME NEW fs, NEW bs, NEW B, NEW M, NEW i, Begun(fs, bs, B, M, i), Filled(fs[i + 1])
  PROVE  Read(fs, bs, B, M, i)
<1> DEFINE S == ByteStates(bs)
           p == Pos(B, i)
           j == i + 1
           e == Encode(fs, j)
           n == Len(fs)
           P == Payload(fs, j)
           L == Len(P)
           q == p + 2
           mh == Layout(Got(fs, j))
<1>1. Stream(fs) /\ n \in Nat /\ i \in Nat /\ j \in 1..n /\ i \in 0..n /\ j \in 0..n /\ p \in Nat
      /\ bs \in Seq(Byte)
  BY BegunFacts
<1>2. M[j] = M[i] \o Meant(fs, j) /\ IsSeq(M[i])
  BY BegunMeans, Zenon
<1>3. Fits(fs, j)
  BY <1>1, StreamFacts
<1>4. P \in Seq(Byte) /\ L > 0 /\ L \in Nat
  <2>1. P \in Seq(Byte) /\ L > 0
    BY <1>3, PayloadFacts
  <2> HIDE DEF P
  <2> QED
    BY <2>1
<1>5. Len(e) = 2 + L /\ Holds(e, 0, <<SYNC_BYTE, L>>) /\ Holds(e, 2, P)
  <2>1. j \in 1..Len(fs) /\ Filled(fs[j])
    BY <1>1
  <2> HIDE DEF j
  <2> QED
    BY <1>1, <2>1, EncodeFacts, Zenon
<1>6. Pos(B, j) = q + L
  <2>1. Pos(B, j) = p + Len(e)
    BY BegunEnds
  <2> HIDE DEF p, e, L
  <2> QED
    BY <1>1, <1>4, <1>5, <2>1
<1>7. Holds(bs, q, P)
  <2>1. Holds(bs, p, e)
    BY BegunFacts
  <2> HIDE DEF p, e, P
  <2> QED
    BY <1>5, <2>1, HoldsWithin
<1>8. PICK d, o :
        /\ d \in Seq(Byte) /\ Held(fs, i, d) /\ Said(o, M[i])
        /\ S[p + 1].outs = o /\ S[q] = State("GET_PAYLOAD", L, 0, d, o, mh)
  BY <1>5, HeaderRead
<1> DEFINE D == Overwrite(d, 0, P)
           r == decode_pkt(D, L, mh)
           out == o \o r.out
<1>9. StateAt(bs, q, "GET_PAYLOAD", L, 0, d, o, mh)
  BY <1>8 DEF StateAt
<1>10. D \in Seq(Byte) /\ Holds(D, 0, P)
  BY <1>4, <1>8, OverwriteHolds
<1>11. Delivered(r, LayoutAfter(fs, j), Meant(fs, j))
  <2> HIDE DEF D, j
  <2> QED
    BY <1>3, <1>10, FrameGives
<1>12. LayoutAfter(fs, j) = Layout(Got(fs, j + 1))
  <2> HIDE DEF j
  <2> QED
    BY <1>1, LayoutNext
<1>13. Held(fs, j, D)
  <2> HIDE DEF D
  <2> QED
    BY <1>1, <1>10, HeldNew
<1> HIDE DEF S, p, j, e, n, P, L, q, mh, D, r
<1>14. S[q + L] = State("IDLE", L, L, D, out, r.mh)
  BY <1>1, <1>4, <1>7, <1>8, <1>9, WholeRead DEF S, L, D, r
<1>15. Said(out, M[j])
  <2>1. Said(o \o r.out, M[i] \o Meant(fs, j))
    BY <1>8, <1>11, SaidMore
  <2> QED
    BY <1>2, <2>1
<1>16. r.mh = Layout(Got(fs, j + 1))
  BY <1>11, <1>12 DEF Delivered
<1> HIDE DEF out
<1>17. AtRest(S[q + L], fs, M, j)
  BY <1>10, <1>13, <1>14, <1>15, <1>16 DEF AtRest
<1>18. ASSUME NEW x \in p + 1..q + L PROVE Given(S[x], M, n)
  <2>1. p \in Nat /\ q = p + 2 /\ L \in Nat /\ L > 0
    BY <1>1, <1>4 DEF q
  <2>2. CASE x = p + 1 \/ x = q
    <3>1. S[x].outs = o
      BY <1>8, <2>2, OutsOf
    <3> QED
      BY <1>1, <1>8, <3>1 DEF Given
  <2>3. CASE x = q + L
    <3>1. S[x].outs = out
      BY <1>14, <2>3, OutsOf
    <3> QED
      BY <1>1, <1>15, <3>1 DEF Given
  <2>4. CASE x > q /\ x < q + L
    <3> DEFINE y == x - q
    <3>1. y \in Nat /\ y > 0 /\ y < L /\ q + y = x /\ q \in Nat /\ 0 + y <= L /\ y # L
      BY <2>1, <2>4
    <3>2. q + L <= Len(bs) /\ Len(bs) \in Nat /\ 0 <= Len(d)
      BY <1>7, <1>8 DEF Holds, L
    <3> HIDE DEF y
    <3>3. Copied(bs, q, y, L, 0, d)
      BY <2>1, <3>1, <3>2 DEF Copied
    <3>4. S[q + y].outs = o
      BY <1>1, <1>8, <1>9, <3>1, <3>3, PartRead DEF S
    <3> QED
      BY <1>1, <1>8, <3>1, <3>4 DEF Given
  <2>5. x = p + 1 \/ x = q \/ x = q + L \/ (x > q /\ x < q + L)
    BY <2>1
  <2> QED
    BY <2>2, <2>3, <2>4, <2>5
<1> QED
  BY <1>6, <1>17, <1>18 DEF Read, Reached, S, p, n, j

(* The first i frames were read. *)
ReadUpTo(fs, bs, B, M, i) ==
  /\ Reached(ByteStates(bs)[Pos(B, i)], fs, M, i)
  /\ \A x \in 0..Pos(B, i) : Given(ByteStates(bs)[x], M, Len(fs))

(* At first no frame was read. *)
LEMMA ReadNone ==
  ASSUME NEW fs, NEW bs, NEW B, NEW M, Traffic(fs, bs, B, M)
  PROVE  ReadUpTo(fs, bs, B, M, 0)
<1>1. Stream(fs) /\ bs \in Seq(Byte) /\ B[0] = <<>> /\ M[0] = <<>> /\ Len(fs) \in Nat
  BY StreamFacts DEF Traffic, Joins
<1>2. Pos(B, 0) = 0
  BY <1>1, EmptyIs DEF Pos
<1>3. ByteStates(bs)[0] = ByteInit
  BY <1>1, StatesRecur
<1>4. ByteInit = State("IDLE", 0, 0, <<>>, <<>>, Layout(Got(fs, 0 + 1)))
  <2>1. Layout(Got(fs, 0 + 1)) = ByteInit.mh
    BY <1>1, GotFirst
  <2> DEFINE mh == ByteInit.mh
  <2>2. ByteInit = State("IDLE", 0, 0, <<>>, <<>>, mh)
    BY DEF ByteInit, State
  <2> HIDE DEF mh
  <2> QED
    BY <2>1, <2>2 DEF mh
<1>5. Held(fs, 0, <<>>) /\ <<>> \in Seq(Byte) /\ Said(<<>>, M[0])
  BY <1>1, SaidNone DEF Held
<1>6. AtRest(ByteStates(bs)[0], fs, M, 0)
  BY <1>3, <1>4, <1>5 DEF AtRest
<1>7. ByteStates(bs)[0].outs = <<>>
  BY <1>3, <1>4, OutsOf
<1>8. Given(ByteStates(bs)[0], M, Len(fs))
  BY <1>1, <1>5, <1>7 DEF Given
<1>9. \A x \in 0..0 : x = 0
  OBVIOUS
<1> QED
  BY <1>2, <1>6, <1>8, <1>9 DEF ReadUpTo, Reached

(* A frame without bytes changes nothing. *)
LEMMA SilentRead ==
  ASSUME NEW fs, NEW bs, NEW B, NEW M, Traffic(fs, bs, B, M), NEW i \in 0..Len(fs) - 1,
         Encode(fs, i + 1) = <<>>, ReadUpTo(fs, bs, B, M, i)
  PROVE  ReadUpTo(fs, bs, B, M, i + 1)
<1> DEFINE j == i + 1
           s == ByteStates(bs)[Pos(B, i)]
<1>1. Stream(fs) /\ Len(fs) \in Nat
  BY StreamFacts DEF Traffic
<1>2. i \in Nat /\ j \in Nat /\ j \in 1..Len(fs)
  BY <1>1
<1>3. Pos(B, j) = Pos(B, i)
  <2>1. Pos(B, i) \in Nat /\ Pos(B, j) = Pos(B, i) + Len(Encode(fs, j))
    BY TrafficFacts, Zenon
  <2>2. Len(Encode(fs, j)) = 0
    BY EmptyIs
  <2> QED
    BY <2>1, <2>2
<1>4. Meant(fs, j) = <<>> /\ ~ Filled(fs[j])
  BY <1>1, <1>2, Silent
<1>5. M[j] = M[i]
  <2>1. M[j] = M[i] \o Meant(fs, j) /\ IsSeq(M[i])
    BY TrafficFacts, Zenon
  <2> QED
    BY <1>4, <2>1, ConcatEmpty
<1>6. \A d : Held(fs, i, d) => Held(fs, j, d)
  BY <1>2, <1>4, HeldKept
<1>7. Layout(Got(fs, j + 1)) = Layout(Got(fs, j))
  BY <1>1, <1>2, <1>4, LayoutKept
<1>8. ASSUME AtRest(s, fs, M, i) PROVE Reached(s, fs, M, j)
  <2>1. PICK len, idx, d, o :
          /\ s = State("IDLE", len, idx, d, o, Layout(Got(fs, j)))
          /\ d \in Seq(Byte) /\ Held(fs, i, d) /\ Said(o, M[i])
    BY <1>8 DEF AtRest
  <2> HIDE DEF j, s
  <2>2. AtRest(s, fs, M, j)
    BY <1>5, <1>6, <1>7, <2>1 DEF AtRest
  <2> QED
    BY <2>2 DEF Reached
<1>9. ASSUME Waits(s, fs, M, i) PROVE Reached(s, fs, M, j)
  <2>1. PICK k, d, o : WaitsFor(s, fs, M, i, k, d, o)
    BY <1>9 DEF Waits
  <2>2. Layout(Got(fs, k)) = Layout(Got(fs, j)) /\ Pending(fs, i, k)
    BY <2>1 DEF WaitsFor
  <2>3. Pending(fs, j, k)
    BY <1>2, <2>2 DEF Pending
  <2> HIDE DEF j, s
  <2>4. WaitsFor(s, fs, M, j, k, d, o)
    BY <1>5, <1>6, <1>7, <2>1, <2>2, <2>3 DEF WaitsFor
  <2> QED
    BY <2>4 DEF Reached, Waits
<1>10. Reached(s, fs, M, i)
  BY DEF ReadUpTo
<1>11. Reached(s, fs, M, j)
  BY <1>8, <1>9, <1>10 DEF Reached
<1> HIDE DEF j
<1>12. ReadUpTo(fs, bs, B, M, j)
  BY <1>3, <1>11 DEF ReadUpTo
<1> QED
  BY <1>12 DEF j

(* One more frame is read. *)
LEMMA ReadNext ==
  ASSUME NEW fs, NEW bs, NEW B, NEW M, Traffic(fs, bs, B, M), NEW i \in 0..Len(fs) - 1,
         ReadUpTo(fs, bs, B, M, i)
  PROVE  ReadUpTo(fs, bs, B, M, i + 1)
<1> DEFINE p == Pos(B, i)
           S == ByteStates(bs)
           e == Encode(fs, i + 1)
<1>1. CASE e = <<>>
  BY <1>1, SilentRead
<1>2. CASE e # <<>>
  <2>1. Stream(fs) /\ bs \in Seq(Byte) /\ Len(fs) \in Nat /\ i + 1 \in 1..Len(fs)
    BY StreamFacts DEF Traffic
  <2>2. p \in Nat /\ Holds(bs, p, e) /\ e \in Seq(Byte)
    BY <2>1, TrafficFacts, EncodeFacts
  <2>3. p \in 0..Len(bs) - 1
    <3> HIDE DEF p, e
    <3>1. Len(e) \in Nat /\ Len(e) > 0
      BY <1>2, <2>2
    <3> QED
      BY <2>2, <3>1 DEF Holds
  <2>4. S[p + 1] = ByteStep(S[p], bs[p + 1])
    <3> HIDE DEF p
    <3> QED
      BY <2>1, <2>3, StatesRecur
  <2>5. Reached(S[p], fs, M, i)
    BY DEF ReadUpTo
  <2>6. Looks(S[p + 1], fs, M, i, bs[p + 1])
    BY <1>2, <2>1, <2>4, <2>5, RestLooks, WaitsLooks DEF Reached
  <2>7. Begun(fs, bs, B, M, i)
    BY <1>2, <2>6 DEF Begun
  <2>8. fs[i + 1].k = "noise" \/ fs[i + 1].k = "empty" \/ Filled(fs[i + 1])
    <3>1. fs[i + 1].k # "lost"
      BY <1>2, <2>1, EncodeFacts
    <3> QED
      BY <3>1 DEF Filled
  <2>9. Read(fs, bs, B, M, i)
    BY <2>7, <2>8, NoiseRead, EmptyRead, PacketRead
  <2>10. ASSUME NEW x \in 0..Pos(B, i + 1) PROVE Given(S[x], M, Len(fs))
    <3>1. Pos(B, i + 1) \in Nat /\ p \in Nat
      <4>1. Pos(B, i + 1) = p + Len(e)
        BY <2>7, BegunEnds
      <4> HIDE DEF p, e
      <4> QED
        BY <2>2, <4>1
    <3> HIDE DEF p, S
    <3>2. x \in 0..p \/ x \in p + 1..Pos(B, i + 1)
      BY <3>1
    <3> QED
      BY <2>9, <3>2 DEF ReadUpTo, Read, p, S
  <2> QED
    BY <2>9, <2>10 DEF ReadUpTo, Read
<1> QED
  BY <1>1, <1>2

(* Whatever the point the bytes were read up to, what was given is what     *)
(* some of the first frames mean, and in the end it is what all mean.       *)
LEMMA AllRead ==
  ASSUME NEW fs, NEW bs, NEW B, NEW M, Traffic(fs, bs, B, M)
  PROVE  /\ \A x \in 0..Len(bs) : Given(ByteStates(bs)[x], M, Len(fs))
         /\ Said(ByteStates(bs)[Len(bs)].outs, M[Len(fs)])
<1> DEFINE n == Len(fs)
           S == ByteStates(bs)
           T == {i \in Nat : i <= n => ReadUpTo(fs, bs, B, M, i)}
<1>1. n \in Nat /\ Stream(fs) /\ bs = B[n] /\ Joins(M, MeantOf(fs))
  BY StreamFacts DEF Traffic
<1>2. 0 \in T
  BY ReadNone
<1>3. ASSUME NEW i \in T PROVE i + 1 \in T
  <2> SUFFICES ASSUME i + 1 <= n PROVE ReadUpTo(fs, bs, B, M, i + 1)
    BY <1>3
  <2>1. i \in 0..Len(fs) - 1 /\ i <= n
    BY <1>1, <1>3
  <2>2. ReadUpTo(fs, bs, B, M, i)
    BY <1>3, <2>1
  <2> QED
    BY <2>1, <2>2, ReadNext
<1>4. T = Nat
  <2>1. T \in SUBSET Nat
    OBVIOUS
  <2> HIDE DEF T
  <2> QED
    BY <1>2, <1>3, <2>1, Induction
<1>5. ReadUpTo(fs, bs, B, M, n)
  <2>1. n \in T
    <3> HIDE DEF T, n
    <3> QED
      BY <1>1, <1>4
  <2> QED
    BY <1>1, <2>1
<1>6. Pos(B, n) = Len(bs)
  BY <1>1 DEF Pos
<1> HIDE DEF n
<1>7. Reached(S[Len(bs)], fs, M, n) /\ \A x \in 0..Len(bs) : Given(S[x], M, n)
  BY <1>5, <1>6 DEF ReadUpTo, n
<1> DEFINE s == S[Len(bs)]
<1>8. CASE AtRest(s, fs, M, n)
  <2>1. PICK len, idx, d, o :
          s = State("IDLE", len, idx, d, o, Layout(Got(fs, n + 1))) /\ Said(o, M[n])
    BY <1>8 DEF AtRest
  <2> HIDE DEF s
  <2>2. s.outs = o
    BY <2>1, OutsOf
  <2> QED
    BY <1>7, <2>1, <2>2 DEF s, n
<1>9. CASE Waits(s, fs, M, n)
  <2>1. PICK j, d, o : WaitsFor(s, fs, M, n, j, d, o)
    BY <1>9 DEF Waits
  <2>2. /\ s = State("GET_PAYLOAD", 0, 0, d, o, Layout(Got(fs, j)))
        /\ Pending(fs, n, j) /\ Said(o, M[j - 1])
    BY <2>1 DEF WaitsFor
  <2>3. M[n] = M[j - 1] \o Meant(fs, j) /\ Pending(fs, n, j)
    BY <2>1, Zenon DEF WaitsFor
  <2>4. Meant(fs, j) = <<>>
    BY <2>2, EmptyLast DEF Pending, Followed, n
  <2>5. M[n] = M[j - 1]
    <3>1. IsSeq(M[j - 1])
      <4>1. Len(MeantOf(fs)) = n
        BY <1>1, StreamJoins DEF n
      <4>2. j - 1 \in 0..n
        BY <1>1, <2>2 DEF Pending
      <4> QED
        BY <1>1, <4>1, <4>2 DEF Joins
    <3> QED
      BY <2>3, <2>4, <3>1, ConcatEmpty
  <2> HIDE DEF s
  <2>6. s.outs = o
    BY <2>2, OutsOf
  <2> QED
    BY <1>7, <2>2, <2>5, <2>6 DEF s, n
<1> QED
  BY <1>7, <1>8, <1>9 DEF Reached

-----------------------------------------------------------------------------
(* The inductive invariant *)

All == Bytes(frames)

(* How many bytes have been parsed. *)
Parsed == Len(All) - Len(wire) - (Len(rx) - cur_idx)

(* What is still to be parsed is the end of the stream. *)
RxInv ==
  /\ All \in Seq(Byte) /\ wire \in Seq(Byte) /\ rx \in Seq(Byte) /\ cur_idx \in Nat
  /\ cur_idx < Len(rx) \/ (rx = <<>> /\ cur_idx = 0)
  /\ Len(wire) + Len(rx) <= Len(All)
  /\ \A i \in 1..Len(wire) : wire[i] = All[Len(All) - Len(wire) + i]
  /\ \A i \in 1..Len(rx) : rx[i] = All[Len(All) - Len(wire) - Len(rx) + i]

(* A packet that is being received is not complete, unless it is empty. *)
PktInv ==
  /\ state \in {"IDLE", "WAIT_LEN", "GET_PAYLOAD"}
  /\ pkt \in [len : Nat, cur_idx : Nat, data : Seq(Byte)]
  /\ state = "GET_PAYLOAD" =>
       /\ pkt.cur_idx <= Len(pkt.data)
       /\ pkt.cur_idx < pkt.len \/ (pkt.cur_idx = 0 /\ pkt.len = 0)

(* An empty packet has been handled, and the byte that had it handled is    *)
(* not looked at yet.                                                       *)
EmptyHandled ==
  /\ rx # <<>> /\ state = "IDLE"
  /\ \E i, d, o, mh :
       /\ ByteStates(All)[Parsed] = State("GET_PAYLOAD", 0, i, d, o, mh)
       /\ Parser = Handled(State("GET_PAYLOAD", 0, i, d, o, mh))

ParserInv == Parser = ByteStates(All)[Parsed] \/ EmptyHandled

ChunkInv == RxInv /\ PktInv /\ ParserInv

LEMMA ParserIsState ==
  /\ Parser = State(state, pkt.len, pkt.cur_idx, pkt.data, outs, mh_state)
  /\ Parser' = State(state', pkt.len', pkt.cur_idx', pkt.data', outs', mh_state')
BY DEF Parser, State

(* The bytes ahead of the parser are the next ones of the stream. *)
LEMMA Ahead ==
  ASSUME RxInv
  PROVE  /\ Parsed \in Nat /\ Parsed + (Len(rx) - cur_idx) <= Len(All)
         /\ \A j \in 1..Len(rx) - cur_idx : All[Parsed + j] = rx[cur_idx + j]
<1>1. Len(rx) \in Nat /\ Len(wire) \in Nat /\ Len(All) \in Nat /\ cur_idx \in Nat /\ cur_idx <= Len(rx)
      /\ Len(wire) + Len(rx) <= Len(All)
  BY DEF RxInv
<1>2. ASSUME NEW j \in 1..Len(rx) - cur_idx PROVE All[Parsed + j] = rx[cur_idx + j]
  <2>1. cur_idx + j \in 1..Len(rx)
    BY <1>1, <1>2
  <2>2. rx[cur_idx + j] = All[Len(All) - Len(wire) - Len(rx) + (cur_idx + j)]
    BY <2>1 DEF RxInv
  <2>3. Parsed + j = Len(All) - Len(wire) - Len(rx) + (cur_idx + j)
    BY <1>1, <1>2 DEF Parsed
  <2> QED
    BY <2>2, <2>3
<1> QED
  BY <1>1, <1>2 DEF Parsed

LEMMA AdvanceMoves ==
  ASSUME RxInv, rx # <<>>, NEW i \in Nat, cur_idx <= i, i <= Len(rx),
         Advance(i), frames' = frames, wire' = wire
  PROVE  RxInv' /\ Parsed' = Parsed + (i - cur_idx) /\ All' = All
<1>1. All' = All
  BY DEF All
<1>2. Len(rx) \in Nat /\ Len(wire) \in Nat /\ Len(All) \in Nat /\ cur_idx \in Nat
  BY DEF RxInv
<1>3. CASE i = Len(rx)
  <2>1. rx' = <<>> /\ cur_idx' = 0 /\ Len(rx') = 0
    BY <1>3 DEF Advance
  <2>2. RxInv'
    BY <1>1, <1>2, <2>1 DEF RxInv
  <2>3. Parsed' = Parsed + (i - cur_idx)
    BY <1>1, <1>2, <1>3, <2>1 DEF Parsed
  <2> QED
    BY <1>1, <2>2, <2>3
<1>4. CASE i # Len(rx)
  <2>1. rx' = rx /\ cur_idx' = i /\ i < Len(rx)
    BY <1>2, <1>4 DEF Advance
  <2>2. RxInv'
    BY <1>1, <1>2, <2>1 DEF RxInv
  <2>3. Parsed' = Parsed + (i - cur_idx)
    BY <1>1, <1>2, <2>1 DEF Parsed
  <2> QED
    BY <1>1, <2>2, <2>3
<1> QED
  BY <1>3, <1>4

LEMMA ChunkInit ==
  ASSUME Init PROVE ChunkInv
<1>1. All \in Seq(Byte) /\ Len(All) \in Nat
  <2>1. Stream(frames)
    BY StreamsAssumption DEF Init, Stream
  <2>2. All \in Seq(Byte)
    BY <2>1, StreamJoins DEF All
  <2> QED
    BY <2>2, SeqIs
<1>2. wire = All /\ rx = <<>> /\ cur_idx = 0 /\ Len(rx) = 0
  BY DEF Init, All
<1>3. RxInv
  BY <1>1, <1>2 DEF RxInv
<1>4. PktInv
  BY DEF Init, PktInv
<1>5. Parsed = 0
  <2>1. Len(All) - Len(wire) = 0 /\ Len(rx) - cur_idx = 0
    BY <1>1, <1>2
  <2> QED
    BY <2>1 DEF Parsed
<1>6. Parser = ByteInit
  BY DEF Init, Parser, ByteInit
<1> QED
  BY <1>1, <1>3, <1>4, <1>5, <1>6, StatesRecur DEF ChunkInv, ParserInv

-----------------------------------------------------------------------------
(* Each step keeps it *)

LEMMA ReceiveKeeps ==
  ASSUME ChunkInv, NEW n \in (1..MaxChunk) \cup {Len(wire)}, n > 0, receive_data(n)
  PROVE  ChunkInv'
<1>1. All' = All
  BY DEF receive_data, All
<1>2. /\ Len(wire) \in Nat /\ Len(All) \in Nat /\ cur_idx = 0 /\ rx = <<>> /\ Len(rx) = 0
      /\ wire \in Seq(Byte) /\ Len(wire) <= Len(All) /\ All \in Seq(Byte)
  BY DEF ChunkInv, RxInv, receive_data
<1>3. n \in 1..Len(wire)
  BY <1>2, MaxChunkAssumption DEF receive_data
<1>4. /\ rx' = SubSeq(wire, 1, n) /\ wire' = SubSeq(wire, n + 1, Len(wire)) /\ cur_idx' = 0
      /\ UNCHANGED <<state, pkt, mh_state, outs>>
  BY <1>2 DEF receive_data
<1>5. /\ rx' \in Seq(Byte) /\ Len(rx') = n /\ rx' # <<>>
      /\ wire' \in Seq(Byte) /\ Len(wire') = Len(wire) - n
  BY <1>2, <1>3, <1>4
<1>6. ASSUME NEW i \in 1..n PROVE rx'[i] = All[Len(All) - Len(wire') - n + i]
  <2>1. rx'[i] = wire[i] /\ i \in 1..Len(wire)
    BY <1>2, <1>3, <1>4
  <2>2. Len(All) - Len(wire') - n + i = Len(All) - Len(wire) + i
    BY <1>2, <1>3, <1>5
  <2> QED
    BY <2>1, <2>2 DEF ChunkInv, RxInv
<1>7. ASSUME NEW i \in 1..Len(wire') PROVE wire'[i] = All[Len(All) - Len(wire') + i]
  <2>1. wire'[i] = wire[n + i] /\ n + i \in 1..Len(wire)
    BY <1>2, <1>3, <1>4, <1>5
  <2>2. Len(All) - Len(wire') + i = Len(All) - Len(wire) + (n + i)
    BY <1>2, <1>3, <1>5, <1>7
  <2> QED
    BY <2>1, <2>2 DEF ChunkInv, RxInv
<1>8. RxInv'
  <2>1. cur_idx' \in Nat /\ cur_idx' < Len(rx') /\ Len(wire') + Len(rx') <= Len(All)
    BY <1>2, <1>3, <1>4, <1>5
  <2> QED
    BY <1>1, <1>2, <1>5, <1>6, <1>7, <2>1 DEF RxInv
<1>9. PktInv'
  BY <1>4 DEF ChunkInv, PktInv
<1>10. Parsed' = Parsed
  <2>1. Len(All) - Len(wire') - (n - 0) = Len(All) - Len(wire) - (0 - 0)
    BY <1>2, <1>3, <1>5
  <2> QED
    BY <2>1, <1>1, <1>2, <1>4, <1>5 DEF Parsed
<1>11. Parser' = Parser
  BY <1>4 DEF Parser
<1>12. ~ EmptyHandled
  BY <1>2 DEF EmptyHandled
<1> QED
  BY <1>1, <1>8, <1>9, <1>10, <1>11, <1>12 DEF ChunkInv, ParserInv

LEMMA SearchKeeps ==
  ASSUME ChunkInv, SearchSync PROVE ChunkInv'
<1> DEFINE syncs == {j \in (cur_idx + 1)..Len(rx) : rx[j] = SYNC_BYTE}
           Now(st) == State(st, pkt.len, pkt.cur_idx, pkt.data, outs, mh_state)
           p == Parsed
<1>1. /\ rx # <<>> /\ state = "IDLE" /\ frames' = frames /\ wire' = wire
      /\ UNCHANGED <<pkt, mh_state, outs>>
  BY DEF SearchSync, Parsing
<1>2. Len(rx) \in Nat /\ cur_idx \in Nat /\ cur_idx < Len(rx) /\ All \in Seq(Byte)
  BY <1>1 DEF ChunkInv, RxInv
<1>3. /\ p \in Nat /\ p + (Len(rx) - cur_idx) <= Len(All)
      /\ \A j \in 1..Len(rx) - cur_idx : All[p + j] = rx[cur_idx + j]
  BY Ahead DEF ChunkInv
<1>4. PICK i \in (cur_idx + 1)..Len(rx) :
        /\ Advance(i)
        /\ \A j \in (cur_idx + 1)..i - 1 : rx[j] # SYNC_BYTE
        /\ state' = IF rx[i] = SYNC_BYTE THEN "WAIT_LEN" ELSE "IDLE"
  <2>1. CASE syncs = {}
    <3>1. Advance(Len(rx)) /\ state' = "IDLE"
      BY <1>1, <2>1 DEF SearchSync, Advance
    <3>2. \A j \in (cur_idx + 1)..Len(rx) : rx[j] # SYNC_BYTE
      BY <2>1
    <3>3. Len(rx) \in (cur_idx + 1)..Len(rx)
      BY <1>2
    <3>4. \A j \in (cur_idx + 1)..Len(rx) - 1 : j \in (cur_idx + 1)..Len(rx)
      BY <1>2
    <3> HIDE DEF syncs
    <3> QED
      BY <3>1, <3>2, <3>3, <3>4
  <2>2. CASE syncs # {}
    <3> DEFINE i == CHOOSE x \in syncs : \A y \in syncs : x <= y
    <3>1. Advance(i) /\ state' = "WAIT_LEN"
      BY <1>1, <2>2 DEF SearchSync
    <3>2. syncs \in SUBSET Nat
      BY <1>2
    <3>3. i \in syncs /\ \A y \in syncs : i <= y
      <4> HIDE DEF syncs
      <4> QED
        BY <2>2, <3>2, Least
    <3> HIDE DEF i
    <3>4. i \in (cur_idx + 1)..Len(rx) /\ rx[i] = SYNC_BYTE
      BY <3>3
    <3>5. ASSUME NEW j \in (cur_idx + 1)..i - 1 PROVE rx[j] # SYNC_BYTE
      <4>1. j \in (cur_idx + 1)..Len(rx) /\ ~ (i <= j)
        BY <1>2, <3>4, <3>5
      <4> QED
        BY <3>3, <4>1
    <3> QED
      BY <3>1, <3>4, <3>5
  <2> QED
    BY <2>1, <2>2
<1> DEFINE k == i - cur_idx
<1>5. /\ i \in Nat /\ cur_idx <= i /\ i <= Len(rx)
      /\ k \in Nat /\ k > 0 /\ k \in 1..Len(rx) - cur_idx /\ 1 \in 1..Len(rx) - cur_idx
      /\ p + k <= Len(All) /\ cur_idx + k = i /\ p \in 0..Len(All) - 1
  BY <1>2, <1>3, <1>4
<1>6. RxInv' /\ Parsed' = p + k /\ All' = All
  BY <1>1, <1>4, <1>5, AdvanceMoves DEF ChunkInv
<1>7. ByteStates(All)[p + 1] =
        Looked(All[p + 1], pkt.len, pkt.cur_idx, pkt.data, outs, mh_state)
  <2>1. ByteStates(All)[p + 1] = ByteStep(ByteStates(All)[p], All[p + 1])
    BY <1>2, <1>5, StatesRecur
  <2>2. Parser = Now("IDLE")
    BY <1>1, ParserIsState
  <2>3. CASE Parser = ByteStates(All)[p]
    BY <2>1, <2>2, <2>3, StepIdle
  <2>4. CASE EmptyHandled
    <3>1. PICK x, d, o, mh :
            /\ ByteStates(All)[p] = State("GET_PAYLOAD", 0, x, d, o, mh)
            /\ Parser = Handled(State("GET_PAYLOAD", 0, x, d, o, mh))
      BY <2>4 DEF EmptyHandled
    <3>2. ByteStates(All)[p + 1] = Searched(Parser, All[p + 1])
      BY <2>1, <3>1, StepEmpty
    <3> QED
      BY <2>2, <3>2, StepIdle
  <2> QED
    BY <2>3, <2>4 DEF ChunkInv, ParserInv
<1>8. \A j \in 1..k - 1 : All[p + j] # SYNC_BYTE
  <2> SUFFICES ASSUME NEW j \in 1..k - 1 PROVE All[p + j] # SYNC_BYTE
    OBVIOUS
  <2>1. j \in 1..Len(rx) - cur_idx /\ cur_idx + j \in (cur_idx + 1)..i - 1
    BY <1>2, <1>4, <1>5
  <2> HIDE DEF p
  <2> QED
    BY <1>3, <1>4, <2>1
<1>9. ByteStates(All)[p + k] =
        Looked(All[p + k], pkt.len, pkt.cur_idx, pkt.data, outs, mh_state)
  <2> HIDE DEF p, k
  <2>1. Skipped(All, p, k)
    BY <1>3, <1>5, <1>8 DEF Skipped
  <2> QED
    BY <1>2, <1>7, <2>1, Search
<1>10. All[p + k] = rx[i]
  <2> HIDE DEF p, k
  <2> QED
    BY <1>3, <1>5
<1>11. ByteStates(All)[p + k] = Now(state')
  BY <1>4, <1>9, <1>10 DEF Looked
<1>12. Parser' = Now(state')
  BY <1>1, ParserIsState
<1>13. PktInv'
  BY <1>1, <1>4 DEF ChunkInv, PktInv
<1> HIDE DEF p, k
<1> QED
  BY <1>6, <1>11, <1>12, <1>13 DEF ChunkInv, ParserInv

LEMMA ReadLenKeeps ==
  ASSUME ChunkInv, ReadLen PROVE ChunkInv'
<1> DEFINE p == Parsed
           b == rx[cur_idx + 1]
<1>1. /\ rx # <<>> /\ state = "WAIT_LEN" /\ frames' = frames /\ wire' = wire
      /\ UNCHANGED <<mh_state, outs>> /\ Advance(cur_idx + 1) /\ state' = "GET_PAYLOAD"
      /\ pkt' = [len |-> b, cur_idx |-> 0, data |-> pkt.data]
  BY DEF ReadLen, Parsing
<1>2. /\ Len(rx) \in Nat /\ cur_idx \in Nat /\ cur_idx < Len(rx) /\ All \in Seq(Byte)
      /\ b \in Nat
  <2>1. /\ Len(rx) \in Nat /\ cur_idx \in Nat /\ cur_idx < Len(rx) /\ All \in Seq(Byte)
        /\ rx \in Seq(Byte)
    BY <1>1 DEF ChunkInv, RxInv
  <2>2. b \in Byte
    BY <2>1
  <2> HIDE DEF b
  <2>3. b \in Nat
    BY <2>2 DEF Byte
  <2> QED
    BY <2>1, <2>3
<1>3. p \in Nat /\ p \in 0..Len(All) - 1 /\ All[p + 1] = b
  <2>1. 1 \in 1..Len(rx) - cur_idx
    BY <1>2
  <2> QED
    BY <1>2, <2>1, Ahead DEF ChunkInv
<1>4. RxInv' /\ Parsed' = p + 1 /\ All' = All
  <2> DEFINE i == cur_idx + 1
  <2>1. i \in Nat /\ cur_idx <= i /\ i <= Len(rx) /\ i - cur_idx = 1 /\ Advance(i)
    BY <1>1, <1>2
  <2> HIDE DEF i
  <2> QED
    BY <1>1, <2>1, AdvanceMoves DEF ChunkInv
<1>5. pkt' \in [len : Nat, cur_idx : Nat, data : Seq(Byte)] /\ pkt'.len = b /\ pkt'.cur_idx = 0
      /\ pkt'.data = pkt.data
  BY <1>1, <1>2 DEF ChunkInv, PktInv
<1>6. PktInv'
  BY <1>1, <1>2, <1>5 DEF PktInv
<1>7. Parser = ByteStates(All)[p]
  BY <1>1 DEF ChunkInv, ParserInv, EmptyHandled
<1>8. ByteStates(All)[p + 1] = ByteStep(Parser, b)
  BY <1>2, <1>3, <1>7, StatesRecur
<1>9. Parser' = ByteStates(All)[p + 1]
  <2> HIDE DEF b, p
  <2>1. Parser = State("WAIT_LEN", pkt.len, pkt.cur_idx, pkt.data, outs, mh_state)
    BY <1>1, ParserIsState
  <2>2. Parser' = State("GET_PAYLOAD", b, 0, pkt.data, outs, mh_state)
    BY <1>1, <1>5, ParserIsState
  <2> QED
    BY <1>8, <2>1, <2>2, StepLen
<1> HIDE DEF p
<1> QED
  BY <1>4, <1>6, <1>9 DEF ChunkInv, ParserInv

LEMMA GetPayloadKeeps ==
  ASSUME ChunkInv, GetPayload PROVE ChunkInv'
<1> DEFINE p == Parsed
           n == IF pkt.len - pkt.cur_idx < Len(rx) - cur_idx
                THEN pkt.len - pkt.cur_idx ELSE Len(rx) - cur_idx
           d == Overwrite(pkt.data, pkt.cur_idx, SubSeq(rx, cur_idx + 1, cur_idx + n))
           got == State("GET_PAYLOAD", pkt.len, pkt.cur_idx + n, d, outs, mh_state)
           done == pkt.len = pkt.cur_idx + n
<1>1. /\ rx # <<>> /\ state = "GET_PAYLOAD" /\ frames' = frames /\ wire' = wire
      /\ Advance(cur_idx + n)
      /\ pkt' = [len |-> pkt.len, cur_idx |-> pkt.cur_idx + n, data |-> d]
  BY DEF GetPayload, Parsing
<1>2. /\ Len(rx) \in Nat /\ cur_idx \in Nat /\ cur_idx < Len(rx) /\ All \in Seq(Byte)
      /\ rx \in Seq(Byte)
  BY <1>1 DEF ChunkInv, RxInv
<1>3. /\ pkt \in [len : Nat, cur_idx : Nat, data : Seq(Byte)]
      /\ pkt.len \in Nat /\ pkt.cur_idx \in Nat /\ pkt.data \in Seq(Byte)
      /\ pkt.cur_idx <= Len(pkt.data)
      /\ pkt.cur_idx < pkt.len \/ (pkt.cur_idx = 0 /\ pkt.len = 0)
  BY <1>1 DEF ChunkInv, PktInv
<1>4. /\ n \in Nat /\ n <= Len(rx) - cur_idx /\ pkt.cur_idx + n <= pkt.len
      /\ n = 0 => pkt.len = 0 /\ pkt.cur_idx = 0
      /\ pkt.len = 0 => n = 0
  BY <1>2, <1>3
<1>5. /\ p \in Nat /\ p + n <= Len(All)
      /\ \A j \in 1..n : All[p + j] = rx[cur_idx + j]
  <2>1. /\ p \in Nat /\ p + (Len(rx) - cur_idx) <= Len(All)
        /\ \A j \in 1..Len(rx) - cur_idx : All[p + j] = rx[cur_idx + j]
    BY Ahead DEF ChunkInv
  <2> HIDE DEF n, p
  <2>2. n <= Len(rx) - cur_idx /\ n \in Nat /\ Len(rx) - cur_idx \in Nat
    BY <1>2, <1>4
  <2>3. 1..n \subseteq 1..Len(rx) - cur_idx
    BY <2>2
  <2>4. Len(All) \in Nat
    BY <1>2
  <2>5. p \in Nat /\ p + n <= Len(All)
    BY <2>1, <2>2, <2>4
  <2> QED
    BY <2>1, <2>3, <2>5
<1>6. RxInv' /\ Parsed' = p + n /\ All' = All
  <2> HIDE DEF n
  <2> DEFINE i == cur_idx + n
  <2>1. i \in Nat /\ cur_idx <= i /\ i <= Len(rx) /\ i - cur_idx = n /\ Advance(i)
    BY <1>1, <1>2, <1>4
  <2> HIDE DEF i
  <2> QED
    BY <1>1, <2>1, AdvanceMoves DEF ChunkInv
<1>7. SubSeq(rx, cur_idx + 1, cur_idx + n) = SubSeq(All, p + 1, p + n)
      /\ SubSeq(rx, cur_idx + 1, cur_idx + n) \in Seq(Byte)
      /\ Len(SubSeq(rx, cur_idx + 1, cur_idx + n)) = n
  <2> HIDE DEF n, p
  <2> DEFINE a == SubSeq(rx, cur_idx + 1, cur_idx + n)
             c == SubSeq(All, p + 1, p + n)
  <2>1. cur_idx + n <= Len(rx) /\ cur_idx \in Nat /\ n \in Nat
    BY <1>2, <1>4
  <2>2. a \in Seq(Byte) /\ Len(a) = n /\ \A j \in 1..n : a[j] = rx[cur_idx + j]
    BY <1>2, <2>1
  <2>3. c \in Seq(Byte) /\ Len(c) = n /\ \A j \in 1..n : c[j] = All[p + j]
    BY <1>2, <1>5, <2>1
  <2> HIDE DEF a, c
  <2>4. a = c
    BY <1>5, <2>2, <2>3
  <2> QED
    BY <2>2, <2>4 DEF a, c
<1>8. d \in Seq(Byte) /\ pkt.cur_idx + n <= Len(d)
  <2> HIDE DEF n
  <2> QED
    BY <1>3, <1>7, OverwriteType
<1>9. /\ pkt' \in [len : Nat, cur_idx : Nat, data : Seq(Byte)]
      /\ pkt'.len = pkt.len /\ pkt'.cur_idx = pkt.cur_idx + n /\ pkt'.data = d
  <2> HIDE DEF n, d
  <2> QED
    BY <1>1, <1>3, <1>4, <1>8
<1>10. CASE done
  <2>1. /\ state' = "IDLE"
        /\ mh_state' = decode_pkt(d, pkt.len, mh_state).mh
        /\ outs' = outs \o decode_pkt(d, pkt.len, mh_state).out
    <3>1. Handle(pkt') /\ state' = "IDLE"
      BY <1>1, <1>3, <1>9, <1>10 DEF GetPayload
    <3> HIDE DEF n, d
    <3> QED
      BY <3>1, <1>9 DEF Handle
  <2> HIDE DEF n, d, p
  <2>2. Parser' = Handled(got)
    BY <2>1, <1>9, ParserIsState, HandledState
  <2>3. PktInv'
    BY <2>1, <1>9 DEF PktInv
  <2>4. Parser = ByteStates(All)[p]
    BY <1>1 DEF ChunkInv, ParserInv, EmptyHandled, p
  <2>5. Parser = State("GET_PAYLOAD", pkt.len, pkt.cur_idx, pkt.data, outs, mh_state)
    BY <1>1, ParserIsState
  <2>6. CASE n = 0
    <3>1. pkt.len = 0 /\ pkt.cur_idx = 0 /\ pkt.cur_idx + n = 0 /\ p + n = p
      BY <1>4, <1>5, <2>6
    <3>2. d = pkt.data
      <4>1. SubSeq(rx, cur_idx + 1, cur_idx + n) = <<>>
        BY <1>7, <2>6
      <4> QED
        BY <1>3, <4>1, OverwriteNothing DEF d
    <3>3. rx' # <<>>
      <4>1. cur_idx + n # Len(rx)
        BY <1>2, <2>6
      <4> QED
        BY <1>1, <4>1 DEF Advance
    <3>4. Parser = State("GET_PAYLOAD", 0, 0, pkt.data, outs, mh_state)
          /\ got = State("GET_PAYLOAD", 0, 0, pkt.data, outs, mh_state)
      BY <2>5, <3>1, <3>2
    <3>5. /\ ByteStates(All')[Parsed'] = State("GET_PAYLOAD", 0, 0, pkt.data, outs, mh_state)
          /\ Parser' = Handled(State("GET_PAYLOAD", 0, 0, pkt.data, outs, mh_state))
      BY <1>6, <2>2, <2>4, <3>1, <3>4
    <3>6. EmptyHandled'
      BY <2>1, <3>3, <3>5 DEF EmptyHandled
    <3> QED
      BY <1>6, <2>3, <3>6 DEF ChunkInv, ParserInv
  <2>7. CASE n # 0
    <3>1. n > 0
      BY <1>4, <2>7
    <3>2. ByteStates(All)[p + n] = IF pkt.cur_idx + n = pkt.len THEN Handled(got) ELSE got
      <4>1. Copied(All, p, n, pkt.len, pkt.cur_idx, pkt.data)
        BY <1>3, <1>4, <1>5, <3>1 DEF Copied
      <4>2. d = Overwrite(pkt.data, pkt.cur_idx, SubSeq(All, p + 1, p + n))
        BY <1>7 DEF d
      <4>3. ByteStates(All)[p] =
              State("GET_PAYLOAD", pkt.len, pkt.cur_idx, pkt.data, outs, mh_state)
        BY <2>4, <2>5
      <4> QED
        BY <1>2, <1>3, <4>1, <4>2, <4>3, Copy
    <3> QED
      BY <1>6, <1>10, <2>2, <2>3, <3>2 DEF ChunkInv, ParserInv
  <2> QED
    BY <2>6, <2>7
<1>11. CASE ~ done
  <2>1. UNCHANGED <<mh_state, outs, state>>
    <3>1. ~ (pkt'.len = pkt'.cur_idx)
      BY <1>9, <1>11
    <3> QED
      BY <1>1, <1>9, <1>11, <3>1 DEF GetPayload
  <2> HIDE DEF n, d, p
  <2>2. Parser' = got
    BY <2>1, <1>1, <1>9, ParserIsState
  <2>3. pkt.cur_idx + n < pkt.len /\ n > 0
    BY <1>3, <1>4, <1>11
  <2>4. PktInv'
    BY <2>1, <2>3, <1>1, <1>8, <1>9 DEF PktInv
  <2>5. ByteStates(All)[p] = State("GET_PAYLOAD", pkt.len, pkt.cur_idx, pkt.data, outs, mh_state)
    BY <1>1, ParserIsState DEF ChunkInv, ParserInv, EmptyHandled, p
  <2>6. ByteStates(All)[p + n] = IF pkt.cur_idx + n = pkt.len THEN Handled(got) ELSE got
    <3>1. Copied(All, p, n, pkt.len, pkt.cur_idx, pkt.data)
      BY <1>3, <1>4, <1>5, <2>3 DEF Copied
    <3>2. d = Overwrite(pkt.data, pkt.cur_idx, SubSeq(All, p + 1, p + n))
      BY <1>7 DEF d
    <3> QED
      BY <1>2, <1>3, <2>5, <3>1, <3>2, Copy
  <2> QED
    BY <1>6, <1>11, <2>2, <2>4, <2>6 DEF ChunkInv, ParserInv
<1> QED
  BY <1>10, <1>11

LEMMA ChunkRest ==
  ASSUME ChunkInv, UNCHANGED <<frames, rx_vars>> PROVE ChunkInv'
<1>1. /\ All' = All /\ Parsed' = Parsed /\ Parser' = Parser
      /\ UNCHANGED <<wire, rx, cur_idx, state, pkt>>
  BY DEF rx_vars, All, Parsed, Parser
<1>2. RxInv' /\ PktInv'
  BY <1>1 DEF ChunkInv, RxInv, PktInv
<1>3. ParserInv'
  BY <1>1 DEF ChunkInv, ParserInv, EmptyHandled
<1> QED
  BY <1>2, <1>3 DEF ChunkInv

Substracts ==
  \/ LoadUsec \/ StoreUsec \/ LoadSec \/ StoreSec \/ SubstractResult
  \/ ClearUsec \/ ClearSec

LEMMA SubstractsAside ==
  ASSUME Substracts PROVE UNCHANGED <<frames, rx_vars, now, setting>>
BY DEF Substracts, InSubstract, LoadUsec, StoreUsec, LoadSec, StoreSec,
       SubstractResult, ClearUsec, ClearSec

LEMMA ChunkNext ==
  ASSUME ChunkInv, [Next]_vars PROVE ChunkInv'
<1>1. CASE \E n \in (1..MaxChunk) \cup {Len(wire)} : n > 0 /\ receive_data(n)
  BY <1>1, ReceiveKeeps
<1>2. CASE SearchSync
  BY <1>2, SearchKeeps
<1>3. CASE ReadLen
  BY <1>3, ReadLenKeeps
<1>4. CASE GetPayload
  BY <1>4, GetPayloadKeeps
<1>5. CASE SetTimeSec \/ SetTimeUsec \/ TimePasses
  BY <1>5, ChunkRest DEF SetTimeSec, SetTimeUsec, TimePasses
<1>6. CASE Substracts
  BY <1>6, ChunkRest, SubstractsAside
<1>7. CASE UNCHANGED vars
  BY <1>7, ChunkRest DEF vars
<1> QED
  BY <1>1, <1>2, <1>3, <1>4, <1>5, <1>6, <1>7 DEF Next, Substracts

(* serial.c gives the same packets, answers and measures in whatever pieces *)
(* read(2) gives it the bytes of the control node, whatever these are.      *)
THEOREM ChunksDoNotMatter == Spec => []ChunksInvisible
<1>1. Init => ChunkInv
  BY ChunkInit
<1>2. ChunkInv /\ [Next]_vars => ChunkInv'
  BY ChunkNext
<1>3. ChunkInv => ChunksInvisible
  <2> SUFFICES ASSUME ChunkInv, rx = <<>>
               PROVE  Parser = ByteStates(All)[Len(All) - Len(wire)]
    BY DEF ChunksInvisible, All
  <2>1. Parser = ByteStates(All)[Parsed]
    BY DEF ChunkInv, ParserInv, EmptyHandled
  <2>2. Len(All) \in Nat /\ Len(wire) \in Nat /\ Len(rx) = 0 /\ cur_idx = 0
    BY DEF ChunkInv, RxInv
  <2>3. Parsed = Len(All) - Len(wire)
    BY <2>2 DEF Parsed
  <2> QED
    BY <2>1, <2>3
<1> QED
  BY <1>1, <1>2, <1>3, PTL DEF Spec

-----------------------------------------------------------------------------
(* What the frames give *)

(* What is held at the start is a prefix. *)
LEMMA HoldsPrefix ==
  ASSUME NEW s, NEW t, IsSeq(s), IsSeq(t), Holds(t, 0, s)
  PROVE  IsPrefix(s, t)
<1> DEFINE n == Len(s)
           a == SubSeq(s, 1, n)
           b == SubSeq(t, 1, n)
<1>1. n \in Nat /\ Len(t) \in Nat /\ n <= Len(t) /\ \A i \in 1..n : t[0 + i] = s[i]
  BY DEF Holds
<1>2. a = [i \in 1..n |-> s[i]] /\ b = [i \in 1..n |-> t[i]]
  BY <1>1 DEF IsSeq
<1>3. \A i \in 1..n : s[i] = t[i]
  BY <1>1
<1>4. a = b
  BY <1>2, <1>3
<1> QED
  BY <1>1, <1>4 DEF IsPrefix

(* So it is for the parser, whatever the pieces the bytes are read in. *)
LEMMA ParserGives ==
  ASSUME ChunkInv, NEW fs, NEW B, NEW M, Traffic(fs, All, B, M)
  PROVE  /\ \E y \in 0..Len(fs) : Said(outs, M[y])
         /\ wire = <<>> /\ rx = <<>> => Said(outs, M[Len(fs)])
<1> DEFINE S == ByteStates(All)
           p == Parsed
<1>1. /\ p \in Nat /\ p + (Len(rx) - cur_idx) <= Len(All)
      /\ All \in Seq(Byte) /\ Len(All) \in Nat /\ Len(rx) \in Nat /\ cur_idx \in Nat
      /\ cur_idx < Len(rx) \/ (rx = <<>> /\ cur_idx = 0 /\ Len(rx) = 0)
  BY Ahead DEF ChunkInv, RxInv
<1>2. Parser.outs = outs
  BY DEF Parser
<1>3. /\ \A x \in 0..Len(All) : Given(S[x], M, Len(fs))
      /\ Said(S[Len(All)].outs, M[Len(fs)])
  BY AllRead
<1>4. CASE Parser = S[p]
  <2>1. p \in 0..Len(All)
    BY <1>1
  <2> HIDE DEF p, S
  <2>2. \E y \in 0..Len(fs) : Said(outs, M[y])
    BY <1>2, <1>3, <1>4, <2>1 DEF Given
  <2>3. ASSUME wire = <<>>, rx = <<>> PROVE Said(outs, M[Len(fs)])
    <3>1. p = Len(All)
      BY <1>1, <2>3, EmptyIs DEF p, Parsed
    <3> QED
      BY <1>2, <1>3, <1>4, <3>1
  <2> QED
    BY <2>2, <2>3
<1>5. CASE EmptyHandled
  <2>1. rx # <<>> /\ p \in 0..Len(All) - 1 /\ p + 1 \in 0..Len(All)
    BY <1>1, <1>5 DEF EmptyHandled
  <2>2. S[p + 1] = ByteStep(S[p], All[p + 1])
    <3> HIDE DEF p
    <3> QED
      BY <1>1, <2>1, StatesRecur
  <2>3. S[p + 1] = Searched(Parser, All[p + 1])
    <3>1. PICK i, d, o, mh :
            /\ S[p] = State("GET_PAYLOAD", 0, i, d, o, mh)
            /\ Parser = Handled(State("GET_PAYLOAD", 0, i, d, o, mh))
      BY <1>5 DEF EmptyHandled
    <3> HIDE DEF S, p
    <3> QED
      BY <2>2, <3>1, StepEmpty
  <2>4. Parser = State("IDLE", pkt.len, pkt.cur_idx, pkt.data, outs, mh_state)
    BY <1>5, ParserIsState DEF EmptyHandled
  <2>5. S[p + 1] = Looked(All[p + 1], pkt.len, pkt.cur_idx, pkt.data, outs, mh_state)
    BY <2>3, <2>4, StepIdle
  <2> HIDE DEF S, p
  <2>6. S[p + 1].outs = outs
    BY <2>5, OutsOf DEF Looked
  <2> QED
    BY <1>3, <2>1, <2>6 DEF Given
<1> QED
  BY <1>4, <1>5 DEF ChunkInv, ParserInv

(* The invariant of the parser implies the property. *)
LEMMA DeliveredWhenRead ==
  ASSUME ChunkInv, frames \in Streams PROVE FramesDelivered
<1> DEFINE n == Len(frames)
           meant == FlattenSeq(MeantOf(frames))
           given == TrimAll(outs)
<1> SUFFICES ASSUME Quiet(frames)
             PROVE  /\ IsPrefix(given, meant)
                    /\ wire = <<>> /\ rx = <<>> => given = meant
  BY DEF FramesDelivered, MeantOf, TrimAll
<1>1. Stream(frames)
  BY StreamsAssumption DEF Stream
<1>2. n \in Nat
  BY <1>1, StreamFacts
<1>3. PICK B : Joins(B, EncodesOf(frames)) /\ All = B[n]
  BY <1>1, StreamJoins DEF All
<1>4. PICK M : Joins(M, MeantOf(frames)) /\ meant = M[n]
  BY <1>1, StreamJoins
<1>5. Traffic(frames, All, B, M)
  BY <1>1, <1>3, <1>4 DEF Traffic, ChunkInv, RxInv
<1>6. PICK y \in 0..n : Said(outs, M[y])
  BY <1>5, ParserGives
<1>7. wire = <<>> /\ rx = <<>> => Said(outs, M[n])
  BY <1>5, ParserGives
<1>8. Holds(M[n], 0, M[y]) /\ IsSeq(M[n]) /\ IsSeq(M[y])
  <2>1. Len(MeantOf(frames)) = n
    BY <1>1, StreamJoins
  <2>2. y \in 0..n /\ n \in y..n /\ n \in 0..n
    BY <1>2
  <2> HIDE DEF n
  <2>3. Holds(M[n], 0, M[y])
    BY <1>4, <2>1, <2>2, JoinsGrow
  <2> QED
    BY <1>4, <2>1, <2>2, <2>3 DEF Joins
<1>9. IsPrefix(given, meant)
  <2>1. given = M[y]
    BY <1>6 DEF Said
  <2> HIDE DEF given, meant, n
  <2> QED
    BY <1>4, <1>8, <2>1, HoldsPrefix
<1> QED
  BY <1>4, <1>7, <1>9 DEF Said

(* Every frame that arrives gives exactly its values, in order, once, and   *)
(* nothing else is given, whatever the frames, the pieces they are read in, *)
(* the acknowledgements lost and the noise without synchronisation bytes.   *)
THEOREM FramesGiveTheirValues == Spec => []FramesDelivered
<1> DEFINE Inv == ChunkInv /\ frames \in Streams
<1>1. Init => Inv
  BY ChunkInit DEF Init
<1>2. Inv /\ [Next]_vars => Inv'
  <2> SUFFICES ASSUME Inv, [Next]_vars PROVE Inv'
    OBVIOUS
  <2>1. ChunkInv'
    BY ChunkNext
  <2>2. frames' = frames
    <3>1. CASE Substracts
      BY <3>1, SubstractsAside
    <3>2. CASE UNCHANGED vars
      BY <3>2 DEF vars
    <3> QED
      BY <3>1, <3>2 DEF Next, Substracts, receive_data, SearchSync, ReadLen,
                        GetPayload, SetTimeSec, SetTimeUsec, TimePasses
  <2> QED
    BY <2>1, <2>2
<1>3. Inv => FramesDelivered
  BY DeliveredWhenRead
<1> QED
  BY <1>1, <1>2, <1>3, PTL DEF Spec

-----------------------------------------------------------------------------
(* time_ref.c *)

Timeval == [sec : Int, usec : 0..MICRO - 1]

LEMMA Micro == MICRO \in Nat /\ MICRO > 0
BY SMT DEF MICRO

LEMMA NoTimeTyped == NoTime \in Timeval
BY Micro DEF NoTime, Timeval

(* The adjustments of timeval_substract, for the words of two times. *)
LEMMA Borrow ==
  ASSUME NEW x \in 0..MICRO - 1, NEW y \in 0..MICRO - 1
  PROVE  nsec(x, y) \in {0, 1} /\ x - (y - MICRO * nsec(x, y)) \in 0..MICRO - 1
<1> USE Micro
<1>1. CASE x < y
  <2>1. (y - x) \div MICRO = 0
    BY <1>1
  <2>2. x - (y - MICRO) \in 0..MICRO - 1
    BY <1>1
  <2>3. nsec(x, y) = 1
    BY <1>1, <2>1, <2>2 DEF nsec
  <2> QED
    BY <2>2, <2>3
<1>2. CASE ~ (x < y)
  <2>1. x - y \in 0..MICRO - 1
    BY <1>2
  <2>2. nsec(x, y) = 0
    BY <1>2, <2>1 DEF nsec
  <2> QED
    BY <2>1, <2>2
<1> QED
  BY <1>1, <1>2

Before == {"load_usec", "store_usec"}
After == {"load_sec", "store_sec", "result"}

TimeTyped ==
  /\ now \in 1..Len(Times)
  /\ setting \in BOOLEAN
  /\ set_time_ref \in [sec : Int, usec : Int]
  /\ sub \in [ pc : {"none", "clear_usec", "clear_sec"} \cup Before \cup After,
               x : Timeval, sec : Int, usec : 0..MICRO - 1, ref : Timeval,
               mixed : BOOLEAN ]

(* Outside of the computation each word of set_time_ref is that of a time,  *)
(* whatever the two threads wrote there.                                    *)
NormalOutside ==
  sub.pc \in {"none", "clear_sec"} \cup Before => set_time_ref.usec \in 0..MICRO - 1

(* What a computation that is left alone has done. *)
Alone ==
  sub.pc \in Before \cup After /\ ~ sub.mixed =>
    /\ ~ setting
    /\ sub.pc \in Before => set_time_ref = sub.ref
    /\ sub.pc # "load_usec" => sub.usec = sub.ref.usec
    /\ sub.pc \in After => set_time_ref.usec = sub.ref.usec - MICRO * Carry
    /\ sub.pc = "load_sec" => set_time_ref.sec = sub.ref.sec
    /\ sub.pc \in {"store_sec", "result"} => sub.sec = sub.ref.sec + Carry

TimeInv == TimeTyped /\ NormalOutside /\ Alone /\ ElapsedNormal

LEMMA TimesTyped ==
  /\ Len(Times) \in Nat /\ Len(Times) > 0
  /\ \A i \in 1..Len(Times) :
       Times[i] \in Timeval /\ Times[i].sec \in Int /\ Times[i].usec \in 0..MICRO - 1
<1>1. Times \in Seq(Timeval) /\ Times # <<>>
  BY TimesAssumption DEF Timeval
<1>2. Len(Times) \in Nat /\ Len(Times) > 0
  BY <1>1
<1>3. \A i \in 1..Len(Times) : Times[i] \in Timeval
  BY <1>1
<1> QED
  BY <1>2, <1>3 DEF Timeval

(* Any two times have a carry, and it brings their difference in range. *)
LEMMA CarryIs ==
  ASSUME TimeTyped
  PROVE  Carry \in {0, 1} /\ sub.x.usec - (sub.usec - MICRO * Carry) \in 0..MICRO - 1
<1>1. sub.x.usec \in 0..MICRO - 1 /\ sub.usec \in 0..MICRO - 1
  BY DEF TimeTyped, Timeval
<1> QED
  BY <1>1, Borrow DEF Carry

LEMMA HandleTime ==
  ASSUME TimeInv, sub.pc = "none", UNCHANGED <<set_time_ref, now, setting, elapsed>>,
         \/ UNCHANGED sub
         \/ sub' = [ sub EXCEPT !.pc = "load_usec", !.x = Times[now],
                                !.ref = set_time_ref, !.mixed = setting ]
  PROVE  TimeInv'
<1>1. CASE UNCHANGED sub
  BY <1>1 DEF TimeInv, TimeTyped, NormalOutside, Alone, ElapsedNormal, Carry
<1>2. CASE sub' = [ sub EXCEPT !.pc = "load_usec", !.x = Times[now],
                               !.ref = set_time_ref, !.mixed = setting ]
  <2>1. set_time_ref \in Timeval
    BY DEF TimeInv, TimeTyped, NormalOutside, Timeval
  <2>2. Times[now] \in Timeval
    BY TimesTyped DEF TimeInv, TimeTyped
  <2>3. TimeTyped'
    BY <1>2, <2>1, <2>2 DEF TimeInv, TimeTyped, Before
  <2>4. sub'.pc = "load_usec" /\ sub'.ref = set_time_ref /\ sub'.mixed = setting
    BY <1>2 DEF TimeInv, TimeTyped
  <2>5. NormalOutside'
    BY DEF TimeInv, NormalOutside
  <2>6. Alone'
    BY <2>4 DEF Alone, Before, After
  <2>7. ElapsedNormal'
    BY DEF TimeInv, ElapsedNormal
  <2> QED
    BY <2>3, <2>5, <2>6, <2>7 DEF TimeInv
<1> QED
  BY <1>1, <1>2

LEMMA SubstractTime ==
  ASSUME TimeInv, Substracts PROVE TimeInv'
<1>0. now' = now /\ setting' = setting
  BY SubstractsAside
<1>1. Carry \in {0, 1} /\ sub.x.usec - (sub.usec - MICRO * Carry) \in 0..MICRO - 1
  BY CarryIs DEF TimeInv
<1>2. CASE LoadUsec
  <2>1. /\ sub.pc = "load_usec" /\ set_time_ref' = set_time_ref /\ elapsed' = elapsed
        /\ sub' = [ sub EXCEPT
                      !.usec = set_time_ref.usec,
                      !.pc = IF nsec(sub.x.usec, set_time_ref.usec) = 0
                             THEN "load_sec" ELSE "store_usec" ]
    BY <1>2 DEF LoadUsec, InSubstract
  <2>2. set_time_ref.usec \in 0..MICRO - 1
    BY <2>1 DEF TimeInv, NormalOutside, Before
  <2>3. TimeTyped'
    BY <1>0, <2>1, <2>2 DEF TimeInv, TimeTyped, Before, After
  <2>4. /\ sub'.usec = set_time_ref.usec /\ sub'.x = sub.x /\ sub'.ref = sub.ref
        /\ sub'.mixed = sub.mixed
        /\ sub'.pc = IF Carry' = 0 THEN "load_sec" ELSE "store_usec"
    BY <2>1 DEF TimeInv, TimeTyped, Carry
  <2>5. NormalOutside'
    BY <2>1, <2>2 DEF NormalOutside
  <2>6. ASSUME ~ sub.mixed PROVE ~ setting /\ set_time_ref = sub.ref
    BY <2>1, <2>6 DEF TimeInv, Alone, Before
  <2>7. set_time_ref.usec - MICRO * 0 = set_time_ref.usec
    BY <2>2, Micro
  <2>8. Alone'
    BY <1>0, <2>1, <2>4, <2>6, <2>7 DEF Alone, Before, After
  <2>9. ElapsedNormal'
    BY <2>1 DEF TimeInv, ElapsedNormal
  <2> QED
    BY <2>3, <2>5, <2>8, <2>9 DEF TimeInv
<1>3. CASE StoreUsec
  <2>1. /\ sub.pc = "store_usec" /\ elapsed' = elapsed
        /\ set_time_ref' = [set_time_ref EXCEPT !.usec = sub.usec - MICRO * Carry]
        /\ sub' = [sub EXCEPT !.pc = "load_sec"]
    BY <1>3 DEF StoreUsec, InSubstract
  <2>2. sub.usec - MICRO * Carry \in Int
    BY <1>1, Micro DEF TimeInv, TimeTyped
  <2>3. TimeTyped'
    BY <1>0, <2>1, <2>2 DEF TimeInv, TimeTyped, Before, After
  <2>4. /\ sub'.pc = "load_sec" /\ sub'.usec = sub.usec /\ sub'.x = sub.x
        /\ sub'.ref = sub.ref /\ sub'.mixed = sub.mixed /\ Carry' = Carry
        /\ set_time_ref'.usec = sub.usec - MICRO * Carry
        /\ set_time_ref'.sec = set_time_ref.sec
    BY <2>1 DEF TimeInv, TimeTyped, Carry
  <2>5. NormalOutside'
    BY <2>4 DEF NormalOutside, Before
  <2>6. Alone'
    BY <1>0, <2>1, <2>4 DEF TimeInv, Alone, Before, After
  <2>7. ElapsedNormal'
    BY <2>1 DEF TimeInv, ElapsedNormal
  <2> QED
    BY <2>3, <2>5, <2>6, <2>7 DEF TimeInv
<1>4. CASE LoadSec
  <2>1. /\ sub.pc = "load_sec" /\ elapsed' = elapsed /\ set_time_ref' = set_time_ref
        /\ sub' = [ sub EXCEPT !.sec = set_time_ref.sec + Carry,
                               !.pc = IF Carry = 0 THEN "result" ELSE "store_sec" ]
    BY <1>4 DEF LoadSec, InSubstract
  <2>2. set_time_ref.sec + Carry \in Int
    BY <1>1 DEF TimeInv, TimeTyped
  <2>3. TimeTyped'
    BY <1>0, <2>1, <2>2 DEF TimeInv, TimeTyped, Before, After
  <2>4. /\ sub'.pc \in {"result", "store_sec"} /\ sub'.usec = sub.usec /\ sub'.x = sub.x
        /\ sub'.ref = sub.ref /\ sub'.mixed = sub.mixed /\ Carry' = Carry
        /\ sub'.sec = set_time_ref.sec + Carry
    BY <2>1 DEF TimeInv, TimeTyped, Carry
  <2>5. NormalOutside'
    BY <2>4 DEF NormalOutside, Before
  <2>6. Alone'
    BY <1>0, <2>1, <2>4 DEF TimeInv, Alone, Before, After
  <2>7. ElapsedNormal'
    BY <2>1 DEF TimeInv, ElapsedNormal
  <2> QED
    BY <2>3, <2>5, <2>6, <2>7 DEF TimeInv
<1>5. CASE StoreSec
  <2>1. /\ sub.pc = "store_sec" /\ elapsed' = elapsed
        /\ set_time_ref' = [set_time_ref EXCEPT !.sec = sub.sec]
        /\ sub' = [sub EXCEPT !.pc = "result"]
    BY <1>5 DEF StoreSec, InSubstract
  <2>2. TimeTyped'
    BY <1>0, <2>1 DEF TimeInv, TimeTyped, Before, After
  <2>3. /\ sub'.pc = "result" /\ sub'.usec = sub.usec /\ sub'.x = sub.x
        /\ sub'.ref = sub.ref /\ sub'.mixed = sub.mixed /\ Carry' = Carry
        /\ sub'.sec = sub.sec /\ set_time_ref'.usec = set_time_ref.usec
    BY <2>1 DEF TimeInv, TimeTyped, Carry
  <2>4. NormalOutside'
    BY <2>3 DEF NormalOutside, Before
  <2>5. Alone'
    BY <1>0, <2>1, <2>3 DEF TimeInv, Alone, Before, After
  <2>6. ElapsedNormal'
    BY <2>1 DEF TimeInv, ElapsedNormal
  <2> QED
    BY <2>2, <2>4, <2>5, <2>6 DEF TimeInv
<1>6. CASE SubstractResult
  <2> DEFINE e == [ diff |-> [ sec |-> sub.x.sec - sub.sec,
                               usec |-> sub.x.usec - set_time_ref.usec ],
                    x |-> sub.x, ref |-> sub.ref, mixed |-> sub.mixed ]
  <2>1. /\ sub.pc = "result" /\ elapsed' = <<e>> /\ set_time_ref' = set_time_ref
        /\ sub' = [sub EXCEPT !.pc = "clear_usec"]
    BY <1>6 DEF SubstractResult, InSubstract
  <2>2. ASSUME ~ e.mixed
        PROVE  /\ e.diff.usec \in 0..MICRO - 1
               /\ MICRO * e.diff.sec + e.diff.usec =
                    MICRO * (e.x.sec - e.ref.sec) + (e.x.usec - e.ref.usec)
    <3>1. /\ sub.usec = sub.ref.usec /\ sub.sec = sub.ref.sec + Carry
          /\ set_time_ref.usec = sub.usec - MICRO * Carry
      BY <2>1, <2>2 DEF TimeInv, Alone, Before, After
    <3>2. /\ sub.x.sec \in Int /\ sub.x.usec \in Int /\ sub.ref.sec \in Int
          /\ sub.ref.usec \in Int
      BY DEF TimeInv, TimeTyped, Timeval
    <3>3. CASE Carry = 0
      BY <1>1, <3>1, <3>2, <3>3, Micro
    <3>4. CASE Carry = 1
      BY <1>1, <3>1, <3>2, <3>4, Micro
    <3> QED
      BY <1>1, <3>3, <3>4
  <2>3. ElapsedNormal'
    <3>1. Range(elapsed') = {e}
      BY <2>1 DEF Range
    <3> HIDE DEF e
    <3> QED
      BY <2>2, <3>1 DEF ElapsedNormal
  <2>4. TimeTyped' /\ sub'.pc = "clear_usec"
    BY <1>0, <2>1 DEF TimeInv, TimeTyped, Before, After
  <2>5. NormalOutside' /\ Alone'
    BY <2>4 DEF NormalOutside, Alone, Before, After
  <2> QED
    BY <2>3, <2>4, <2>5 DEF TimeInv
<1>7. CASE ClearUsec
  <2>1. /\ elapsed' = elapsed /\ set_time_ref' = [set_time_ref EXCEPT !.usec = 0]
        /\ sub' = [sub EXCEPT !.pc = "clear_sec"]
    BY <1>7 DEF ClearUsec
  <2>2. TimeTyped' /\ sub'.pc = "clear_sec" /\ set_time_ref'.usec = 0
    BY <1>0, <2>1 DEF TimeInv, TimeTyped
  <2>3. NormalOutside' /\ Alone'
    BY <2>2, Micro DEF NormalOutside, Alone, Before, After
  <2> QED
    BY <2>1, <2>2, <2>3 DEF TimeInv, ElapsedNormal
<1>8. CASE ClearSec
  <2>1. /\ sub.pc = "clear_sec" /\ elapsed' = elapsed
        /\ set_time_ref' = [set_time_ref EXCEPT !.sec = 0]
        /\ sub' = [sub EXCEPT !.pc = "none"]
    BY <1>8 DEF ClearSec, InSubstract
  <2>2. TimeTyped' /\ sub'.pc = "none" /\ set_time_ref'.usec = set_time_ref.usec
    BY <1>0, <2>1 DEF TimeInv, TimeTyped
  <2>3. NormalOutside' /\ Alone'
    BY <2>1, <2>2 DEF TimeInv, NormalOutside, Alone, Before, After
  <2> QED
    BY <2>1, <2>2, <2>3 DEF TimeInv, ElapsedNormal
<1> QED
  BY <1>2, <1>3, <1>4, <1>5, <1>6, <1>7, <1>8 DEF Substracts

LEMMA SetTime ==
  ASSUME TimeInv, SetTimeSec \/ SetTimeUsec \/ TimePasses PROVE TimeInv'
<1>1. CASE SetTimeSec
  <2>1. /\ now' \in 1..Len(Times) /\ elapsed' = elapsed /\ setting' = TRUE
        /\ set_time_ref' = [set_time_ref EXCEPT !.sec = Times[now'].sec]
        /\ sub' = [sub EXCEPT !.mixed = TRUE]
    BY <1>1, TimesTyped DEF SetTimeSec, TimeInv, TimeTyped
  <2>2. TimeTyped'
    BY <2>1, TimesTyped DEF TimeInv, TimeTyped
  <2>3. sub'.pc = sub.pc /\ sub'.mixed /\ set_time_ref'.usec = set_time_ref.usec
    BY <2>1 DEF TimeInv, TimeTyped
  <2>4. NormalOutside' /\ Alone'
    BY <2>3 DEF TimeInv, NormalOutside, Alone
  <2> QED
    BY <2>1, <2>2, <2>4 DEF TimeInv, ElapsedNormal
<1>2. CASE SetTimeUsec
  <2>1. /\ now' = now /\ elapsed' = elapsed /\ setting /\ setting' = FALSE /\ sub' = sub
        /\ set_time_ref' = [set_time_ref EXCEPT !.usec = Times[now].usec]
    BY <1>2 DEF SetTimeUsec
  <2>2. Times[now].usec \in 0..MICRO - 1 /\ 0..MICRO - 1 \subseteq Int
    BY Micro, TimesTyped DEF TimeInv, TimeTyped
  <2>3. TimeTyped' /\ set_time_ref'.usec = Times[now].usec
    BY <2>1, <2>2 DEF TimeInv, TimeTyped
  <2>4. NormalOutside'
    BY <2>2, <2>3 DEF NormalOutside
  <2>5. Alone'
    BY <2>1 DEF TimeInv, Alone
  <2> QED
    BY <2>1, <2>3, <2>4, <2>5 DEF TimeInv, ElapsedNormal
<1>3. CASE TimePasses
  <2>1. now' \in 1..Len(Times) /\ UNCHANGED <<set_time_ref, setting, sub, elapsed>>
    BY <1>3, TimesTyped DEF TimePasses, TimeInv, TimeTyped
  <2> QED
    BY <2>1 DEF TimeInv, TimeTyped, NormalOutside, Alone, ElapsedNormal, Carry
<1> QED
  BY <1>1, <1>2, <1>3

(* Every delay printed for set_time that cmd_set_time left alone is normal   *)
(* and the difference of the two times it was made from, whatever they are:  *)
(* also when the clock was set back, and after any overlap of the commands   *)
(* and the acknowledgements before it (command_reader.c:199, time_ref.c).    *)
THEOREM DelaysAreNormal == Spec => []ElapsedNormal
<1>1. Init => TimeInv
  <2> SUFFICES ASSUME Init PROVE TimeInv
    OBVIOUS
  <2>1. NoTime \in Timeval /\ NoTime.usec = 0 /\ 0 \in 0..MICRO - 1
    BY NoTimeTyped, Micro DEF NoTime
  <2>2. now \in 1..Len(Times)
    BY TimesTyped DEF Init
  <2>3. TimeTyped /\ sub.pc = "none"
    <3>1. set_time_ref = NoTime /\ setting = FALSE
      BY DEF Init
    <3>2. set_time_ref \in [sec : Int, usec : Int]
      BY <3>1 DEF NoTime
    <3>3. sub = [pc |-> "none", x |-> NoTime, sec |-> 0, usec |-> 0, ref |-> NoTime,
                 mixed |-> FALSE]
      BY DEF Init
    <3>4. /\ sub.pc = "none"
          /\ sub \in [pc : {"none", "clear_usec", "clear_sec"} \cup Before \cup After,
                      x : Timeval, sec : Int, usec : 0..MICRO - 1, ref : Timeval,
                      mixed : BOOLEAN]
      BY <2>1, <3>3
    <3> QED
      BY <2>2, <3>1, <3>2, <3>4 DEF TimeTyped
  <2>4. NormalOutside /\ Alone
    BY <2>1, <2>3 DEF Init, NormalOutside, Alone, Before, After
  <2>5. ElapsedNormal
    BY DEF Init, ElapsedNormal, Range
  <2> QED
    BY <2>3, <2>4, <2>5 DEF TimeInv
<1>2. TimeInv /\ [Next]_vars => TimeInv'
  <2> SUFFICES ASSUME TimeInv, [Next]_vars PROVE TimeInv'
    OBVIOUS
  <2>1. CASE UNCHANGED time_vars
    BY <2>1 DEF time_vars, TimeInv, TimeTyped, NormalOutside, Alone, ElapsedNormal, Carry
  <2>2. CASE \E n \in (1..MaxChunk) \cup {Len(wire)} : n > 0 /\ receive_data(n)
    BY <2>1, <2>2 DEF receive_data
  <2>3. CASE SearchSync \/ ReadLen
    BY <2>1, <2>3 DEF SearchSync, ReadLen
  <2>4. CASE GetPayload
    <3>1. sub.pc = "none" /\ UNCHANGED <<set_time_ref, now, setting, elapsed>>
      BY <2>4 DEF GetPayload, Parsing
    <3>2. (\E p : Handle(p)) \/ UNCHANGED sub
      BY <2>4 DEF GetPayload
    <3>3. \/ UNCHANGED sub
          \/ sub' = [ sub EXCEPT !.pc = "load_usec", !.x = Times[now],
                                 !.ref = set_time_ref, !.mixed = setting ]
      BY <3>2 DEF Handle
    <3> QED
      BY <3>1, <3>3, HandleTime
  <2>5. CASE Substracts
    BY <2>5, SubstractTime
  <2>6. CASE SetTimeSec \/ SetTimeUsec \/ TimePasses
    BY <2>6, SetTime
  <2>7. CASE UNCHANGED vars
    BY <2>1, <2>7 DEF vars
  <2> QED
    BY <2>2, <2>3, <2>4, <2>5, <2>6, <2>7 DEF Next, Substracts
<1>3. TimeInv => ElapsedNormal
  BY DEF TimeInv
<1> QED
  BY <1>1, <1>2, <1>3, PTL DEF Spec
=============================================================================
