---------------------------- MODULE AsyncProofs ----------------------------
(***************************************************************************)
(* What librplay writes and reads asynchronously arrives: WrittenInOrder   *)
(* and LinesArrive as theorems of Async, for any number of connections and *)
(* of lines of any length, however write and read cut them.                *)
(*                                                                         *)
(* Writing: the invariant says of each connection how many lines are out   *)
(* (d) and how much of the next one (r), and what is queued in terms of    *)
(* these; and that otail is NULL exactly when the queue is empty.  Without *)
(* the latter a line could be appended to an obuf that has been freed.     *)
(*                                                                         *)
(* Reading: of each connection d lines have been read and r characters of  *)
(* the next one; what is under way starts there, and the callback has been *)
(* told of those of the d lines that its mask asks for.  At most one       *)
(* connection is in the middle of a line, and the buffer that all of them  *)
(* share holds its r characters.                                           *)
(***************************************************************************)
EXTENDS Async, SequenceTheorems, FiniteSetTheorems, NaturalsInduction,
        WellFoundedInduction, TLAPS

L == LineLength

Chars == {CR, LF} \cup [k : {"w", "x"}, fd : Fds, l : Nat]
Bufs == [data : Seq(Chars), l : Nat, again : BOOLEAN]

(* The line w of connection c, and what is left of it after r characters.  *)
WLine(c, w) == WithEnd(Text("w", c, w))
Suffix(c, w, r) == [i \in 1..(L - r) |-> WLine(c, w)[r + i]]

WriteType ==
    /\ wire \in [Fds -> Seq(Chars)] /\ olist \in [Fds -> Seq(Bufs)]
    /\ called \in [Fds -> Seq(Nat)] /\ asked \in [Fds -> Nat]
    /\ otail \in [Fds -> {"null", "last"}]
    /\ \A c \in Fds : otail[c] = "null" <=> olist[c] = <<>>

(* Of w characters and q obufs: d lines are out and r characters more.     *)
Order(c, w, q, n, d, r) ==
    /\ Len(w) = L * d + r
    /\ r # 0 => d < n
    /\ Len(q) = n - d
    /\ \A p \in 1..Len(w) : w[p] = Char(c, p)
    /\ \A b \in 1..Len(q) : /\ q[b].l = d + b
                            /\ q[b].data = Suffix(c, d + b, IF b = 1 THEN r ELSE 0)

Progress(c, w, q, n, cl) ==
    \E d \in Nat, r \in 0..(L - 1) : Order(c, w, q, n, d, r) /\ cl = [x \in 1..d |-> x]

WriteInv ==
    WriteType /\ \A c \in Fds : Progress(c, wire[c], olist[c], asked[c], called[c])

-----------------------------------------------------------------------------
(* Lines and their characters.                                             *)

(* A line has at least three characters.                                   *)
LEMMA LengthFact == L \in Nat /\ L > 2 /\ L = Length + 2
BY LengthAssumption DEF L, LineLength

(* Quotient and remainder by the length of a line are unique.              *)
LEMMA DivMod ==
    ASSUME NEW d \in Nat, NEW r \in 0..(L - 1)
    PROVE  (L * d + r) \div L = d /\ (L * d + r) % L = r
<1>0. L \in Nat /\ L > 2
  BY LengthFact
<1>1. PICK x : x = L * d + r
  OBVIOUS
<1>2. x \in Nat
  BY <1>0, <1>1
<1>3. PICK q, s : q = x \div L /\ s = x % L
  OBVIOUS
<1>4. q \in Int /\ s \in 0..(L - 1) /\ x = L * q + s
  BY <1>0, <1>2, <1>3
<1>5. ~(q < d)
  <2> SUFFICES ASSUME q < d PROVE FALSE
    OBVIOUS
  <2>1. PICK e \in Nat : d = q + 1 + e
    BY <1>4
  <2>2. L * d = L * q + L + L * e /\ L * e >= 0
    BY <1>0, <1>4, <2>1
  <2> QED BY <1>0, <1>1, <1>4, <2>2
<1>6. ~(q > d)
  <2> SUFFICES ASSUME q > d PROVE FALSE
    OBVIOUS
  <2>1. PICK e \in Nat : q = d + 1 + e
    BY <1>4
  <2>2. L * q = L * d + L + L * e /\ L * e >= 0
    BY <1>0, <1>4, <2>1
  <2> QED BY <1>0, <1>1, <1>4, <2>2
<1>7. q = d /\ s = r
  BY <1>0, <1>1, <1>4, <1>5, <1>6
<1> QED BY <1>1, <1>3, <1>7

(* A line is a sequence of L characters.                                   *)
LEMMA LineTyped ==
    ASSUME NEW c \in Fds, NEW w \in Nat
    PROVE  WLine(c, w) \in Seq(Chars) /\ Len(WLine(c, w)) = L
<1>1. PICK t : t = Text("w", c, w)
  OBVIOUS
<1>2. Length \in Nat
  BY LengthAssumption
<1>3. t = [p \in 1..Length |-> [k |-> IF p = 1 THEN "w" ELSE "x", fd |-> c, l |-> w]]
  BY <1>1 DEF Text
<1>4. \A p \in 1..Length : [k |-> IF p = 1 THEN "w" ELSE "x", fd |-> c, l |-> w] \in Chars
  BY DEF Chars
<1>5. t \in Seq(Chars) /\ Len(t) = Length
  BY <1>2, <1>3, <1>4
<1>6. <<CR, LF>> \in Seq(Chars) /\ Len(<<CR, LF>>) = 2
  BY DEF Chars
<1> QED BY <1>1, <1>2, <1>5, <1>6, LengthFact DEF WLine, WithEnd

(* So is what is left of it; the whole line is left at first.              *)
LEMMA SuffixTyped ==
    ASSUME NEW c \in Fds, NEW w \in Nat, NEW r \in 0..(L - 1)
    PROVE  /\ Suffix(c, w, r) \in Seq(Chars) /\ Len(Suffix(c, w, r)) = L - r
           /\ Suffix(c, w, 0) = WLine(c, w)
<1>1. PICK t : t = WLine(c, w)
  OBVIOUS
<1>2. t \in Seq(Chars) /\ Len(t) = L
  BY <1>1, LineTyped
<1>3. L \in Nat /\ L - r \in Nat
  BY LengthFact
<1>4. \A i \in 1..(L - r) : t[r + i] \in Chars
  BY <1>2, <1>3
<1>5. Suffix(c, w, r) = [i \in 1..(L - r) |-> t[r + i]]
  BY <1>1 DEF Suffix
<1>6. Suffix(c, w, r) \in Seq(Chars) /\ Len(Suffix(c, w, r)) = L - r
  BY <1>3, <1>4, <1>5
<1>7. Suffix(c, w, 0) = [i \in 1..L |-> t[i]]
  BY <1>1, <1>3 DEF Suffix
<1>8. t = [i \in 1..L |-> t[i]]
  BY <1>2
<1> QED BY <1>1, <1>6, <1>7, <1>8

(* The characters of line d + 1 are those from L * d on.                   *)
LEMMA CharOf ==
    ASSUME NEW c, NEW d \in Nat, NEW r \in 0..(L - 1), NEW i \in 1..(L - r)
    PROVE  Char(c, L * d + r + i) = WLine(c, d + 1)[r + i]
<1>0. L \in Nat /\ L > 2
  BY LengthFact
<1>1. PICK s : s = r + i - 1
  OBVIOUS
<1>2. s \in 0..(L - 1)
  BY <1>0, <1>1
<1>3. PICK p : p = L * d + r + i
  OBVIOUS
<1>4. p - 1 = L * d + s
  BY <1>0, <1>1, <1>3
<1>5. (p - 1) \div L = d /\ (p - 1) % L = s
  BY <1>2, <1>4, DivMod
<1>6. 1 + d = d + 1 /\ 1 + s = r + i
  BY <1>0, <1>1
<1> QED BY <1>3, <1>5, <1>6 DEF Char, WLine, L

-----------------------------------------------------------------------------
(* What the operations do to the order.                                    *)

(* rptp_async_write appends the next line.                                 *)
LEMMA Appended ==
    ASSUME NEW c \in Fds, NEW w \in Seq(Chars), NEW q \in Seq(Bufs), NEW n \in Nat,
           NEW d \in Nat, NEW r \in 0..(L - 1), Order(c, w, q, n, d, r),
           NEW x \in Bufs, x.l = n + 1, x.data = WLine(c, n + 1)
    PROVE  Order(c, w, Append(q, x), n + 1, d, r)
<1>0. L \in Nat /\ L > 2
  BY LengthFact
<1>1. /\ Len(w) = L * d + r /\ (r # 0 => d < n) /\ Len(q) = n - d /\ Len(q) \in Nat
      /\ \A p \in 1..Len(w) : w[p] = Char(c, p)
  BY DEF Order
<1>2. \A b \in 1..Len(q) : q[b].l = d + b /\ q[b].data = Suffix(c, d + b, IF b = 1 THEN r ELSE 0)
  BY DEF Order
<1>3. PICK a : a = Append(q, x)
  OBVIOUS
<1>4. /\ Len(a) = Len(q) + 1 /\ a[Len(q) + 1] = x
      /\ \A b \in 1..Len(q) : a[b] = q[b]
  BY <1>3
<1>5. PICK m : m = Len(q) + 1
  OBVIOUS
<1>6. d + m = n + 1 /\ (m = 1 => r = 0)
  BY <1>0, <1>1, <1>5
<1>7. x.data = Suffix(c, n + 1, IF m = 1 THEN r ELSE 0)
  <2>1. n + 1 \in Nat /\ 0 \in 0..(L - 1)
    BY <1>0
  <2>2. x.data = Suffix(c, n + 1, 0)
    BY <2>1, SuffixTyped
  <2> QED BY <1>6, <2>2
<1>8. \A b \in 1..Len(a) : a[b].l = d + b /\ a[b].data = Suffix(c, d + b, IF b = 1 THEN r ELSE 0)
  <2> SUFFICES ASSUME NEW b \in 1..Len(a)
               PROVE  a[b].l = d + b /\ a[b].data = Suffix(c, d + b, IF b = 1 THEN r ELSE 0)
    OBVIOUS
  <2>1. CASE b = m
    BY <1>4, <1>5, <1>6, <1>7, <2>1
  <2>2. CASE b # m
    <3>1. b \in 1..Len(q)
      BY <1>1, <1>4, <1>5, <2>2
    <3> QED BY <1>2, <1>4, <3>1
  <2> QED BY <2>1, <2>2
<1>9. (r # 0 => d < n + 1) /\ Len(a) = n + 1 - d
  BY <1>1, <1>4
<1> QED BY <1>1, <1>3, <1>8, <1>9, SMTT(30) DEF Order

(* k characters of the first obuf are written.                             *)
LEMMA CharsOut ==
    ASSUME NEW c \in Fds, NEW w \in Seq(Chars), NEW q \in Seq(Bufs), NEW n \in Nat,
           NEW d \in Nat, NEW r \in 0..(L - 1), Order(c, w, q, n, d, r),
           q # <<>>, NEW k \in 1..Len(q[1].data)
    PROVE  LET v == w \o SubSeq(q[1].data, 1, k) IN
           /\ q[1].data = Suffix(c, d + 1, r) /\ Len(q[1].data) = L - r
           /\ v \in Seq(Chars) /\ Len(v) = L * d + r + k
           /\ \A p \in 1..Len(v) : v[p] = Char(c, p)
<1>0. L \in Nat /\ L > 2 /\ L * d \in Nat
  BY LengthFact
<1>1. /\ Len(w) = L * d + r /\ Len(q) \in Nat /\ 1 \in 1..Len(q)
      /\ \A p \in 1..Len(w) : w[p] = Char(c, p)
  BY DEF Order
<1>2. PICK s : s = q[1].data
  OBVIOUS
<1>3. s = Suffix(c, d + 1, r)
  BY <1>1, <1>2 DEF Order
<1>4. s \in Seq(Chars) /\ Len(s) = L - r
  BY <1>3, SuffixTyped
<1>5. k \in 1..(L - r)
  BY <1>2, <1>4
<1>6. PICK u : u = SubSeq(s, 1, k)
  OBVIOUS
<1>7. u \in Seq(Chars) /\ Len(u) = k /\ \A i \in 1..k : u[i] = s[i]
  <2>1. k \in Int /\ 1 <= k /\ k - 1 + 1 = k /\ 1..k \subseteq 1..Len(s)
    BY <1>0, <1>4, <1>5
  <2>2. \A i \in 1..k : s[i] \in Chars /\ 1 + i - 1 = i
    BY <1>4, <2>1
  <2> QED BY <1>6, <2>1, <2>2, SubSeqProperties
<1>8. PICK v : v = w \o u
  OBVIOUS
<1>9. /\ v \in Seq(Chars) /\ Len(v) = L * d + r + k
      /\ \A p \in 1..Len(w) : v[p] = w[p]
      /\ \A i \in 1..k : v[Len(w) + i] = u[i]
  <2>1. v \in Seq(Chars) /\ Len(v) = Len(w) + Len(u)
    BY <1>7, <1>8, ConcatProperties
  <2>2. \A p \in 1..Len(w) : v[p] = w[p]
    BY <1>7, <1>8
  <2>3. \A i \in 1..k : v[Len(w) + i] = u[i]
    BY <1>7, <1>8
  <2> QED BY <1>0, <1>1, <1>5, <1>7, <2>1, <2>2, <2>3
<1>10. \A i \in 1..k : v[Len(w) + i] = Char(c, L * d + r + i)
  <2> SUFFICES ASSUME NEW i \in 1..k PROVE v[Len(w) + i] = Char(c, L * d + r + i)
    OBVIOUS
  <2>1. i \in 1..(L - r)
    BY <1>0, <1>5
  <2>2. s[i] = WLine(c, d + 1)[r + i]
    BY <1>3, <2>1 DEF Suffix
  <2> QED BY <1>7, <1>9, <2>1, <2>2, CharOf
<1>11. \A p \in 1..Len(v) : v[p] = Char(c, p)
  <2> SUFFICES ASSUME NEW p \in 1..Len(v) PROVE v[p] = Char(c, p)
    OBVIOUS
  <2>1. CASE p \in 1..Len(w)
    BY <1>1, <1>9, <2>1
  <2>2. CASE p \notin 1..Len(w)
    <3>1. PICK i \in 1..k : p = L * d + r + i
      BY <1>0, <1>1, <1>5, <1>9, <2>2
    <3> QED BY <1>1, <1>10, <3>1
  <2> QED BY <2>1, <2>2
<1> QED BY <1>2, <1>3, <1>4, <1>6, <1>8, <1>9, <1>11

(* A line is out: its obuf goes.                                           *)
LEMMA LineOut ==
    ASSUME NEW c \in Fds, NEW w \in Seq(Chars), NEW q \in Seq(Bufs), NEW n \in Nat,
           NEW d \in Nat, NEW r \in 0..(L - 1), Order(c, w, q, n, d, r),
           q # <<>>, NEW k \in 1..Len(q[1].data), k = Len(q[1].data)
    PROVE  Order(c, w \o SubSeq(q[1].data, 1, k), Tail(q), n, d + 1, 0)
<1>0. L \in Nat /\ L > 2 /\ L * d \in Nat
  BY LengthFact
<1>1. PICK v : v = w \o SubSeq(q[1].data, 1, k)
  OBVIOUS
<1>2. /\ k = L - r /\ v \in Seq(Chars) /\ Len(v) = L * d + r + k
      /\ \A p \in 1..Len(v) : v[p] = Char(c, p)
  <2>1. LET u == w \o SubSeq(q[1].data, 1, k) IN
        /\ q[1].data = Suffix(c, d + 1, r) /\ Len(q[1].data) = L - r
        /\ u \in Seq(Chars) /\ Len(u) = L * d + r + k
        /\ \A p \in 1..Len(u) : u[p] = Char(c, p)
    BY CharsOut, ZenonT(60)
  <2> QED BY <1>1, <2>1
<1>3. Len(v) = L * (d + 1) + 0
  BY <1>0, <1>2
<1>4. PICK t : t = Tail(q)
  OBVIOUS
<1>5. /\ Len(q) \in Nat /\ Len(q) > 0 /\ Len(q) = n - d
      /\ Len(t) = Len(q) - 1 /\ \A b \in 1..Len(t) : t[b] = q[b + 1]
  BY <1>4 DEF Order
<1>6. \A b \in 1..Len(t) : t[b].l = d + 1 + b
                           /\ t[b].data = Suffix(c, d + 1 + b, IF b = 1 THEN 0 ELSE 0)
  <2> SUFFICES ASSUME NEW b \in 1..Len(t)
               PROVE  t[b].l = d + 1 + b /\ t[b].data = Suffix(c, d + 1 + b, 0)
    OBVIOUS
  <2>1. b + 1 \in 1..Len(q) /\ b + 1 # 1 /\ d + (b + 1) = d + 1 + b
    BY <1>5
  <2> QED BY <1>5, <2>1 DEF Order
<1>7. Len(t) = n - (d + 1)
  BY <1>5
<1> QED BY <1>1, <1>2, <1>3, <1>4, <1>6, <1>7 DEF Order

(* Part of a line is out: its obuf keeps the rest.                         *)
LEMMA PartOut ==
    ASSUME NEW c \in Fds, NEW w \in Seq(Chars), NEW q \in Seq(Bufs), NEW n \in Nat,
           NEW d \in Nat, NEW r \in 0..(L - 1), Order(c, w, q, n, d, r),
           q # <<>>, NEW k \in 1..Len(q[1].data), k # Len(q[1].data)
    PROVE  LET t == [q EXCEPT ![1].data = SubSeq(@, k + 1, Len(@))] IN
           /\ t \in Seq(Bufs) /\ r + k \in 0..(L - 1)
           /\ Order(c, w \o SubSeq(q[1].data, 1, k), t, n, d, r + k)
<1>0. L \in Nat /\ L > 2 /\ L * d \in Nat
  BY LengthFact
<1>1. PICK v : v = w \o SubSeq(q[1].data, 1, k)
  OBVIOUS
<1>2. /\ q[1].data = Suffix(c, d + 1, r) /\ Len(q[1].data) = L - r
      /\ v \in Seq(Chars) /\ Len(v) = L * d + r + k
      /\ \A p \in 1..Len(v) : v[p] = Char(c, p)
  BY <1>1, CharsOut
<1>3. k < L - r /\ k >= 1 /\ r + k \in 0..(L - 1)
  BY <1>0, <1>2
<1>4. /\ Len(q) \in Nat /\ Len(q) > 0 /\ Len(q) = n - d /\ 1 \in 1..Len(q) /\ q[1] \in Bufs
      /\ d < n
  BY DEF Order
<1>5. PICK s : s = SubSeq(q[1].data, k + 1, Len(q[1].data))
  OBVIOUS
<1>6. PICK f : f = q[1].data
  OBVIOUS
<1>7. f \in Seq(Chars) /\ Len(f) = L - r /\ \A i \in 1..(L - r) : f[i] = WLine(c, d + 1)[r + i]
  <2>1. f \in Seq(Chars) /\ Len(f) = L - r
    BY <1>2, <1>6, SuffixTyped
  <2> QED BY <1>2, <1>6, <2>1 DEF Suffix
<1>8. s \in Seq(Chars) /\ Len(s) = L - (r + k) /\ \A i \in 1..(L - (r + k)) : s[i] = f[k + i]
  <2>1. PICK j, m : j = k + 1 /\ m = L - r
    OBVIOUS
  <2>2. j \in 1..Len(f) /\ m = Len(f) /\ m \in Nat /\ j <= m /\ m - j + 1 = L - (r + k)
    BY <1>0, <1>3, <1>7, <2>1
  <2>3. s = SubSeq(f, j, m)
    BY <1>5, <1>6, <1>7, <2>1
  <2>4. s \in Seq(Chars) /\ Len(s) = m - j + 1 /\ \A i \in 1..(m - j + 1) : s[i] = f[j + i - 1]
    BY <1>7, <2>2, <2>3, SubSeqProperties, SMTT(30)
  <2>5. \A i \in 1..(L - (r + k)) : j + i - 1 = k + i
    BY <1>3, <2>1
  <2> QED BY <2>2, <2>4, <2>5
<1>9. s = Suffix(c, d + 1, r + k)
  <2>1. PICK g : g = Suffix(c, d + 1, r + k)
    OBVIOUS
  <2>2. g \in Seq(Chars) /\ Len(g) = L - (r + k)
    BY <1>3, <2>1, SuffixTyped
  <2>3. \A i \in 1..(L - (r + k)) : g[i] = WLine(c, d + 1)[r + k + i]
    BY <2>1 DEF Suffix
  <2>4. \A i \in 1..(L - (r + k)) : s[i] = g[i]
    <3> SUFFICES ASSUME NEW i \in 1..(L - (r + k)) PROVE s[i] = g[i]
      OBVIOUS
    <3>1. k + i \in 1..(L - r) /\ r + (k + i) = r + k + i
      BY <1>0, <1>3
    <3> QED BY <1>7, <1>8, <2>3, <3>1
  <2> QED BY <1>8, <2>1, <2>2, <2>4
<1>10. PICK t : t = [q EXCEPT ![1].data = SubSeq(@, k + 1, Len(@))]
  OBVIOUS
<1>11. PICK x : x = [q[1] EXCEPT !.data = s]
  OBVIOUS
<1>12. x \in Bufs /\ x.data = s /\ x.l = q[1].l
  BY <1>4, <1>8, <1>11 DEF Bufs
<1>13. t = [q EXCEPT ![1] = x]
  BY <1>5, <1>10, <1>11
<1>14. /\ t \in Seq(Bufs) /\ Len(t) = Len(q) /\ t[1] = x
       /\ \A b \in 1..Len(q) : b # 1 => t[b] = q[b]
  BY <1>4, <1>12, <1>13
<1>15. \A b \in 1..Len(t) : t[b].l = d + b
                            /\ t[b].data = Suffix(c, d + b, IF b = 1 THEN r + k ELSE 0)
  <2> SUFFICES ASSUME NEW b \in 1..Len(t)
               PROVE  t[b].l = d + b /\ t[b].data = Suffix(c, d + b, IF b = 1 THEN r + k ELSE 0)
    OBVIOUS
  <2>1. CASE b = 1
    BY <1>4, <1>9, <1>12, <1>14, <2>1 DEF Order
  <2>2. CASE b # 1
    BY <1>14, <2>2 DEF Order
  <2> QED BY <2>1, <2>2
<1>16. Len(v) = L * d + (r + k)
  BY <1>0, <1>2, <1>3
<1>17. Order(c, v, t, n, d, r + k)
  BY <1>2, <1>4, <1>14, <1>15, <1>16 DEF Order
<1> QED BY <1>1, <1>3, <1>10, <1>14, <1>17

-----------------------------------------------------------------------------
(* The steps.                                                              *)

(* A step changes one connection.                                          *)
LEMMA OneConnection ==
    ASSUME WriteInv, NEW c \in Fds, NEW w \in Seq(Chars), NEW q \in Seq(Bufs),
           NEW n \in Nat, NEW cl \in Seq(Nat), NEW t \in {"null", "last"},
           wire' = [wire EXCEPT ![c] = w], olist' = [olist EXCEPT ![c] = q],
           asked' = [asked EXCEPT ![c] = n], called' = [called EXCEPT ![c] = cl],
           otail' = [otail EXCEPT ![c] = t],
           t = "null" <=> q = <<>>, Progress(c, w, q, n, cl)
    PROVE  WriteInv'
<1>1. WriteType'
  <2>1. wire' \in [Fds -> Seq(Chars)] /\ olist' \in [Fds -> Seq(Bufs)]
    BY DEF WriteInv, WriteType
  <2>2. /\ called' \in [Fds -> Seq(Nat)] /\ asked' \in [Fds -> Nat]
        /\ otail' \in [Fds -> {"null", "last"}]
    BY DEF WriteInv, WriteType
  <2>3. \A e \in Fds : otail'[e] = "null" <=> olist'[e] = <<>>
    BY DEF WriteInv, WriteType
  <2> QED BY <2>1, <2>2, <2>3 DEF WriteType
<1>2. \A e \in Fds : Progress(e, wire'[e], olist'[e], asked'[e], called'[e])
  <2> SUFFICES ASSUME NEW e \in Fds
               PROVE  Progress(e, wire'[e], olist'[e], asked'[e], called'[e])
    OBVIOUS
  <2>1. CASE e = c
    BY <2>1 DEF WriteInv, WriteType
  <2>2. CASE e # c
    BY <2>2 DEF WriteInv, WriteType
  <2> QED BY <2>1, <2>2
<1> QED BY <1>1, <1>2 DEF WriteInv

(* The steps that write nothing.                                           *)
LEMMA OtherSteps ==
    ASSUME WriteInv, UNCHANGED <<wire, olist, asked, called, otail>>
    PROVE  WriteInv'
BY DEF WriteInv, WriteType

(* A new obuf holds the whole line.                                        *)
LEMMA BufTyped ==
    ASSUME NEW c \in Fds, NEW n \in Nat, NEW again \in BOOLEAN
    PROVE  /\ Buf(c, n, again) \in Bufs /\ Buf(c, n, again).l = n
           /\ Buf(c, n, again).data = WLine(c, n)
<1>1. PICK s : s = WLine(c, n)
  OBVIOUS
<1>2. s \in Seq(Chars)
  BY <1>1, LineTyped
<1>3. Buf(c, n, again) = [data |-> s, l |-> n, again |-> again]
  BY <1>1 DEF Buf, WLine
<1> QED BY <1>1, <1>2, <1>3 DEF Bufs

(* rptp_async_write: the line is queued at the end.                        *)
LEMMA Queues ==
    ASSUME WriteInv, NEW c \in Fds, NEW again \in BOOLEAN,
           asked' = [asked EXCEPT ![c] = @ + 1],
           olist' = [olist EXCEPT ![c] = Queued(@, otail[c], Buf(c, asked'[c], again))],
           otail' = [otail EXCEPT ![c] = IF @ = "freed" THEN @ ELSE "last"],
           UNCHANGED <<wire, called>>
    PROVE  WriteInv'
<1>1. PICK w, q, n, cl : w = wire[c] /\ q = olist[c] /\ n = asked[c] /\ cl = called[c]
  OBVIOUS
<1>2. w \in Seq(Chars) /\ q \in Seq(Bufs) /\ n \in Nat /\ cl \in Seq(Nat)
  BY <1>1 DEF WriteInv, WriteType
<1>3. PICK d \in Nat, r \in 0..(L - 1) : Order(c, w, q, n, d, r) /\ cl = [x \in 1..d |-> x]
  BY <1>1 DEF WriteInv, Progress
<1>4. PICK x : x = Buf(c, n + 1, again)
  OBVIOUS
<1>5. x \in Bufs /\ x.l = n + 1 /\ x.data = WLine(c, n + 1)
  <2>1. n + 1 \in Nat
    BY <1>2
  <2> QED BY <1>4, <2>1, BufTyped, Zenon
<1>6. asked'[c] = n + 1
  BY <1>1 DEF WriteInv, WriteType
<1>7. PICK a : a = Append(q, x)
  OBVIOUS
<1>8. Queued(q, otail[c], x) = a
  <2>1. CASE otail[c] = "null"
    <3>1. q = <<>>
      BY <1>1, <2>1 DEF WriteInv, WriteType
    <3> QED BY <1>7, <2>1, <3>1 DEF Queued
  <2>2. CASE otail[c] = "last"
    BY <1>7, <2>2 DEF Queued
  <2> QED BY <2>1, <2>2 DEF WriteInv, WriteType
<1>9. a \in Seq(Bufs) /\ a # <<>>
  BY <1>2, <1>5, <1>7
<1>10. Order(c, w, a, n + 1, d, r)
  BY <1>2, <1>3, <1>5, <1>7, Appended
<1>11. Progress(c, w, a, n + 1, cl)
  BY <1>3, <1>10 DEF Progress
<1>12. PICK m : m = n + 1
  OBVIOUS
<1>13. wire' = [wire EXCEPT ![c] = w] /\ called' = [called EXCEPT ![c] = cl]
  BY <1>1 DEF WriteInv, WriteType
<1>14. olist' = [olist EXCEPT ![c] = a] /\ asked' = [asked EXCEPT ![c] = m]
  BY <1>1, <1>4, <1>6, <1>8, <1>12
<1>15. otail' = [otail EXCEPT ![c] = "last"]
  BY DEF WriteInv, WriteType
<1>16. m \in Nat
  BY <1>2, <1>12
<1> QED BY <1>2, <1>9, <1>11, <1>12, <1>13, <1>14, <1>15, <1>16, OneConnection

(* write_proc: characters of the first obuf go out, the obuf with the last *)
(* of them, and its callback may queue one more line.                      *)
LEMMA Writing ==
    ASSUME WriteInv, NEW c \in Fds, NEW k, write_proc(c, k)
    PROVE  WriteInv'
<1>1. PICK w, q, n, cl : w = wire[c] /\ q = olist[c] /\ n = asked[c] /\ cl = called[c]
  OBVIOUS
<1>2. w \in Seq(Chars) /\ q \in Seq(Bufs) /\ n \in Nat /\ cl \in Seq(Nat)
  BY <1>1 DEF WriteInv, WriteType
<1>3. PICK d \in Nat, r \in 0..(L - 1) : Order(c, w, q, n, d, r) /\ cl = [x \in 1..d |-> x]
  BY <1>1 DEF WriteInv, Progress
<1>4. q # <<>> /\ Head(q) = q[1] /\ k \in 1..Len(q[1].data)
  BY <1>1, <1>2 DEF write_proc
<1>5. PICK over : over = (k = Len(q[1].data))
  OBVIOUS
<1>6. PICK v : v = w \o SubSeq(q[1].data, 1, k)
  OBVIOUS
<1>7. v \in Seq(Chars)
  BY <1>2, <1>3, <1>4, <1>6, CharsOut
<1>8. PICK rest : rest = IF over THEN Tail(q) ELSE [q EXCEPT ![1].data = SubSeq(@, k + 1, Len(@))]
  OBVIOUS
<1>9. PICK cm : cm = IF over THEN Append(cl, q[1].l) ELSE cl
  OBVIOUS
<1>10. rest \in Seq(Bufs) /\ cm \in Seq(Nat) /\ \E e \in Nat, s \in 0..(L - 1) :
          Order(c, v, rest, n, e, s) /\ cm = [x \in 1..e |-> x]
  <2>1. CASE over
    <3>1. Order(c, v, rest, n, d + 1, 0)
      BY <1>2, <1>3, <1>4, <1>5, <1>6, <1>8, <2>1, LineOut
    <3>2. rest \in Seq(Bufs)
      BY <1>2, <1>4, <1>8, <2>1
    <3>3. q[1].l = d + 1
      BY <1>2, <1>3, <1>4 DEF Order
    <3>4. cm = Append(cl, d + 1)
      BY <1>9, <2>1, <3>3
    <3>5. Len(cl) = d /\ \A x \in 1..d : cl[x] = x
      BY <1>2, <1>3
    <3>6. /\ cm \in Seq(Nat) /\ Len(cm) = d + 1
          /\ \A x \in 1..(d + 1) : cm[x] = x
      BY <1>2, <3>4, <3>5
    <3>7. cm = [x \in 1..(d + 1) |-> x]
      BY <3>6
    <3>8. d + 1 \in Nat /\ 0 \in 0..(L - 1)
      BY LengthFact
    <3> QED BY <3>1, <3>2, <3>6, <3>7, <3>8
  <2>2. CASE ~over
    <3>1. /\ rest \in Seq(Bufs) /\ r + k \in 0..(L - 1)
          /\ Order(c, v, rest, n, d, r + k)
      BY <1>2, <1>3, <1>4, <1>5, <1>6, <1>8, <2>2, PartOut
    <3> QED BY <1>2, <1>3, <1>9, <2>2, <3>1
  <2> QED BY <2>1, <2>2
<1>11. PICK e \in Nat, s \in 0..(L - 1) :
          Order(c, v, rest, n, e, s) /\ cm = [x \in 1..e |-> x]
  BY <1>10
<1>12. PICK calls : calls = (over /\ q[1].again /\ n < MaxWrites[c])
  OBVIOUS
<1>13. PICK m : m = IF calls THEN n + 1 ELSE n
  OBVIOUS
<1>14. PICK x : x = Buf(c, n + 1, FALSE)
  OBVIOUS
<1>15. PICK o : o = IF calls THEN Append(rest, x) ELSE rest
  OBVIOUS
<1>16. x \in Bufs /\ x.l = n + 1 /\ x.data = WLine(c, n + 1)
  <2>1. n + 1 \in Nat
    BY <1>2
  <2> QED BY <1>14, <2>1, BufTyped, Zenon
<1>17. m \in Nat /\ o \in Seq(Bufs) /\ Progress(c, v, o, m, cm)
  <2>1. CASE calls
    <3>1. Order(c, v, Append(rest, x), n + 1, e, s)
      BY <1>2, <1>7, <1>10, <1>11, <1>16, Appended
    <3> QED BY <1>2, <1>10, <1>11, <1>13, <1>15, <1>16, <2>1, <3>1 DEF Progress
  <2>2. CASE ~calls
    BY <1>2, <1>10, <1>11, <1>13, <1>15, <2>2 DEF Progress
  <2> QED BY <2>1, <2>2
<1>18. /\ wire' = [wire EXCEPT ![c] = v] /\ called' = [called EXCEPT ![c] = cm]
       /\ asked' = [asked EXCEPT ![c] = m]
  BY <1>1, <1>4, <1>5, <1>6, <1>9, <1>12, <1>13 DEF write_proc
<1>19. asked'[c] = m
  BY <1>18 DEF WriteInv, WriteType
<1>20. olist' = [olist EXCEPT ![c] = o]
  <2>1. CASE calls
    <3>1. over /\ k = Len(Head(q).data) /\ Head(q).again /\ n < MaxWrites[c]
      BY <1>4, <1>5, <1>12, <2>1
    <3>2. o = Append(Tail(q), Buf(c, asked'[c], FALSE))
      BY <1>8, <1>13, <1>14, <1>15, <1>19, <2>1, <3>1
    <3> QED BY <1>1, <3>1, <3>2 DEF write_proc
  <2>2. CASE ~calls
    <3>1. o = rest /\ (over <=> k = Len(Head(q).data))
      BY <1>4, <1>5, <1>15, <2>2
    <3>2. ~(k = Len(Head(q).data) /\ Head(q).again /\ n < MaxWrites[c])
      BY <1>4, <1>5, <1>12, <2>2
    <3>3. CASE over
      BY <1>1, <1>8, <3>1, <3>2, <3>3 DEF write_proc
    <3>4. CASE ~over
      BY <1>1, <1>8, <3>1, <3>2, <3>4 DEF write_proc
    <3> QED BY <3>3, <3>4
  <2> QED BY <2>1, <2>2
<1>21. olist'[c] = o /\ otail[c] = "last"
  BY <1>1, <1>4, <1>20 DEF WriteInv, WriteType
<1>22. PICK t : t = IF o = <<>> THEN "null" ELSE "last"
  OBVIOUS
<1>23. otail' = [otail EXCEPT ![c] = t]
  BY <1>21, <1>22 DEF write_proc
<1> QED BY <1>7, <1>10, <1>17, <1>18, <1>20, <1>22, <1>23, OneConnection

(* No step breaks the order.                                               *)
LEMMA NextWrites == WriteInv /\ [Next]_vars => WriteInv'
<1> SUFFICES ASSUME WriteInv, [Next]_vars PROVE WriteInv'
  OBVIOUS
<1>1. CASE \E c \in Fds : Writes(c)
  BY <1>1, Writing DEF Writes
<1>2. CASE \E c \in Fds, again \in BOOLEAN : rptp_async_putline(c, again)
  <2>1. PICK c \in Fds, again \in BOOLEAN : rptp_async_putline(c, again)
    BY <1>2
  <2> QED BY <2>1, Queues DEF rptp_async_putline
<1>3. CASE \E c \in Fds, m \in Masks : rptp_async_notify(c, m)
  <2>1. PICK c \in Fds, m \in Masks : rptp_async_notify(c, m)
    BY <1>3
  <2>2. FALSE \in BOOLEAN
    OBVIOUS
  <2> QED BY <2>1, <2>2, Queues DEF rptp_async_notify
<1>4. CASE \/ \E c \in Fds : Reads(c) \/ ServerSends(c) \/ ServerCloses(c)
           \/ rptp_stop_main_loop \/ UNCHANGED vars
  <2>1. UNCHANGED <<wire, olist, asked, called, otail>>
    BY <1>4 DEF Reads, read_proc, read_proc_Closed, ServerSends, ServerCloses,
                rptp_stop_main_loop, vars
  <2> QED BY <2>1, OtherSteps
<1> QED BY <1>1, <1>2, <1>3, <1>4 DEF Next

(* The invariant says what WrittenInOrder does.                            *)
LEMMA InvOrder == WriteInv => WrittenInOrder
<1> SUFFICES ASSUME WriteInv, NEW c \in Fds
             PROVE  /\ Len(wire[c]) <= LineLength * asked[c]
                    /\ \A p \in DOMAIN wire[c] : wire[c][p] = Char(c, p)
                    /\ Len(olist[c]) = asked[c] - LinesOut(c)
                    /\ \A b \in DOMAIN olist[c] : olist[c][b].data =
                          [i \in 1..(LineLength * (LinesOut(c) + b) - Before(c, b)) |->
                             Char(c, Before(c, b) + i)]
                    /\ called[c] = [w \in 1..LinesOut(c) |-> w]
  BY DEF WrittenInOrder
<1>0. L \in Nat /\ L > 2 /\ L = LineLength
  BY LengthFact DEF L
<1>1. PICK w, q, n, cl : w = wire[c] /\ q = olist[c] /\ n = asked[c] /\ cl = called[c]
  OBVIOUS
<1>2. w \in Seq(Chars) /\ q \in Seq(Bufs) /\ n \in Nat /\ cl \in Seq(Nat)
  BY <1>1 DEF WriteInv, WriteType
<1>3. PICK d \in Nat, r \in 0..(L - 1) : Order(c, w, q, n, d, r) /\ cl = [x \in 1..d |-> x]
  BY <1>1 DEF WriteInv, Progress
<1>4. /\ Len(w) = L * d + r /\ Len(q) = n - d /\ Len(q) \in Nat /\ (r # 0 => d < n)
      /\ \A p \in 1..Len(w) : w[p] = Char(c, p)
  BY <1>2, <1>3 DEF Order
<1>5. Len(w) \div L = d
  BY <1>4, DivMod
<1>6. Len(w) <= L * n
  <2>1. PICK e \in Nat : n = d + e /\ (r # 0 => e # 0)
    BY <1>2, <1>4
  <2>2. L * n = L * d + L * e
    BY <1>0, <2>1
  <2>3. r <= L * e
    <3>1. CASE r = 0
      BY <1>0, <2>1, <3>1
    <3>2. CASE r # 0
      <4>1. PICK f \in Nat : e = f + 1
        BY <2>1, <3>2
      <4>2. L * e = L * f + L /\ L * f >= 0
        BY <1>0, <4>1
      <4> QED BY <1>0, <4>2
    <3> QED BY <3>1, <3>2
  <2>4. L * d \in Nat /\ L * e \in Nat
    BY <1>0, <2>1
  <2> QED BY <1>4, <2>2, <2>3, <2>4
<1>7. LinesOut(c) = d /\ \A b : Before(c, b) = IF b = 1 THEN Len(w) ELSE L * (d + b - 1)
  BY <1>0, <1>1, <1>5 DEF LinesOut, Before
<1>8. ASSUME NEW b \in 1..Len(q)
      PROVE  q[b].data = [i \in 1..(L * (LinesOut(c) + b) - Before(c, b)) |->
                             Char(c, Before(c, b) + i)]
  <2>0. PICK f : f = Before(c, b)
    OBVIOUS
  <2>1. PICK e, s : e = d + b - 1 /\ s = IF b = 1 THEN r ELSE 0
    OBVIOUS
  <2>2. e \in Nat /\ s \in 0..(L - 1) /\ d + b = e + 1 /\ f = L * e + s
    <3>1. e \in Nat /\ s \in 0..(L - 1) /\ d + b = e + 1
      BY <1>0, <1>4, <2>1
    <3>2. b = 1 => e = d
      BY <2>1
    <3> QED BY <1>0, <1>4, <1>7, <2>0, <2>1, <3>1, <3>2
  <2>3. q[b].data = [i \in 1..(L - s) |-> WLine(c, e + 1)[s + i]]
    BY <1>3, <2>1, <2>2 DEF Order, Suffix
  <2>4. L * (d + b) = L * e + L
    BY <1>0, <2>2
  <2>5. L * (d + b) - f = L - s
    BY <1>0, <2>2, <2>4
  <2>6. \A i \in 1..(L - s) : Char(c, f + i) = WLine(c, e + 1)[s + i]
    BY <2>2, CharOf
  <2>7. q[b].data = [i \in 1..(L * (d + b) - f) |-> Char(c, f + i)]
    BY <2>3, <2>5, <2>6
  <2> QED BY <1>7, <2>0, <2>7
<1>9. DOMAIN w = 1..Len(w) /\ DOMAIN q = 1..Len(q)
  BY <1>2
<1>10. Len(q) = n - LinesOut(c) /\ cl = [x \in 1..LinesOut(c) |-> x]
  BY <1>3, <1>4, <1>7
<1> QED BY <1>0, <1>1, <1>4, <1>6, <1>8, <1>9, <1>10

(* Nothing is written at first.                                            *)
LEMMA InitWrite == Init => WriteInv
<1> SUFFICES ASSUME Init PROVE WriteInv
  OBVIOUS
<1>1. WriteType
  BY DEF Init, WriteType
<1>2. ASSUME NEW c \in Fds PROVE Progress(c, wire[c], olist[c], asked[c], called[c])
  <2>1. wire[c] = <<>> /\ olist[c] = <<>> /\ asked[c] = 0 /\ called[c] = <<>>
    BY DEF Init
  <2>2. 0 \in Nat /\ 0 \in 0..(L - 1) /\ L * 0 + 0 = 0
    BY LengthFact
  <2>3. <<>> = [x \in 1..0 |-> x]
    OBVIOUS
  <2>4. Order(c, wire[c], olist[c], asked[c], 0, 0)
    BY <2>1, <2>2 DEF Order
  <2> QED BY <2>1, <2>2, <2>3, <2>4 DEF Progress
<1> QED BY <1>1, <1>2 DEF WriteInv

(* What an application writes with rptp_async_putline, and what its        *)
(* callbacks write, arrives whole and in order; each callback is called    *)
(* once, when its line is out: for any lines, and any cuts of write.       *)
THEOREM WritesArrive == Spec => []WrittenInOrder
BY InitWrite, NextWrites, InvOrder, PTL DEF Spec

-----------------------------------------------------------------------------
(* Recursive functions on 0..N.                                            *)

(* A set of numbers has a least element.                                   *)
LEMMA LeastIn ==
    ASSUME NEW S, S \subseteq Nat, S # {}
    PROVE  \E t \in S : \A u \in S : t <= u
<1>1. PICK R : R = {p \in Nat \X Nat : p[1] < p[2]}
  OBVIOUS
<1>2. IsWellFoundedOn(R, Nat)
  BY <1>1, NatLessThanWellFounded DEF OpToRel
<1>3. PICK t \in S : \A u \in S : ~(<<u, t>> \in R)
  BY <1>2, WFMin, Zenon
<1>4. \A u \in S : u \in Nat /\ t \in Nat /\ ~(u < t)
  BY <1>1, <1>3
<1>5. \A u \in S : t <= u
  BY <1>4
<1> QED BY <1>5

(* What each step keeps holds at the end.                                  *)
LEMMA RecursionKeeps ==
    ASSUME NEW N \in Nat, NEW f, NEW S, f[0] \in S[0],
           \A j \in 1..N : f[j - 1] \in S[j - 1] => f[j] \in S[j]
    PROVE  \A j \in 0..N : f[j] \in S[j]
<1> DEFINE bad == {j \in 0..N : f[j] \notin S[j]}
<1>1. SUFFICES ASSUME bad # {} PROVE FALSE
  OBVIOUS
<1>2. PICK t \in bad : \A u \in bad : t <= u
  <2>1. bad \subseteq Nat
    OBVIOUS
  <2> HIDE DEF bad
  <2> QED BY <1>1, <2>1, LeastIn
<1>3. t \in 1..N /\ t - 1 \in 0..N /\ ~(t <= t - 1)
  BY <1>2
<1>4. t - 1 \notin bad
  BY <1>2, <1>3
<1> QED BY <1>2, <1>3, <1>4

(* A recursive function exists when its steps stay in a set.               *)
Runs(N, U, a, step) ==
    \E g \in [0..N -> U] : g[0] = a /\ \A j \in 1..N : g[j] = step[<<j, g[j - 1]>>]
LEMMA RecursionExists ==
    ASSUME NEW N \in Nat, NEW U, NEW a \in U, NEW step \in [(1..N) \X U -> U]
    PROVE  Runs(N, U, a, step)
<1> DEFINE To(k) == \E g \in [0..k -> U] :
                      g[0] = a /\ \A j \in 1..k : g[j] = step[<<j, g[j - 1]>>]
           bad == {k \in 0..N : ~To(k)}
<1>1. SUFFICES ASSUME bad # {} PROVE FALSE
  BY DEF Runs
<1>2. PICK t \in bad : \A u \in bad : t <= u
  <2>1. bad \subseteq Nat
    OBVIOUS
  <2> HIDE DEF bad
  <2> QED BY <1>1, <2>1, LeastIn
<1>3. To(0)
  <2>1. PICK g \in [0..0 -> U] : g[0] = a
    <3>1. [j \in 0..0 |-> a] \in [0..0 -> U] /\ [j \in 0..0 |-> a][0] = a
      OBVIOUS
    <3> QED BY <3>1
  <2>2. 1..0 = {}
    OBVIOUS
  <2> QED BY <2>1, <2>2
<1>4. t \in 1..N /\ t - 1 \in 0..N /\ ~(t <= t - 1)
  <2>1. t \in 0..N /\ ~To(t)
    BY <1>2
  <2>2. t # 0
    BY <1>3, <2>1
  <2> QED BY <2>1, <2>2
<1>5. To(t - 1)
  BY <1>2, <1>4
<1>6. PICK g \in [0..(t - 1) -> U] :
         g[0] = a /\ \A j \in 1..(t - 1) : g[j] = step[<<j, g[j - 1]>>]
  BY <1>5
<1>7. PICK f : f = [j \in 0..t |-> IF j = t THEN step[<<t, g[t - 1]>>] ELSE g[j]]
  OBVIOUS
<1>8. g[t - 1] \in U /\ step[<<t, g[t - 1]>>] \in U
  BY <1>4, <1>6
<1>9. f \in [0..t -> U] /\ f[0] = a
  BY <1>4, <1>6, <1>7, <1>8
<1>10. ASSUME NEW j \in 1..t PROVE f[j] = step[<<j, f[j - 1]>>]
  <2>1. j \in 0..t /\ j - 1 \in 0..t /\ j - 1 # t
    BY <1>4
  <2>2. f[j - 1] = g[j - 1]
    BY <1>7, <2>1
  <2>3. CASE j = t
    BY <1>7, <2>1, <2>2, <2>3
  <2>4. CASE j # t
    <3>1. j \in 1..(t - 1) /\ f[j] = g[j]
      BY <1>4, <1>7, <2>1, <2>4
    <3> QED BY <1>6, <2>2, <3>1
  <2> QED BY <2>3, <2>4
<1>11. To(t)
  BY <1>9, <1>10
<1> QED BY <1>2, <1>11

-----------------------------------------------------------------------------
(* Reading.  The l-th line of the server's, its first characters, and those*)
(* of the first n lines that a mask m asks for.                            *)
SLine(c, l) == WithEnd(Text(Says[c][l], c, l))
SChars == {CR, LF} \cup [k : Kinds \cup {"x"}, fd : Fds, l : Nat]
Part(c, l, r) == [i \in 1..r |-> SLine(c, l)[i]]
Marked(c, m, n) == {l \in 1..n : Says[c][l] \in m}

(* What the callback has got of d lines.                                   *)
Given(c, m, d, t) ==
    /\ Len(t) = Cardinality(Marked(c, m, d))
    /\ \A l \in Marked(c, m, d) : t[Cardinality(Marked(c, m, l))] = Text(Says[c][l], c, l)

(* Of n lines d have been read and r characters more; s is to be read.     *)
Coming(c, s, n, d, r) ==
    /\ n <= Len(Says[c]) /\ Len(s) + (L * d + r) = L * n
    /\ \A p \in 1..Len(s), l \in Nat, i \in 1..L :
          L * d + r + p = L * l + i => s[p] = SLine(c, l + 1)[i]

(* A connection has a callback, had one until its end, or never had one.   *)
Listened(c, rc, e, m, t, d, r) ==
    \/ rc /\ Given(c, m, d, t)
    \/ /\ ~rc /\ e /\ "close" \in m
       /\ \E u \in Seq(Seq(SChars)) : t = Append(u, <<>>) /\ Given(c, m, d, u)
    \/ ~rc /\ m = {} /\ t = <<>> /\ d = 0 /\ r = 0

Channels(ds, rs) ==
    \A c \in Fds :
        /\ Coming(c, stream[c], sent[c], ds[c], rs[c])
        /\ Listened(c, rcallback[c], eof[c], notify_mask[c], told[c], ds[c], rs[c])

(* The line buffer holds the beginning of a line of one connection at most.*)
Shared(ds, rs) ==
    /\ \A c \in Fds : rs[c] # 0 => line = Part(c, ds[c] + 1, rs[c])
    /\ line # <<>> => \E c \in Fds : rs[c] # 0

ReadType ==
    /\ stream \in [Fds -> Seq(SChars)] /\ sent \in [Fds -> Nat]
    /\ told \in [Fds -> Seq(Seq(SChars))] /\ line \in Seq(SChars)
    /\ rcallback \in [Fds -> BOOLEAN] /\ eof \in [Fds -> BOOLEAN]
    /\ notify_mask \in [Fds -> SUBSET (Kinds \cup {"close"})]
    /\ split \in BOOLEAN /\ mixed \in BOOLEAN

ReadInv ==
    /\ ReadType
    /\ ~mixed /\ ~split =>
          \E ds \in [Fds -> Nat], rs \in [Fds -> 0..Length] : Channels(ds, rs) /\ Shared(ds, rs)

(* Quotient and remainder again, of places in lines.                       *)
LEMMA OnePlace ==
    ASSUME NEW a \in Nat, NEW b \in Nat, NEW i \in 1..L, NEW j \in 1..L, L * a + i = L * b + j
    PROVE  a = b /\ i = j
<1>1. L \in Nat /\ L > 2
  BY LengthFact
<1>2. PICK x : x = L * a
  OBVIOUS
<1>3. PICK y : y = L * b
  OBVIOUS
<1>4. x \in Nat /\ y \in Nat
  BY <1>1, <1>2, <1>3
<1>5. i - 1 \in 0..(L - 1) /\ j - 1 \in 0..(L - 1)
  BY <1>1
<1>6. x + (i - 1) = y + (j - 1)
  BY <1>1, <1>2, <1>3, <1>4
<1>7. (x + (i - 1)) \div L = a /\ (x + (i - 1)) % L = i - 1
  BY <1>2, <1>5, DivMod
<1>8. (y + (j - 1)) \div L = b /\ (y + (j - 1)) % L = j - 1
  BY <1>3, <1>5, DivMod
<1>9. a = b /\ i - 1 = j - 1
  BY <1>6, <1>7, <1>8
<1> QED BY <1>9

LEMMA InLine ==
    ASSUME NEW d \in Nat, NEW n \in Nat, NEW i \in Nat \ {0}, L * d + i <= L * n
    PROVE  d < n
<1>1. L \in Nat /\ L > 2
  BY LengthFact
<1>2. SUFFICES ASSUME n <= d PROVE FALSE
  OBVIOUS
<1>3. PICK e \in Nat : d = n + e
  BY <1>2
<1>4. L * d = L * n + L * e /\ L * e \in Nat /\ L * n \in Nat
  BY <1>1, <1>3
<1> QED BY <1>4

(* The characters of a line: only its end is CR and LF.                    *)
LEMMA SLineIs ==
    ASSUME NEW c \in Fds, NEW l \in 1..Len(Says[c])
    PROVE  /\ SLine(c, l) \in Seq(SChars) /\ Len(SLine(c, l)) = L
           /\ SLine(c, l)[Length + 1] = CR /\ SLine(c, l)[Length + 2] = LF
           /\ \A i \in 1..Length : /\ SLine(c, l)[i] # CR /\ SLine(c, l)[i] # LF
                                   /\ SLine(c, l)[i].fd = c
           /\ Text(Says[c][l], c, l) = Part(c, l, Length)
           /\ Text(Says[c][l], c, l) \in Seq(SChars)
           /\ Kind(Text(Says[c][l], c, l)) = Says[c][l]
<1>1. PICK k \in Kinds : k = Says[c][l]
  BY SaysAssumption
<1>2. Length \in Nat \ {0} /\ L = Length + 2
  BY LengthAssumption, LengthFact
<1>3. PICK t : t = [p \in 1..Length |-> [k |-> IF p = 1 THEN k ELSE "x", fd |-> c, l |-> l]]
  OBVIOUS
<1>4. t = Text(Says[c][l], c, l)
  BY <1>1, <1>3 DEF Text
<1>5. \A p \in 1..Length :
         /\ t[p] = [k |-> IF p = 1 THEN k ELSE "x", fd |-> c, l |-> l]
         /\ t[p] \in [k : Kinds \cup {"x"}, fd : Fds, l : Nat]
  BY <1>1, <1>3
<1>6. t \in Seq(SChars) /\ Len(t) = Length
  BY <1>2, <1>3, <1>5 DEF SChars
<1>7. \A p \in 1..Length : t[p] # CR /\ t[p] # LF /\ t[p].fd = c
  <2>1. ASSUME NEW p \in 1..Length PROVE t[p] # CR /\ t[p] # LF /\ t[p].fd = c
    <3>1. t[p].fd = c /\ DOMAIN t[p] = {"k", "fd", "l"}
      <4>1. PICK x : x = IF p = 1 THEN k ELSE "x"
        OBVIOUS
      <4>2. t[p] = [k |-> x, fd |-> c, l |-> l]
        BY <1>5, <4>1
      <4> QED BY <4>2
    <3>2. DOMAIN CR = {"k"} /\ DOMAIN LF = {"k"}
      BY DEF CR, LF
    <3> QED BY <3>1, <3>2
  <2> QED BY <2>1
<1>8. PICK e : e = <<CR, LF>>
  OBVIOUS
<1>9. e \in Seq(SChars) /\ Len(e) = 2 /\ e[1] = CR /\ e[2] = LF
  BY <1>8 DEF SChars
<1>10. PICK s : s = t \o e
  OBVIOUS
<1>11. /\ s \in Seq(SChars) /\ Len(s) = Length + 2
       /\ \A i \in 1..(Length + 2) : s[i] = IF i <= Length THEN t[i] ELSE e[i - Length]
  <2>1. /\ s \in Seq(SChars) /\ Len(s) = Len(t) + Len(e)
        /\ \A i \in 1..(Len(t) + Len(e)) : s[i] = IF i <= Len(t) THEN t[i] ELSE e[i - Len(t)]
    BY <1>6, <1>9, <1>10, ConcatProperties
  <2> QED BY <1>6, <1>9, <2>1
<1>12. s = SLine(c, l)
  BY <1>4, <1>8, <1>10 DEF SLine, WithEnd
<1>13. s[Length + 1] = CR /\ s[Length + 2] = LF
  <2>1. s[Length + 1] = e[Length + 1 - Length] /\ s[Length + 2] = e[Length + 2 - Length]
    BY <1>2, <1>11
  <2>2. Length + 1 - Length = 1 /\ Length + 2 - Length = 2
    BY <1>2
  <2> QED BY <1>9, <2>1, <2>2
<1>14. \A i \in 1..Length : s[i] = t[i]
  BY <1>2, <1>11
<1>15. t = Part(c, l, Length)
  BY <1>3, <1>12, <1>14 DEF Part
<1>16. Kind(t) = k
  <2>1. t # <<>> /\ t[1].k = k
    BY <1>2, <1>5, <1>6
  <2> QED BY <1>1, <2>1 DEF Kind
<1> QED BY <1>1, <1>2, <1>4, <1>6, <1>7, <1>11, <1>12, <1>13, <1>14, <1>15, <1>16

(* One character more of a line.                                           *)
LEMMA PartGrows ==
    ASSUME NEW c \in Fds, NEW l \in 1..Len(Says[c]), NEW r \in 0..Length
    PROVE  /\ Part(c, l, r) \in Seq(SChars) /\ Len(Part(c, l, r)) = r
           /\ Part(c, l, 0) = <<>>
           /\ r < Length => Append(Part(c, l, r), SLine(c, l)[r + 1]) = Part(c, l, r + 1)
<1>1. PICK s : s = SLine(c, l)
  OBVIOUS
<1>2. s \in Seq(SChars) /\ Len(s) = L /\ Length \in Nat /\ L = Length + 2
  BY <1>1, SLineIs, LengthAssumption, LengthFact
<1>3. \A x \in 0..Length : /\ Part(c, l, x) = [i \in 1..x |-> s[i]]
                           /\ Part(c, l, x) \in Seq(SChars) /\ Len(Part(c, l, x)) = x
  <2>1. ASSUME NEW x \in 0..Length
        PROVE  /\ Part(c, l, x) = [i \in 1..x |-> s[i]]
               /\ Part(c, l, x) \in Seq(SChars) /\ Len(Part(c, l, x)) = x
    <3>1. PICK p : p = [i \in 1..x |-> s[i]]
      OBVIOUS
    <3>2. \A i \in 1..x : s[i] \in SChars
      BY <1>2
    <3>3. p \in Seq(SChars) /\ Len(p) = x
      BY <3>1, <3>2
    <3> QED BY <1>1, <3>1, <3>3 DEF Part
  <2> QED BY <2>1
<1>4. Part(c, l, 0) = <<>>
  BY <1>2, <1>3, EmptySeq
<1>5. ASSUME r < Length PROVE Append(Part(c, l, r), s[r + 1]) = Part(c, l, r + 1)
  <2>1. PICK p : p = Part(c, l, r)
    OBVIOUS
  <2>2. PICK q : q = Part(c, l, r + 1)
    OBVIOUS
  <2>3. /\ p \in Seq(SChars) /\ Len(p) = r /\ p = [i \in 1..r |-> s[i]]
        /\ q \in Seq(SChars) /\ Len(q) = r + 1 /\ q = [i \in 1..(r + 1) |-> s[i]]
    BY <1>2, <1>3, <1>5, <2>1, <2>2
  <2>4. s[r + 1] \in SChars
    BY <1>2
  <2>5. PICK a : a = Append(p, s[r + 1])
    OBVIOUS
  <2>6. /\ a \in Seq(SChars) /\ Len(a) = r + 1 /\ a[r + 1] = s[r + 1]
        /\ \A i \in 1..r : a[i] = p[i]
    BY <2>3, <2>4, <2>5, AppendProperties
  <2>7. \A i \in 1..(r + 1) : a[i] = q[i]
    BY <2>3, <2>6
  <2>8. a = q
    BY <2>3, <2>6, <2>7, SeqEqual
  <2> QED BY <2>1, <2>2, <2>5, <2>8
<1> QED BY <1>1, <1>3, <1>4, <1>5

LEMMA PartNone == \A c, l : Part(c, l, 0) = <<>>
<1> SUFFICES ASSUME NEW c, NEW l PROVE Part(c, l, 0) = <<>>
  OBVIOUS
<1>1. PICK p : p = Part(c, l, 0)
  OBVIOUS
<1>2. p = [i \in 1..0 |-> SLine(c, l)[i]]
  BY <1>1 DEF Part
<1>3. p \in Seq({}) /\ Len(p) = 0
  BY <1>2
<1> QED BY <1>1, <1>3, EmptySeq

(* One line more has been read.                                            *)
LEMMA GivenNext ==
    ASSUME NEW c \in Fds, NEW m, NEW d \in Nat, NEW t \in Seq(Seq(SChars)), Given(c, m, d, t),
           NEW l \in 1..Len(Says[c]), l = d + 1
    PROVE  /\ Says[c][l] \notin m => Given(c, m, l, t)
           /\ Says[c][l] \in m => Given(c, m, l, Append(t, Text(Says[c][l], c, l)))
<1>1. \A n \in Nat : IsFiniteSet(Marked(c, m, n)) /\ Cardinality(Marked(c, m, n)) \in Nat
  <2>1. ASSUME NEW n \in Nat
        PROVE  IsFiniteSet(Marked(c, m, n)) /\ Cardinality(Marked(c, m, n)) \in Nat
    <3>1. IsFiniteSet(1..n)
      BY FS_Interval
    <3>2. Marked(c, m, n) \subseteq 1..n
      BY DEF Marked
    <3>3. IsFiniteSet(Marked(c, m, n))
      BY <3>1, <3>2, FS_Subset
    <3> QED BY <3>3, FS_CardinalityType
  <2> QED BY <2>1
<1>2. PICK D : D = Marked(c, m, d)
  OBVIOUS
<1>3. IsFiniteSet(D) /\ Cardinality(D) = Len(t) /\ Len(t) \in Nat
  BY <1>1, <1>2 DEF Given
<1>4. \A p \in D : p \in Nat /\ p \in 1..d
  BY <1>2 DEF Marked
<1>5. \A p \in D : Cardinality(Marked(c, m, p)) \in 1..Len(t)
  <2>1. ASSUME NEW p \in D PROVE Cardinality(Marked(c, m, p)) \in 1..Len(t)
    <3>1. PICK P : P = Marked(c, m, p)
      OBVIOUS
    <3>2. P \subseteq D /\ p \in P
      BY <1>2, <1>4, <3>1 DEF Marked
    <3>3. IsFiniteSet(P) /\ Cardinality(P) \in Nat
      BY <1>1, <1>4, <3>1
    <3>4. Cardinality(P) <= Cardinality(D)
      BY <1>3, <3>2, FS_Subset
    <3>5. Cardinality(P) # 0
      BY <3>2, <3>3, FS_EmptySet
    <3> QED BY <1>3, <3>1, <3>3, <3>4, <3>5
  <2> QED BY <2>1
<1>6. CASE Says[c][l] \notin m
  <2>1. Marked(c, m, l) = D
    BY <1>2, <1>6 DEF Marked
  <2> QED BY <1>2, <1>6, <2>1 DEF Given
<1>7. CASE Says[c][l] \in m
  <2>1. Marked(c, m, l) = D \cup {l} /\ l \notin D
    BY <1>2, <1>7 DEF Marked
  <2>2. Cardinality(Marked(c, m, l)) = Len(t) + 1
    BY <1>3, <2>1, FS_AddElement
  <2>3. PICK s \in Seq(SChars) : s = Text(Says[c][l], c, l)
    BY SLineIs
  <2>4. PICK a : a = Append(t, s)
    OBVIOUS
  <2>5. Len(a) = Len(t) + 1 /\ a[Len(t) + 1] = s /\ \A i \in 1..Len(t) : a[i] = t[i]
    BY <2>4, AppendProperties
  <2>6. ASSUME NEW p \in D
        PROVE  a[Cardinality(Marked(c, m, p))] = Text(Says[c][p], c, p)
    <3>1. t[Cardinality(Marked(c, m, p))] = Text(Says[c][p], c, p)
      BY <1>2 DEF Given
    <3> QED BY <1>5, <2>5, <3>1
  <2>7. a[Cardinality(Marked(c, m, l))] = Text(Says[c][l], c, l)
    BY <2>2, <2>3, <2>5
  <2>8. Given(c, m, l, a)
    BY <2>1, <2>2, <2>5, <2>6, <2>7 DEF Given
  <2> QED BY <1>7, <2>3, <2>4, <2>8
<1> QED BY <1>6, <1>7

-----------------------------------------------------------------------------
(* process_input.                                                          *)
Inputs == [line : Seq(SChars), told : Seq(Seq(SChars)), pass : BOOLEAN]

(* In the e+1-st line, x characters have been read; the CR is one of them. *)
At(c, m, u, e, x) ==
    \/ ~u.pass /\ x \in 0..Length /\ u.line = Part(c, e + 1, x) /\ Given(c, m, e, u.told)
    \/ u.pass /\ x = Length + 1 /\ u.line = <<>> /\ Given(c, m, e + 1, u.told)

LEMMA TookTyped ==
    ASSUME NEW c \in Fds, NEW u \in Inputs, NEW ch \in SChars
    PROVE  Took(c, u, ch) \in Inputs
<1>1. u.line \in Seq(SChars) /\ u.told \in Seq(Seq(SChars)) /\ u.pass \in BOOLEAN
  BY DEF Inputs
<1>2. PICK s : s = notify_line(c, u.line)
  OBVIOUS
<1>3. s \in Seq(Seq(SChars))
  BY <1>1, <1>2 DEF notify_line
<1>4. PICK t : t = u.told \o s
  OBVIOUS
<1>5. t \in Seq(Seq(SChars))
  BY <1>1, <1>3, <1>4, ConcatProperties
<1>6. Ended(c, u) \in Inputs
  BY <1>2, <1>4, <1>5 DEF Ended, Inputs
<1>7. PICK a : a = Append(u.line, ch)
  OBVIOUS
<1>8. a \in Seq(SChars)
  BY <1>1, <1>7, AppendProperties
<1>9. [u EXCEPT !.line = a] \in Inputs /\ [u EXCEPT !.pass = FALSE] \in Inputs
  BY <1>8 DEF Inputs
<1> QED BY <1>6, <1>7, <1>9 DEF Took

LEMMA TookMoves ==
    ASSUME NEW c \in Fds, rcallback[c], NEW m, m = notify_mask[c], NEW u \in Inputs,
           NEW e \in Nat, NEW l \in 1..Len(Says[c]), l = e + 1,
           NEW x \in 0..(Length + 1), At(c, m, u, e, x),
           NEW ch, ch = SLine(c, l)[x + 1], NEW v, v = Took(c, u, ch)
    PROVE  IF x = Length + 1 THEN At(c, m, v, e + 1, 0) ELSE At(c, m, v, e, x + 1)
<1>1. Length \in Nat \ {0}
  BY LengthAssumption
<1>2. CASE u.pass
  <2>1. x = Length + 1 /\ u.line = <<>> /\ Given(c, m, e + 1, u.told)
    BY <1>2 DEF At
  <2>2. v = [u EXCEPT !.pass = FALSE]
    BY <1>2 DEF Took
  <2>3. v.pass = FALSE /\ v.line = <<>> /\ v.told = u.told
    BY <2>1, <2>2 DEF Inputs
  <2>4. Part(c, e + 1 + 1, 0) = <<>>
    BY PartNone
  <2>5. At(c, m, v, e + 1, 0)
    BY <1>1, <2>1, <2>3, <2>4 DEF At
  <2> QED BY <2>1, <2>5
<1>3. CASE ~u.pass /\ x = Length
  <2>1. u.line = Part(c, l, Length) /\ Given(c, m, e, u.told)
    BY <1>3 DEF At
  <2>2. PICK s \in Seq(SChars) : s = Text(Says[c][l], c, l)
    BY SLineIs
  <2>3. u.line = s /\ Kind(s) = Says[c][l] /\ ch = CR
    BY <1>3, <2>1, <2>2, SLineIs
  <2>4. v = Ended(c, u)
    BY <1>3, <2>3 DEF Took
  <2>5. PICK t : t = u.told \o notify_line(c, s)
    OBVIOUS
  <2>6. v.pass = TRUE /\ v.line = <<>> /\ v.told = t
    BY <2>3, <2>4, <2>5 DEF Ended
  <2>7. Given(c, m, l, t)
    <3>1. u.told \in Seq(Seq(SChars))
      BY DEF Inputs
    <3>2. CASE Says[c][l] \in m
      <4>1. notify_line(c, s) = <<s>>
        BY <2>3, <3>2 DEF notify_line
      <4>2. t = Append(u.told, s)
        BY <2>5, <3>1, <4>1, AppendIsConcat
      <4> QED BY <2>1, <2>2, <3>1, <3>2, <4>2, GivenNext
    <3>3. CASE Says[c][l] \notin m
      <4>1. notify_line(c, s) = <<>>
        BY <2>3, <3>3 DEF notify_line
      <4>2. t = u.told
        BY <2>5, <3>1, <4>1, ConcatEmptySeq
      <4> QED BY <2>1, <3>1, <3>3, <4>2, GivenNext
    <3> QED BY <3>2, <3>3
  <2>8. At(c, m, v, e, Length + 1)
    BY <2>6, <2>7 DEF At
  <2> QED BY <1>1, <1>3, <2>8
<1>4. CASE ~u.pass /\ x # Length
  <2>1. x \in 0..(Length - 1) /\ u.line = Part(c, l, x) /\ Given(c, m, e, u.told)
    BY <1>1, <1>4 DEF At
  <2>2. x + 1 \in 1..Length /\ x \in 0..Length /\ x < Length
    BY <1>1, <2>1
  <2>3. ch # CR
    BY <2>2, SLineIs
  <2>4. PICK a : a = Append(u.line, ch)
    OBVIOUS
  <2>5. v = [u EXCEPT !.line = a]
    BY <1>4, <2>3, <2>4 DEF Took
  <2>6. v.pass = u.pass /\ v.line = a /\ v.told = u.told
    BY <2>5 DEF Inputs
  <2>7. a = Part(c, l, x + 1)
    BY <2>1, <2>2, <2>4, PartGrows
  <2>8. At(c, m, v, e, x + 1)
    BY <1>1, <1>4, <2>1, <2>2, <2>6, <2>7 DEF At
  <2> QED BY <1>1, <2>2, <2>8
<1> QED BY <1>2, <1>3, <1>4

(* What has been read is taken character by character.                     *)
LEMMA Processed ==
    ASSUME ReadType, NEW c \in Fds, NEW k \in 1..Len(stream[c]),
           NEW r, r = process_input(c, SubSeq(stream[c], 1, k))
    PROVE  /\ r \in Inputs
           /\ \A d \in Nat, q \in 0..Length :
                 /\ Coming(c, stream[c], sent[c], d, q) /\ line = Part(c, d + 1, q)
                 /\ rcallback[c] /\ Given(c, notify_mask[c], d, told[c])
                 => \E e \in Nat, x \in 0..(Length + 1) :
                       L * d + q + k = L * e + x /\ At(c, notify_mask[c], r, e, x)
<1>1. PICK s \in Seq(SChars) : s = stream[c]
  BY DEF ReadType
<1>2. PICK N \in Nat : N = k /\ N \in 1..Len(s)
  BY <1>1
<1>3. PICK read : read = SubSeq(s, 1, k)
  OBVIOUS
<1>4. read \in Seq(SChars) /\ Len(read) = N /\ \A j \in 1..N : read[j] = s[j]
  <2>1. /\ read \in Seq(SChars) /\ Len(read) = k - 1 + 1
        /\ \A j \in 1..(k - 1 + 1) : read[j] = s[1 + j - 1]
    BY <1>1, <1>2, <1>3, SubSeqProperties
  <2>2. k - 1 + 1 = N /\ \A j \in 1..N : 1 + j - 1 = j
    BY <1>2
  <2> QED BY <2>1, <2>2
<1>5. PICK a : a = Start(c)
  OBVIOUS
<1>6. a \in Inputs /\ a.line = line /\ a.told = told[c] /\ a.pass = FALSE
  BY <1>5 DEF Start, Inputs, ReadType
<1>7. PICK step : step = [p \in (1..N) \X Inputs |-> Took(c, p[2], read[p[1]])]
  OBVIOUS
<1>8. step \in [(1..N) \X Inputs -> Inputs]
  <2>1. ASSUME NEW p \in (1..N) \X Inputs PROVE Took(c, p[2], read[p[1]]) \in Inputs
    <3>1. p[2] \in Inputs /\ read[p[1]] \in SChars
      BY <1>4
    <3> QED BY <3>1, TookTyped
  <2> QED BY <1>7, <2>1
<1>9. PICK g \in [0..N -> Inputs] :
         g[0] = a /\ \A j \in 1..N : g[j] = step[<<j, g[j - 1]>>]
  <2>1. Runs(N, Inputs, a, step)
    BY <1>6, <1>8, RecursionExists
  <2> QED BY <2>1 DEF Runs
<1>10. \A j \in 1..N : g[j - 1] \in Inputs /\ g[j] = Took(c, g[j - 1], read[j])
  <2> SUFFICES ASSUME NEW j \in 1..N
               PROVE  g[j - 1] \in Inputs /\ g[j] = Took(c, g[j - 1], read[j])
    OBVIOUS
  <2>1. g[j - 1] \in Inputs
    BY <1>9
  <2>2. step[<<j, g[j - 1]>>] = Took(c, g[j - 1], read[j])
    BY <1>7, <2>1
  <2> QED BY <1>9, <2>1, <2>2
<1> DEFINE Steps(f) == f = [j \in 0..N |-> IF j = 0 THEN a ELSE Took(c, f[j - 1], read[j])]
           input == CHOOSE f : Steps(f)
<1>11. Steps(g)
  <2>1. \A j \in 0..N : g[j] = IF j = 0 THEN a ELSE Took(c, g[j - 1], read[j])
    BY <1>9, <1>10
  <2> QED BY <1>9, <2>1
<1>12. Steps(input)
  <2>1. \E f : Steps(f)
    BY <1>11
  <2> HIDE DEF Steps
  <2> QED BY <2>1
<1>13. r = input[N]
  BY <1>1, <1>3, <1>4, <1>5 DEF process_input
<1>14. PICK f : f = input
  OBVIOUS
<1>15. f[0] = a /\ \A j \in 1..N : f[j] = Took(c, f[j - 1], read[j])
  <2>1. f = [j \in 0..N |-> IF j = 0 THEN a ELSE Took(c, f[j - 1], read[j])]
    BY <1>12, <1>14
  <2>2. \A j \in 0..N : f[j] = IF j = 0 THEN a ELSE Took(c, f[j - 1], read[j])
    BY <2>1
  <2> QED BY <2>2
<1> HIDE DEF input, Steps
<1>16. \A j \in 0..N : f[j] \in Inputs
  <2>1. PICK S : S = [j \in 0..N |-> Inputs]
    OBVIOUS
  <2>2. f[0] \in S[0]
    BY <1>6, <1>15, <2>1
  <2>3. ASSUME NEW j \in 1..N, f[j - 1] \in S[j - 1] PROVE f[j] \in S[j]
    <3>1. f[j - 1] \in Inputs /\ read[j] \in SChars
      BY <1>4, <2>1, <2>3
    <3>2. Took(c, f[j - 1], read[j]) \in Inputs
      BY <3>1, TookTyped
    <3> QED BY <1>15, <2>1, <3>2
  <2>4. \A j \in 0..N : f[j] \in S[j]
    BY <2>2, <2>3, RecursionKeeps
  <2> QED BY <2>1, <2>4
<1>17. ASSUME NEW d \in Nat, NEW q \in 0..Length,
              Coming(c, s, sent[c], d, q), line = Part(c, d + 1, q),
              rcallback[c], Given(c, notify_mask[c], d, told[c])
       PROVE  \E e \in Nat, x \in 0..(Length + 1) :
                 L * d + q + k = L * e + x /\ At(c, notify_mask[c], r, e, x)
  <2>1. PICK m : m = notify_mask[c]
    OBVIOUS
  <2>2. PICK o : o = L * d + q
    OBVIOUS
  <2>3. /\ Length \in Nat \ {0} /\ L = Length + 2 /\ L \in Nat /\ o \in Nat
        /\ Len(s) \in Nat
    BY <1>1, <2>2, LengthAssumption, LengthFact
  <2> DEFINE Ok(u, j) == \E e \in Nat, x \in 0..(Length + 1) :
                            o + j = L * e + x /\ At(c, m, u, e, x)
  <2>4. PICK S : S = [j \in 0..N |-> {u \in Inputs : Ok(u, j)}]
    OBVIOUS
  <2>5. f[0] \in S[0]
    <3>1. At(c, m, a, d, q)
      BY <1>6, <1>17, <2>1 DEF At
    <3>2. q \in 0..(Length + 1) /\ o + 0 = L * d + q
      BY <2>2, <2>3
    <3>3. Ok(a, 0)
      BY <3>1, <3>2
    <3> QED BY <1>6, <1>15, <2>4, <3>3
  <2>6. ASSUME NEW j \in 1..N, f[j - 1] \in S[j - 1] PROVE f[j] \in S[j]
    <3>1. j - 1 \in 0..N /\ j \in 0..N
      OBVIOUS
    <3>2. PICK u : u = f[j - 1]
      OBVIOUS
    <3>3. u \in Inputs /\ Ok(u, j - 1)
      BY <2>4, <2>6, <3>1, <3>2
    <3>4. PICK e \in Nat, x \in 0..(Length + 1) : o + (j - 1) = L * e + x /\ At(c, m, u, e, x)
      BY <3>3
    <3>5. PICK y : y = L * e
      OBVIOUS
    <3>6. y \in Nat /\ o + j = y + (x + 1) /\ x + 1 \in 1..L
      BY <2>3, <3>4, <3>5
    <3>7. PICK n \in Nat : n = sent[c]
      BY DEF ReadType
    <3>8. n <= Len(Says[c]) /\ Len(s) + o = L * n /\ Len(Says[c]) \in Nat
      BY <1>17, <2>2, <3>7, SaysAssumption, LenProperties DEF Coming
    <3>9. e < n
      <4>1. y + (x + 1) <= L * n
        BY <1>2, <2>3, <3>6, <3>8
      <4> QED BY <3>5, <4>1, InLine
    <3>10. PICK l \in 1..Len(Says[c]) : l = e + 1
      BY <3>7, <3>8, <3>9
    <3>11. read[j] = SLine(c, l)[x + 1]
      <4>1. j \in 1..Len(s) /\ L * d + q + j = L * e + (x + 1)
        BY <1>2, <2>2, <3>5, <3>6
      <4>2. s[j] = SLine(c, e + 1)[x + 1]
        BY <1>17, <3>6, <4>1 DEF Coming
      <4> QED BY <1>4, <3>10, <4>2
    <3>12. PICK v : v = Took(c, u, read[j])
      OBVIOUS
    <3>13. IF x = Length + 1 THEN At(c, m, v, e + 1, 0) ELSE At(c, m, v, e, x + 1)
      BY <1>17, <2>1, <3>3, <3>4, <3>10, <3>11, <3>12, TookMoves
    <3>14. Ok(v, j)
      <4>1. CASE x = Length + 1
        <5>1. o + j = L * (e + 1) + 0 /\ e + 1 \in Nat /\ 0 \in 0..(Length + 1)
          BY <2>3, <3>5, <3>6, <4>1
        <5> QED BY <3>13, <4>1, <5>1
      <4>2. CASE x # Length + 1
        <5>1. o + j = L * e + (x + 1) /\ x + 1 \in 0..(Length + 1)
          BY <2>3, <3>5, <3>6, <4>2
        <5> QED BY <3>13, <4>2, <5>1
      <4> QED BY <4>1, <4>2
    <3>15. f[j] = v /\ f[j] \in Inputs
      BY <1>15, <1>16, <3>1, <3>2, <3>12
    <3> QED BY <2>4, <3>1, <3>14, <3>15
  <2>7. f[N] \in S[N]
    <3>1. \A j \in 0..N : f[j] \in S[j]
      BY <2>5, <2>6, RecursionKeeps
    <3> QED BY <3>1
  <2>8. Ok(f[N], N)
    BY <2>4, <2>7
  <2> QED BY <1>2, <1>13, <1>14, <2>1, <2>2, <2>8
<1>18. r \in Inputs
  BY <1>13, <1>14, <1>16
<1> QED BY <1>1, <1>17, <1>18

-----------------------------------------------------------------------------
(* The actions.                                                            *)

(* A line that has been begun is one of those the server says.             *)
LEMMA BegunIs ==
    ASSUME NEW c \in Fds, NEW s \in Seq(SChars), NEW n \in Nat, NEW d \in Nat, NEW r \in 0..Length,
           Coming(c, s, n, d, r), r # 0
    PROVE  d + 1 \in 1..Len(Says[c])
<1>1. L \in Nat /\ L > 2 /\ Len(s) \in Nat /\ Len(Says[c]) \in Nat
  BY LengthFact, SaysAssumption, LenProperties
<1>2. PICK y : y = L * d
  OBVIOUS
<1>3. PICK z : z = L * n
  OBVIOUS
<1>4. y \in Nat /\ z \in Nat /\ r \in Nat \ {0} /\ Len(s) + (y + r) = z /\ n <= Len(Says[c])
  BY <1>1, <1>2, <1>3, LengthAssumption DEF Coming
<1>5. y + r <= z
  BY <1>1, <1>4
<1>6. d < n
  BY <1>2, <1>3, <1>4, <1>5, InLine
<1> QED BY <1>1, <1>4, <1>6

(* Who reads while the buffer is his alone, has begun what is in it.       *)
LEMMA OwnLine ==
    ASSUME ReadType, NEW c \in Fds, \A p \in DOMAIN line : line[p] = LF \/ line[p].fd = c,
           NEW ds \in [Fds -> Nat], NEW rs \in [Fds -> 0..Length],
           Channels(ds, rs), Shared(ds, rs)
    PROVE  line = Part(c, ds[c] + 1, rs[c]) /\ \A x \in Fds \ {c} : rs[x] = 0
<1>1. ASSUME NEW x \in Fds \ {c}, rs[x] # 0 PROVE FALSE
  <2>1. line = Part(x, ds[x] + 1, rs[x])
    BY <1>1 DEF Shared
  <2>2. PICK s \in Seq(SChars) : s = stream[x]
    BY DEF ReadType
  <2>3. sent[x] \in Nat /\ ds[x] \in Nat /\ rs[x] \in 0..Length
    BY DEF ReadType
  <2>4. Coming(x, s, sent[x], ds[x], rs[x])
    BY <2>2 DEF Channels
  <2>5. PICK l \in 1..Len(Says[x]) : l = ds[x] + 1
    BY <1>1, <2>3, <2>4, BegunIs
  <2>6. 1 \in 1..rs[x] /\ 1 \in 1..Length
    BY <1>1, <2>3, LengthAssumption
  <2>7. line = [i \in 1..rs[x] |-> SLine(x, l)[i]]
    BY <2>1, <2>5 DEF Part
  <2>8. 1 \in DOMAIN line /\ line[1] = SLine(x, l)[1]
    BY <2>6, <2>7
  <2>9. SLine(x, l)[1] # LF /\ SLine(x, l)[1].fd = x
    BY <2>6, SLineIs
  <2> QED BY <2>8, <2>9
<1>2. CASE rs[c] # 0
  BY <1>1, <1>2 DEF Shared
<1>3. CASE rs[c] = 0
  <2>1. \A x \in Fds : rs[x] = 0
    BY <1>1, <1>3
  <2>2. line = <<>>
    BY <2>1 DEF Shared
  <2> QED BY <1>3, <2>1, <2>2, PartNone
<1> QED BY <1>1, <1>2, <1>3

(* k characters less are to be read.                                       *)
LEMMA ComingLess ==
    ASSUME NEW c \in Fds, NEW s \in Seq(SChars), NEW n \in Nat, NEW d \in Nat, NEW q \in 0..Length,
           Coming(c, s, n, d, q), NEW k \in 1..Len(s), NEW e \in Nat, NEW x \in 0..Length,
           L * d + q + k = L * e + x, NEW t, t = SubSeq(s, k + 1, Len(s))
    PROVE  t \in Seq(SChars) /\ Coming(c, t, n, e, x)
<1>1. Len(s) \in Nat /\ L \in Nat /\ Length \in Nat
  BY LengthFact, LengthAssumption, LenProperties
<1>2. PICK o : o = L * d + q
  OBVIOUS
<1>3. PICK b : b = L * e + x
  OBVIOUS
<1>4. PICK z : z = L * n
  OBVIOUS
<1>5. o \in Nat /\ b \in Nat /\ z \in Nat /\ o + k = b /\ Len(s) + o = z
  <2>1. \A y \in Nat : L * y \in Nat
    BY <1>1
  <2>2. o \in Nat /\ b \in Nat /\ z \in Nat
    <3>1. L * d \in Nat /\ L * e \in Nat /\ L * n \in Nat
      BY <2>1
    <3>2. q \in Nat /\ x \in Nat
      BY <1>1
    <3>3. \A u, w \in Nat : u + w \in Nat
      OBVIOUS
    <3>4. o \in Nat
      BY <1>2, <3>1, <3>2, <3>3, Zenon
    <3>5. b \in Nat
      BY <1>3, <3>1, <3>2, <3>3, Zenon
    <3> QED BY <1>4, <3>1, <3>4, <3>5, Zenon
  <2>3. o + k = b
    BY <1>2, <1>3
  <2>4. Len(s) + o = z
    BY <1>2, <1>4 DEF Coming
  <2> QED BY <2>2, <2>3, <2>4
<1>6. /\ t \in Seq(SChars) /\ Len(t) = Len(s) - (k + 1) + 1
      /\ \A p \in 1..(Len(s) - (k + 1) + 1) : t[p] = s[k + 1 + p - 1]
  BY <1>1, SubSeqProperties
<1>7. Len(t) = Len(s) - k /\ \A p \in 1..(Len(s) - k) : t[p] = s[k + p]
  <2>1. Len(s) - (k + 1) + 1 = Len(s) - k /\ \A p \in 1..(Len(s) - k) : k + 1 + p - 1 = k + p
    BY <1>1
  <2> QED BY <1>6, <2>1
<1>8. Len(t) + b = z
  <2>1. k \in Nat /\ Len(t) = Len(s) - k
    BY <1>1, <1>7
  <2> QED BY <1>1, <1>5, <2>1
<1>9. ASSUME NEW p \in 1..Len(t), NEW l \in Nat, NEW i \in 1..L, b + p = L * l + i
      PROVE  t[p] = SLine(c, l + 1)[i]
  <2>1. PICK j \in 1..Len(s) : j = k + p
    BY <1>1, <1>7
  <2>2. o + j = L * l + i
    <3>1. p \in Nat /\ o + j = o + (k + p) /\ o + (k + p) = o + k + p
      BY <1>5, <2>1
    <3> QED BY <1>5, <1>9, <3>1
  <2>3. s[j] = SLine(c, l + 1)[i]
    BY <1>2, <1>9, <2>2 DEF Coming
  <2>4. p \in 1..(Len(s) - k)
    BY <1>1, <1>7
  <2> QED BY <1>7, <2>1, <2>3, <2>4
<1>10. n <= Len(Says[c])
  BY DEF Coming
<1>11. Len(t) + (L * e + x) = L * n
  BY <1>3, <1>4, <1>8
<1>12. \A p \in 1..Len(t), l \in Nat, i \in 1..L :
          L * e + x + p = L * l + i => t[p] = SLine(c, l + 1)[i]
  BY <1>3, <1>9
<1> QED BY <1>6, <1>10, <1>11, <1>12 DEF Coming

(* What one connection does leaves the others as they are.                 *)
LEMMA OneReader ==
    ASSUME ReadType, NEW c \in Fds, NEW ds \in [Fds -> Nat], NEW rs \in [Fds -> 0..Length],
           Channels(ds, rs), NEW e \in Nat, NEW x \in 0..Length,
           \A y \in Fds \ {c} :
              /\ stream'[y] = stream[y] /\ sent'[y] = sent[y] /\ rcallback'[y] = rcallback[y]
              /\ eof'[y] = eof[y] /\ notify_mask'[y] = notify_mask[y] /\ told'[y] = told[y],
           Coming(c, stream'[c], sent'[c], e, x),
           Listened(c, rcallback'[c], eof'[c], notify_mask'[c], told'[c], e, x)
    PROVE  Channels([ds EXCEPT ![c] = e], [rs EXCEPT ![c] = x])'
<1>1. PICK es \in [Fds -> Nat] : es = [ds EXCEPT ![c] = e]
  OBVIOUS
<1>2. PICK xs \in [Fds -> 0..Length] : xs = [rs EXCEPT ![c] = x]
  OBVIOUS
<1>3. /\ es[c] = e /\ xs[c] = x
      /\ \A y \in Fds \ {c} : es[y] = ds[y] /\ xs[y] = rs[y]
  BY <1>1, <1>2
<1>4. ASSUME NEW y \in Fds
      PROVE  /\ Coming(y, stream'[y], sent'[y], es[y], xs[y])
             /\ Listened(y, rcallback'[y], eof'[y], notify_mask'[y], told'[y], es[y], xs[y])
  <2>1. CASE y = c
    BY <1>3, <2>1
  <2>2. CASE y # c
    BY <1>3, <2>2 DEF Channels
  <2> QED BY <2>1, <2>2
<1> QED BY <1>1, <1>2, <1>4 DEF Channels

(* read_proc gets some characters.                                         *)
LEMMA ReadProcKept ==
    ASSUME ReadInv, NEW c \in Fds, NEW k \in 1..Len(stream[c]), read_proc(c, k)
    PROVE  ReadInv'
<1>1. ReadType
  BY DEF ReadInv
<1>2. PICK s \in Seq(SChars) : s = stream[c]
  BY <1>1 DEF ReadType
<1>3. PICK r : r = process_input(c, SubSeq(stream[c], 1, k))
  OBVIOUS
<1>4. r \in Inputs
  BY <1>1, <1>3, Processed
<1>5. PICK t : t = SubSeq(s, k + 1, Len(s))
  OBVIOUS
<1>6. /\ rcallback[c] /\ line' = r.line /\ told' = [told EXCEPT ![c] = r.told]
      /\ split' = (split \/ s[k] = CR)
      /\ mixed' = (mixed \/ \E p \in DOMAIN line : line[p] # LF /\ line[p].fd # c)
      /\ stream' = [stream EXCEPT ![c] = t]
      /\ sent' = sent /\ rcallback' = rcallback /\ eof' = eof /\ notify_mask' = notify_mask
  BY <1>2, <1>3, <1>5 DEF read_proc
<1>7. t \in Seq(SChars)
  <2>1. Len(s) \in Nat /\ k \in 1..Len(s)
    BY <1>2, LenProperties
  <2> QED BY <1>5, <2>1, SubSeqProperties
<1>8. ReadType'
  <2>1. stream' \in [Fds -> Seq(SChars)]
    BY <1>1, <1>6, <1>7 DEF ReadType
  <2>2. told' \in [Fds -> Seq(Seq(SChars))] /\ line' \in Seq(SChars)
    BY <1>1, <1>4, <1>6 DEF ReadType, Inputs
  <2>3. split' \in BOOLEAN /\ mixed' \in BOOLEAN
    BY <1>6, Zenon DEF ReadType
  <2> QED BY <1>1, <1>6, <2>1, <2>2, <2>3 DEF ReadType
<1>9. ASSUME ~mixed', ~split'
      PROVE  \E ds \in [Fds -> Nat], rs \in [Fds -> 0..Length] :
                Channels(ds, rs)' /\ Shared(ds, rs)'
  <2>1. /\ ~mixed /\ ~split /\ s[k] # CR
        /\ \A p \in DOMAIN line : line[p] = LF \/ line[p].fd = c
    BY <1>6, <1>9
  <2>2. PICK ds \in [Fds -> Nat], rs \in [Fds -> 0..Length] : Channels(ds, rs) /\ Shared(ds, rs)
    BY <2>1 DEF ReadInv
  <2>3. PICK n \in Nat, d \in Nat, q \in 0..Length : n = sent[c] /\ d = ds[c] /\ q = rs[c]
    BY <1>1 DEF ReadType
  <2>4. line = Part(c, d + 1, q) /\ \A x \in Fds \ {c} : rs[x] = 0
    BY <1>1, <2>1, <2>2, <2>3, OwnLine
  <2>5. Coming(c, s, n, d, q)
    BY <1>2, <2>2, <2>3 DEF Channels
  <2>6. Given(c, notify_mask[c], d, told[c])
    BY <1>6, <2>2, <2>3 DEF Channels, Listened
  <2>7. PICK e \in Nat, x \in 0..(Length + 1) :
           L * d + q + k = L * e + x /\ At(c, notify_mask[c], r, e, x)
    <3>1. \A b \in Nat, y \in 0..Length :
             /\ Coming(c, stream[c], sent[c], b, y) /\ line = Part(c, b + 1, y)
             /\ rcallback[c] /\ Given(c, notify_mask[c], b, told[c])
             => \E e \in Nat, x \in 0..(Length + 1) :
                   L * b + y + k = L * e + x /\ At(c, notify_mask[c], r, e, x)
      BY <1>1, <1>3, Processed
    <3> QED BY <1>2, <1>6, <2>3, <2>4, <2>5, <2>6, <3>1
  <2>19. L * d + q + k = L * e + x
    BY <2>7
  <2>20. At(c, notify_mask[c], r, e, x)
    BY <2>7
  <2>8. k \in 1..Len(s) /\ Length \in Nat \ {0} /\ L = Length + 2
    BY <1>2, LengthAssumption, LengthFact
  <2>9. ~r.pass
    <3> SUFFICES ASSUME r.pass PROVE FALSE
      OBVIOUS
    <3>1. x = Length + 1 /\ x \in 1..L
      <4>1. x = Length + 1
        BY <2>20 DEF At
      <4> QED BY <2>8, <4>1
    <3>2. s[k] = SLine(c, e + 1)[x]
      <4>1. \A p \in 1..Len(s), l \in Nat, i \in 1..L :
               L * d + q + p = L * l + i => s[p] = SLine(c, l + 1)[i]
        BY <2>5 DEF Coming
      <4>2. k \in 1..Len(s) /\ x \in 1..L
        BY <2>8, <3>1
      <4> QED BY <2>19, <4>1, <4>2
    <3>3. e + 1 \in 1..Len(Says[c])
      <4>1. PICK y : y = L * e
        OBVIOUS
      <4>2. y \in Nat
        BY <2>8, <4>1
      <4>3. L * d + q + k = y + x
        BY <2>19, <4>1
      <4>4. n <= Len(Says[c]) /\ Len(s) + (L * d + q) = L * n /\ Len(s) \in Nat
            /\ Len(Says[c]) \in Nat
        <5>1. n <= Len(Says[c]) /\ Len(s) + (L * d + q) = L * n
          BY <2>5 DEF Coming
        <5> QED BY <5>1, SaysAssumption, LenProperties
      <4>5. PICK o \in Nat : o = L * d + q
        <5>1. L * d \in Nat /\ q \in Nat
          BY <2>8
        <5> QED BY <5>1
      <4>6. y + x <= L * n
        <5>1. o + k = y + x /\ Len(s) + o = L * n
          BY <4>3, <4>4, <4>5
        <5>2. o + k <= Len(s) + o
          BY <2>8, <4>4, <4>5
        <5> QED BY <5>1, <5>2
      <4>7. e < n
        <5>1. L * e + x <= L * n /\ x \in Nat \ {0}
          BY <2>8, <3>1, <4>1, <4>6
        <5> QED BY <5>1, InLine
      <4> QED BY <4>4, <4>7
    <3> QED BY <2>1, <3>1, <3>2, <3>3, SLineIs
  <2>10. x \in 0..Length /\ r.line = Part(c, e + 1, x) /\ Given(c, notify_mask[c], e, r.told)
    BY <2>9, <2>20 DEF At
  <2>11. Coming(c, t, n, e, x)
    BY <1>5, <2>5, <2>8, <2>10, <2>19, ComingLess
  <2>12. stream'[c] = t /\ told'[c] = r.told
    BY <1>1, <1>6 DEF ReadType
  <2>13. Listened(c, rcallback'[c], eof'[c], notify_mask'[c], told'[c], e, x)
    BY <1>6, <2>10, <2>12 DEF Listened
  <2>14. Channels([ds EXCEPT ![c] = e], [rs EXCEPT ![c] = x])'
    <3>1. Coming(c, stream'[c], sent'[c], e, x)
      BY <1>6, <2>3, <2>11, <2>12
    <3>2. \A y \in Fds \ {c} :
             /\ stream'[y] = stream[y] /\ sent'[y] = sent[y] /\ rcallback'[y] = rcallback[y]
             /\ eof'[y] = eof[y] /\ notify_mask'[y] = notify_mask[y] /\ told'[y] = told[y]
      BY <1>1, <1>6 DEF ReadType
    <3> QED BY <1>1, <2>2, <2>10, <2>13, <3>1, <3>2, OneReader
  <2>15. PICK es \in [Fds -> Nat] : es = [ds EXCEPT ![c] = e]
    OBVIOUS
  <2>16. PICK xs \in [Fds -> 0..Length] : xs = [rs EXCEPT ![c] = x]
    BY <2>10
  <2>17. es[c] = e /\ xs[c] = x /\ \A y \in Fds \ {c} : xs[y] = 0
    BY <2>4, <2>15, <2>16
  <2>18. Shared(es, xs)'
    <3>1. \A y \in Fds : xs[y] # 0 => line' = Part(y, es[y] + 1, xs[y])
      BY <1>6, <2>10, <2>17
    <3>2. ASSUME line' # <<>> PROVE \E y \in Fds : xs[y] # 0
      <4>1. x # 0
        BY <1>6, <2>10, <3>2, PartNone
      <4> QED BY <2>17, <4>1
    <3> QED BY <3>1, <3>2 DEF Shared
  <2> QED BY <2>14, <2>15, <2>16, <2>18
<1> QED BY <1>8, <1>9 DEF ReadInv

(* What leaves the places in the lines as they are.                        *)
OthersStay(c) ==
    \A y \in Fds \ {c} :
        /\ stream'[y] = stream[y] /\ sent'[y] = sent[y] /\ rcallback'[y] = rcallback[y]
        /\ eof'[y] = eof[y] /\ notify_mask'[y] = notify_mask[y] /\ told'[y] = told[y]

PlacesStay(c) ==
    \A d \in Nat, r \in 0..Length :
        /\ Coming(c, stream[c], sent[c], d, r)
        /\ Listened(c, rcallback[c], eof[c], notify_mask[c], told[c], d, r)
        => /\ Coming(c, stream'[c], sent'[c], d, r)
           /\ Listened(c, rcallback'[c], eof'[c], notify_mask'[c], told'[c], d, r)

LEMMA PlaceKept ==
    ASSUME ReadInv, ReadType', NEW c \in Fds, OthersStay(c), PlacesStay(c),
           line' = line, mixed' = mixed, split' = split
    PROVE  ReadInv'
<1>1. ASSUME ~mixed', ~split'
      PROVE  \E ds \in [Fds -> Nat], rs \in [Fds -> 0..Length] :
                Channels(ds, rs)' /\ Shared(ds, rs)'
  <2>1. PICK ds \in [Fds -> Nat], rs \in [Fds -> 0..Length] : Channels(ds, rs) /\ Shared(ds, rs)
    BY <1>1 DEF ReadInv
  <2>2. ASSUME NEW y \in Fds
        PROVE  /\ Coming(y, stream'[y], sent'[y], ds[y], rs[y])
               /\ Listened(y, rcallback'[y], eof'[y], notify_mask'[y], told'[y], ds[y], rs[y])
    <3>1. /\ Coming(y, stream[y], sent[y], ds[y], rs[y])
          /\ Listened(y, rcallback[y], eof[y], notify_mask[y], told[y], ds[y], rs[y])
      BY <2>1 DEF Channels
    <3>2. CASE y = c
      <4>1. ds[c] \in Nat /\ rs[c] \in 0..Length
        BY <2>1
      <4> QED BY <3>1, <3>2, <4>1 DEF PlacesStay
    <3>3. CASE y # c
      BY <3>1, <3>3 DEF OthersStay
    <3> QED BY <3>2, <3>3
  <2>3. Channels(ds, rs)'
    BY <2>2 DEF Channels
  <2>4. Shared(ds, rs)'
    BY <2>1 DEF Shared
  <2> QED BY <2>3, <2>4
<1> QED BY <1>1 DEF ReadInv

(* The server's lines follow each other.                                   *)
LEMMA ServerSendsKept ==
    ASSUME ReadInv, NEW c \in Fds, ServerSends(c)
    PROVE  ReadInv'
<1>1. ReadType
  BY DEF ReadInv
<1>2. PICK s \in Seq(SChars), n \in Nat : s = stream[c] /\ n = sent[c]
  BY <1>1 DEF ReadType
<1>3. /\ sent' = [sent EXCEPT ![c] = @ + 1]
      /\ stream' = [stream EXCEPT ![c] = @ \o WithEnd(Text(Says[c][sent'[c]], c, sent'[c]))]
      /\ n < Len(Says[c])
      /\ rcallback' = rcallback /\ eof' = eof /\ notify_mask' = notify_mask /\ told' = told
      /\ line' = line /\ mixed' = mixed /\ split' = split
  BY <1>2 DEF ServerSends
<1>4. sent'[c] = n + 1 /\ sent' \in [Fds -> Nat] /\ \A y \in Fds \ {c} : sent'[y] = sent[y]
  BY <1>1, <1>2, <1>3 DEF ReadType
<1>5. Len(Says[c]) \in Nat
  BY SaysAssumption, LenProperties
<1>6. PICK m \in 1..Len(Says[c]) : m = n + 1
  BY <1>3, <1>5
<1>7. PICK w : w = SLine(c, m)
  OBVIOUS
<1>8. w \in Seq(SChars) /\ Len(w) = L
  BY <1>7, SLineIs
<1>9. PICK t : t = s \o w
  OBVIOUS
<1>10. /\ t \in Seq(SChars) /\ Len(t) = Len(s) + L
       /\ \A p \in 1..(Len(s) + L) : t[p] = IF p <= Len(s) THEN s[p] ELSE w[p - Len(s)]
  <2>1. /\ t \in Seq(SChars) /\ Len(t) = Len(s) + Len(w)
        /\ \A p \in 1..(Len(s) + Len(w)) : t[p] = IF p <= Len(s) THEN s[p] ELSE w[p - Len(s)]
    BY <1>8, <1>9, ConcatProperties
  <2> QED BY <1>8, <2>1
<1>11. stream' = [stream EXCEPT ![c] = t]
  BY <1>2, <1>3, <1>4, <1>6, <1>7, <1>9 DEF SLine
<1>12. /\ stream'[c] = t /\ stream' \in [Fds -> Seq(SChars)]
       /\ \A y \in Fds \ {c} : stream'[y] = stream[y]
  BY <1>1, <1>10, <1>11 DEF ReadType
<1>13. ReadType'
  BY <1>1, <1>3, <1>4, <1>12 DEF ReadType
<1>14. OthersStay(c)
  BY <1>3, <1>4, <1>12 DEF OthersStay
<1>15. ASSUME NEW d \in Nat, NEW r \in 0..Length, Coming(c, s, n, d, r)
       PROVE  Coming(c, t, n + 1, d, r)
  <2>1. L \in Nat /\ L > 2 /\ Len(s) \in Nat /\ Length \in Nat
    BY LengthFact, LengthAssumption, LenProperties
  <2>2. PICK o \in Nat : o = L * d + r
    <3>1. L * d \in Nat /\ r \in Nat
      BY <2>1
    <3> QED BY <3>1
  <2>3. PICK z \in Nat : z = L * n
    BY <2>1
  <2>4. Len(s) + o = z
    BY <1>15, <2>2, <2>3 DEF Coming
  <2>5. L * (n + 1) = z + L
    BY <2>1, <2>3
  <2>11. Len(t) = Len(s) + L
    BY <1>10
  <2>6. Len(t) + o = L * (n + 1)
    <3>1. Len(t) + o = z + L
      BY <2>1, <2>4, <2>11
    <3> QED BY <2>5, <3>1
  <2>7. ASSUME NEW p \in 1..Len(t), NEW l \in Nat, NEW i \in 1..L, o + p = L * l + i
        PROVE  t[p] = SLine(c, l + 1)[i]
    <3>1. CASE p <= Len(s)
      <4>1. p \in 1..Len(s) /\ t[p] = s[p]
        BY <1>10, <2>1, <3>1
      <4>2. \A a \in 1..Len(s), b \in Nat, j \in 1..L :
               L * d + r + a = L * b + j => s[a] = SLine(c, b + 1)[j]
        BY <1>15 DEF Coming
      <4>3. L * d + r + p = L * l + i
        BY <2>2, <2>7
      <4> QED BY <4>1, <4>2, <4>3
    <3>2. CASE ~(p <= Len(s))
      <4>1. PICK j \in 1..L : j = p - Len(s)
        <5>1. p \in Int /\ 1 <= p /\ p <= Len(s) + L
          BY <2>1, <2>11
        <5>2. p - Len(s) \in 1..L
          BY <2>1, <3>2, <5>1
        <5> QED BY <5>2
      <4>2. t[p] = w[j]
        <5>1. p \in 1..(Len(s) + L)
          BY <1>10
        <5> QED BY <1>10, <3>2, <4>1, <5>1
      <4>3. o + p = z + j
        BY <2>1, <2>4, <4>1
      <4>4. L * n + j = L * l + i
        BY <2>3, <2>7, <4>3
      <4>5. n = l /\ j = i
        BY <4>4, OnePlace
      <4> QED BY <1>6, <1>7, <4>2, <4>5
    <3> QED BY <3>1, <3>2
  <2>8. n + 1 <= Len(Says[c])
    BY <1>3, <1>5
  <2>9. \A p \in 1..Len(t), l \in Nat, i \in 1..L :
           L * d + r + p = L * l + i => t[p] = SLine(c, l + 1)[i]
    BY <2>2, <2>7
  <2>10. Len(t) + (L * d + r) = L * (n + 1)
    BY <2>2, <2>6
  <2> QED BY <2>8, <2>9, <2>10 DEF Coming
<1>16. PlacesStay(c)
  BY <1>2, <1>3, <1>4, <1>12, <1>15 DEF PlacesStay
<1> QED BY <1>3, <1>13, <1>14, <1>16, PlaceKept

(* A connection closes.                                                    *)
LEMMA ServerClosesKept ==
    ASSUME ReadInv, NEW c \in Fds, ServerCloses(c)
    PROVE  ReadInv'
<1>1. ReadType
  BY DEF ReadInv
<1>2. /\ eof' = [eof EXCEPT ![c] = TRUE]
      /\ stream' = stream /\ sent' = sent /\ rcallback' = rcallback
      /\ notify_mask' = notify_mask /\ told' = told
      /\ line' = line /\ mixed' = mixed /\ split' = split
  BY DEF ServerCloses
<1>3. /\ eof'[c] = TRUE /\ eof' \in [Fds -> BOOLEAN]
      /\ \A y \in Fds \ {c} : eof'[y] = eof[y]
  BY <1>1, <1>2 DEF ReadType
<1>4. ReadType' /\ OthersStay(c)
  BY <1>1, <1>2, <1>3 DEF ReadType, OthersStay
<1>5. PlacesStay(c)
  BY <1>2, <1>3 DEF PlacesStay, Listened
<1> QED BY <1>2, <1>4, <1>5, PlaceKept

(* The end is reported.                                                    *)
LEMMA ReadClosedKept ==
    ASSUME ReadInv, NEW c \in Fds, read_proc_Closed(c)
    PROVE  ReadInv'
<1>1. ReadType
  BY DEF ReadInv
<1>2. /\ rcallback[c] /\ eof[c] /\ "close" \in notify_mask[c]
      /\ rcallback' = [rcallback EXCEPT ![c] = FALSE]
      /\ told' = [told EXCEPT ![c] = Append(@, <<>>)]
      /\ stream' = stream /\ sent' = sent /\ eof' = eof /\ notify_mask' = notify_mask
      /\ line' = line /\ mixed' = mixed /\ split' = split
  BY DEF read_proc_Closed
<1>3. PICK t \in Seq(Seq(SChars)) : t = told[c]
  BY <1>1 DEF ReadType
<1>4. PICK none \in Seq(SChars) : none = <<>>
  <2>1. <<>> \in Seq(SChars)
    BY EmptySeq
  <2> QED BY <2>1
<1>5. PICK a : a = Append(t, none)
  OBVIOUS
<1>6. a \in Seq(Seq(SChars))
  BY <1>5, AppendProperties
<1>7. told' = [told EXCEPT ![c] = a]
  BY <1>2, <1>3, <1>4, <1>5
<1>8. /\ told'[c] = a /\ told' \in [Fds -> Seq(Seq(SChars))]
      /\ \A y \in Fds \ {c} : told'[y] = told[y]
  BY <1>1, <1>6, <1>7 DEF ReadType
<1>9. /\ rcallback'[c] = FALSE /\ rcallback' \in [Fds -> BOOLEAN]
      /\ \A y \in Fds \ {c} : rcallback'[y] = rcallback[y]
  BY <1>1, <1>2 DEF ReadType
<1>10. ReadType' /\ OthersStay(c)
  BY <1>1, <1>2, <1>8, <1>9 DEF ReadType, OthersStay
<1>11. ASSUME NEW d \in Nat, NEW r \in 0..Length,
              Listened(c, rcallback[c], eof[c], notify_mask[c], told[c], d, r)
       PROVE  Listened(c, rcallback'[c], eof'[c], notify_mask'[c], told'[c], d, r)
  <2>1. Given(c, notify_mask[c], d, t)
    BY <1>2, <1>3, <1>11 DEF Listened
  <2> QED BY <1>2, <1>4, <1>5, <1>8, <1>9, <2>1 DEF Listened
<1>12. PlacesStay(c)
  BY <1>2, <1>11 DEF PlacesStay
<1> QED BY <1>2, <1>10, <1>12, PlaceKept

(* A callback is registered before anything has been read.                 *)
LEMMA NotifyKept ==
    ASSUME ReadInv, NEW c \in Fds, NEW m \in Masks, rptp_async_notify(c, m)
    PROVE  ReadInv'
<1>1. ReadType
  BY DEF ReadInv
<1>2. /\ ~rcallback[c] /\ ~eof[c]
      /\ rcallback' = [rcallback EXCEPT ![c] = TRUE]
      /\ notify_mask' = [notify_mask EXCEPT ![c] = m]
      /\ stream' = stream /\ sent' = sent /\ eof' = eof /\ told' = told
      /\ line' = line /\ mixed' = mixed /\ split' = split
  BY DEF rptp_async_notify
<1>3. m \in SUBSET (Kinds \cup {"close"})
  BY LengthAssumption
<1>4. /\ notify_mask'[c] = m /\ notify_mask' \in [Fds -> SUBSET (Kinds \cup {"close"})]
      /\ \A y \in Fds \ {c} : notify_mask'[y] = notify_mask[y]
  BY <1>1, <1>2, <1>3 DEF ReadType
<1>5. /\ rcallback'[c] = TRUE /\ rcallback' \in [Fds -> BOOLEAN]
      /\ \A y \in Fds \ {c} : rcallback'[y] = rcallback[y]
  BY <1>1, <1>2 DEF ReadType
<1>6. ReadType' /\ OthersStay(c)
  BY <1>1, <1>2, <1>4, <1>5 DEF ReadType, OthersStay
<1>7. ASSUME NEW d \in Nat, NEW r \in 0..Length,
             Listened(c, rcallback[c], eof[c], notify_mask[c], told[c], d, r)
      PROVE  Listened(c, rcallback'[c], eof'[c], notify_mask'[c], told'[c], d, r)
  <2>1. told[c] = <<>> /\ d = 0
    BY <1>2, <1>7 DEF Listened
  <2>2. Marked(c, m, 0) = {}
    BY DEF Marked
  <2>3. Len(told[c]) = 0 /\ Cardinality(Marked(c, m, 0)) = 0
    BY <2>1, <2>2, FS_EmptySet
  <2>4. Given(c, m, d, told[c])
    BY <2>1, <2>2, <2>3 DEF Given
  <2> QED BY <1>2, <1>4, <1>5, <2>4 DEF Listened
<1>8. PlacesStay(c)
  BY <1>2, <1>7 DEF PlacesStay
<1> QED BY <1>2, <1>6, <1>8, PlaceKept

LEMMA NextReads == ReadInv /\ [Next]_vars => ReadInv'
<1> SUFFICES ASSUME ReadInv, [Next]_vars PROVE ReadInv'
  OBVIOUS
<1> DEFINE reading == <<stream, sent, told, line, rcallback, eof, notify_mask, split, mixed>>
<1>1. ASSUME UNCHANGED reading PROVE ReadInv'
  BY <1>1 DEF ReadInv, ReadType, Channels, Shared
<1>2. ASSUME NEW c \in Fds, NEW again \in BOOLEAN, rptp_async_putline(c, again) PROVE ReadInv'
  BY <1>1, <1>2 DEF rptp_async_putline
<1>3. ASSUME NEW c \in Fds, NEW k \in 1..(Length + 2), write_proc(c, k) PROVE ReadInv'
  BY <1>1, <1>3 DEF write_proc
<1>4. ASSUME rptp_stop_main_loop \/ UNCHANGED vars PROVE ReadInv'
  BY <1>1, <1>4 DEF rptp_stop_main_loop, vars
<1>5. ASSUME NEW c \in Fds, Reads(c) PROVE ReadInv'
  BY <1>5, ReadProcKept, ReadClosedKept DEF Reads
<1> QED BY <1>2, <1>3, <1>4, <1>5, NotifyKept, ServerSendsKept, ServerClosesKept
        DEF Next, Writes

-----------------------------------------------------------------------------
(* The property.                                                           *)
LEMMA InitReads == Init => ReadInv
<1> SUFFICES ASSUME Init PROVE ReadInv
  OBVIOUS
<1>1. ReadType
  <2>1. PICK none : none = <<>>
    OBVIOUS
  <2>2. none \in Seq(SChars) /\ none \in Seq(Seq(SChars))
    BY <2>1, EmptySeq
  <2>3. /\ stream = [c \in Fds |-> none] /\ told = [c \in Fds |-> none]
        /\ line = none /\ sent = [c \in Fds |-> 0]
        /\ rcallback = [c \in Fds |-> FALSE] /\ eof = [c \in Fds |-> FALSE]
        /\ notify_mask = [c \in Fds |-> {}] /\ mixed = FALSE /\ split = FALSE
    BY <2>1 DEF Init
  <2> QED BY <2>2, <2>3 DEF ReadType
<1>2. 0 \in Nat /\ 0 \in 0..Length /\ L \in Nat /\ L * 0 = 0
  BY LengthAssumption, LengthFact
<1>3. PICK ds \in [Fds -> Nat] : ds = [c \in Fds |-> 0]
  BY <1>2
<1>4. PICK rs \in [Fds -> 0..Length] : rs = [c \in Fds |-> 0]
  BY <1>2
<1>5. ASSUME NEW c \in Fds
      PROVE  /\ Coming(c, stream[c], sent[c], ds[c], rs[c])
             /\ Listened(c, rcallback[c], eof[c], notify_mask[c], told[c], ds[c], rs[c])
  <2>1. /\ stream[c] = <<>> /\ sent[c] = 0 /\ ds[c] = 0 /\ rs[c] = 0
        /\ rcallback[c] = FALSE /\ notify_mask[c] = {} /\ told[c] = <<>>
    BY <1>3, <1>4 DEF Init
  <2>2. Len(stream[c]) = 0 /\ 0 <= Len(Says[c])
    BY <2>1, SaysAssumption, LenProperties
  <2>3. 0 + (L * 0 + 0) = L * 0
    BY <1>2
  <2>4. \A p \in 1..Len(stream[c]) : FALSE
    BY <2>2
  <2>5. Coming(c, stream[c], sent[c], 0, 0)
    BY <2>1, <2>2, <2>3, <2>4 DEF Coming
  <2> QED BY <2>1, <2>5 DEF Listened
<1>6. Channels(ds, rs)
  BY <1>5 DEF Channels
<1>7. Shared(ds, rs)
  BY <1>4 DEF Shared, Init
<1> QED BY <1>1, <1>6, <1>7 DEF ReadInv

LEMMA InvArrive == ReadInv => LinesArrive
<1> SUFFICES ASSUME ReadInv, ~mixed, ~split, NEW c \in Fds
             PROVE  LET n == Cardinality(Wanted(c, LinesRead(c)))
                    IN /\ Len(told[c]) = n + (IF ToldOfEnd(c) THEN 1 ELSE 0)
                       /\ \A l \in Wanted(c, LinesRead(c)) :
                             told[c][Cardinality(Wanted(c, l))] = Text(Says[c][l], c, l)
                       /\ ToldOfEnd(c) => told[c][n + 1] = <<>>
  BY DEF LinesArrive
<1>1. PICK ds \in [Fds -> Nat], rs \in [Fds -> 0..Length] : Channels(ds, rs)
  BY DEF ReadInv
<1>2. PICK d \in Nat, r \in 0..Length : d = ds[c] /\ r = rs[c]
  OBVIOUS
<1>3. /\ Coming(c, stream[c], sent[c], d, r)
      /\ Listened(c, rcallback[c], eof[c], notify_mask[c], told[c], d, r)
  BY <1>1, <1>2 DEF Channels
<1>4. PICK s \in Seq(SChars), t \in Seq(Seq(SChars)), m \in SUBSET (Kinds \cup {"close"}) :
         s = stream[c] /\ m = notify_mask[c] /\ t = told[c]
  <2>1. ReadType
    BY DEF ReadInv
  <2> QED BY <2>1 DEF ReadType
<1>5. LinesRead(c) = d
  <2>1. PICK y : y = L * d
    OBVIOUS
  <2>2. PICK z : z = L * sent[c]
    OBVIOUS
  <2>3. L \in Nat /\ L > 2 /\ L = Length + 2 /\ Length \in Nat /\ Len(s) \in Nat
    BY LengthFact, LengthAssumption, LenProperties
  <2>4. y \in Nat /\ z \in Int
    <3>1. sent[c] \in Nat
      BY DEF ReadInv, ReadType
    <3> QED BY <2>1, <2>2, <2>3, <3>1
  <2>5. Len(s) + (y + r) = z
    BY <1>3, <1>4, <2>1, <2>2 DEF Coming
  <2>6. z - Len(s) = y + r /\ r \in 0..(L - 1)
    BY <2>3, <2>4, <2>5
  <2>7. (y + r) \div L = d
    BY <2>1, <2>6, DivMod
  <2> QED BY <1>4, <2>2, <2>6, <2>7 DEF LinesRead, L
<1>6. \A n : Wanted(c, n) = Marked(c, m, n)
  BY <1>4 DEF Wanted, Marked
<1>7. PICK n : n = Cardinality(Marked(c, m, d))
  OBVIOUS
<1>8. SUFFICES /\ \A l \in Marked(c, m, d) :
                     t[Cardinality(Marked(c, m, l))] = Text(Says[c][l], c, l)
               /\ Len(t) = n + (IF ToldOfEnd(c) THEN 1 ELSE 0)
               /\ ToldOfEnd(c) => t[n + 1] = <<>>
  BY <1>4, <1>5, <1>6, <1>7
<1>9. n \in Nat /\ \A l \in Marked(c, m, d) : Cardinality(Marked(c, m, l)) \in 1..n
  <2>1. \A a \in Nat : IsFiniteSet(Marked(c, m, a)) /\ Cardinality(Marked(c, m, a)) \in Nat
    <3> SUFFICES ASSUME NEW a \in Nat
                 PROVE  IsFiniteSet(Marked(c, m, a)) /\ Cardinality(Marked(c, m, a)) \in Nat
      OBVIOUS
    <3>1. Marked(c, m, a) \subseteq 1..a
      BY DEF Marked
    <3>2. IsFiniteSet(Marked(c, m, a))
      <4>1. IsFiniteSet(1..a)
        BY FS_Interval
      <4> QED BY <3>1, <4>1, FS_Subset
    <3> QED BY <3>2, FS_CardinalityType
  <2>2. ASSUME NEW l \in Marked(c, m, d) PROVE Cardinality(Marked(c, m, l)) \in 1..n
    <3>1. PICK P, D : P = Marked(c, m, l) /\ D = Marked(c, m, d)
      OBVIOUS
    <3>2. l \in Nat /\ P \subseteq D /\ l \in P
      BY <3>1 DEF Marked
    <3>3. IsFiniteSet(P) /\ Cardinality(P) \in Nat /\ IsFiniteSet(D) /\ Cardinality(D) = n
          /\ n \in Nat
      BY <1>7, <2>1, <3>1, <3>2
    <3>4. Cardinality(P) <= n
      BY <3>2, <3>3, FS_Subset
    <3>5. Cardinality(P) # 0
      BY <3>2, <3>3, FS_EmptySet
    <3> QED BY <3>1, <3>3, <3>4, <3>5
  <2> QED BY <1>7, <2>1, <2>2
<1>10. CASE rcallback[c] /\ Given(c, m, d, t)
  <2>1. ~ToldOfEnd(c)
    BY <1>10 DEF ToldOfEnd
  <2> QED BY <1>7, <1>9, <1>10, <2>1 DEF Given
<1>11. ASSUME ~rcallback[c], "close" \in m, NEW u \in Seq(Seq(SChars)),
              t = Append(u, <<>>), Given(c, m, d, u)
       PROVE  /\ \A l \in Marked(c, m, d) :
                    t[Cardinality(Marked(c, m, l))] = Text(Says[c][l], c, l)
              /\ Len(t) = n + (IF ToldOfEnd(c) THEN 1 ELSE 0)
              /\ ToldOfEnd(c) => t[n + 1] = <<>>
  <2>1. ToldOfEnd(c)
    BY <1>4, <1>11 DEF ToldOfEnd
  <2>2. PICK none : none = <<>>
    OBVIOUS
  <2>3. none \in Seq(SChars)
    BY <2>2, EmptySeq
  <2>4. t = Append(u, none)
    BY <1>11, <2>2
  <2>5. Len(t) = Len(u) + 1 /\ t[Len(u) + 1] = none /\ \A i \in 1..Len(u) : t[i] = u[i]
    BY <2>3, <2>4, AppendProperties
  <2>6. Len(u) = n
        /\ \A l \in Marked(c, m, d) : u[Cardinality(Marked(c, m, l))] = Text(Says[c][l], c, l)
    BY <1>7, <1>11 DEF Given
  <2>7. \A l \in Marked(c, m, d) :
           t[Cardinality(Marked(c, m, l))] = Text(Says[c][l], c, l)
    BY <1>9, <2>5, <2>6
  <2> QED BY <2>1, <2>2, <2>5, <2>6, <2>7
<1>12. CASE ~rcallback[c] /\ m = {} /\ t = <<>> /\ d = 0
  <2>1. Marked(c, m, d) = {}
    BY <1>12 DEF Marked
  <2>2. n = 0 /\ Len(t) = 0 /\ ~ToldOfEnd(c)
    BY <1>4, <1>7, <1>12, <2>1, FS_EmptySet DEF ToldOfEnd
  <2> QED BY <2>1, <2>2
<1> QED BY <1>3, <1>4, <1>10, <1>11, <1>12 DEF Listened

(* However the server's answers and notes are cut by read, the callback of *)
(* a connection gets every line its mask asks for once, whole and in the   *)
(* order in which the server sent them, and at most the end after them:    *)
(* for any number of connections and lines of any length, as long as no    *)
(* two connections are in the middle of a line at once and no read ends    *)
(* between CR and LF.                                                      *)
THEOREM AnswersArrive == Spec => []LinesArrive
BY InitReads, NextReads, InvArrive, PTL DEF Spec

-----------------------------------------------------------------------------
(* Types, and the registration of descriptors for writing.                 *)
Flags ==
    /\ eof \in [Fds -> BOOLEAN] /\ rcallback \in [Fds -> BOOLEAN]
    /\ notify_mask \in [Fds -> Masks \cup {{}}]
    /\ looping \in BOOLEAN /\ mixed \in BOOLEAN /\ split \in BOOLEAN

Registered ==
    writing \in [Fds -> BOOLEAN] /\ \A c \in Fds : writing[c] <=> otail[c] # "null"

LEMMA InitFlags == Init => Flags /\ Registered
BY DEF Init, Flags, Registered

LEMMA NextFlags == Flags /\ [Next]_vars => Flags'
<1> SUFFICES ASSUME Flags, [Next]_vars PROVE Flags'
  OBVIOUS
<1>1. ASSUME NEW c \in Fds, NEW k \in 1..Len(stream[c]), read_proc(c, k) PROVE Flags'
  <2>1. mixed' \in BOOLEAN /\ split' \in BOOLEAN
    BY <1>1 DEF read_proc
  <2>2. UNCHANGED <<eof, rcallback, notify_mask, looping>>
    BY <1>1 DEF read_proc
  <2> QED BY <2>1, <2>2 DEF Flags
<1>2. ASSUME NEW c \in Fds, read_proc_Closed(c) PROVE Flags'
  BY <1>2 DEF read_proc_Closed, Flags
<1>3. ASSUME NEW c \in Fds, NEW k \in 1..(Length + 2), write_proc(c, k) PROVE Flags'
  <2>1. UNCHANGED <<eof, rcallback, notify_mask, looping, mixed, split>>
    BY <1>3 DEF write_proc
  <2> QED BY <2>1 DEF Flags
<1>4. ASSUME NEW c \in Fds, NEW again \in BOOLEAN, rptp_async_putline(c, again) PROVE Flags'
  BY <1>4 DEF rptp_async_putline, Flags
<1>5. ASSUME NEW c \in Fds, NEW m \in Masks, rptp_async_notify(c, m) PROVE Flags'
  BY <1>5 DEF rptp_async_notify, Flags
<1>6. ASSUME NEW c \in Fds, ServerSends(c) PROVE Flags'
  <2>1. UNCHANGED <<eof, rcallback, notify_mask, looping, mixed, split>>
    BY <1>6 DEF ServerSends
  <2> QED BY <2>1 DEF Flags
<1>7. ASSUME NEW c \in Fds, ServerCloses(c) PROVE Flags'
  BY <1>7 DEF ServerCloses, Flags
<1>8. CASE rptp_stop_main_loop
  BY <1>8 DEF rptp_stop_main_loop, Flags
<1>9. CASE UNCHANGED vars
  BY <1>9 DEF vars, Flags
<1> QED BY <1>1, <1>2, <1>3, <1>4, <1>5, <1>6, <1>7, <1>8, <1>9 DEF Next, Reads, Writes

(* do_register and do_unregister follow the queue.                         *)
LEMMA NextRegistered == WriteInv /\ WriteInv' /\ Registered /\ [Next]_vars => Registered'
<1> SUFFICES ASSUME WriteInv, WriteInv', Registered, [Next]_vars PROVE Registered'
  OBVIOUS
<1>1. /\ otail \in [Fds -> {"null", "last"}] /\ otail' \in [Fds -> {"null", "last"}]
      /\ \A c \in Fds : otail'[c] = "null" <=> olist'[c] = <<>>
  BY DEF WriteInv, WriteType
<1>2. ASSUME NEW c \in Fds,
             otail' = [otail EXCEPT ![c] = IF @ = "freed" THEN @ ELSE "last"],
             writing' = [writing EXCEPT ![c] = TRUE]
      PROVE  Registered'
  <2>1. otail'[c] = "last"
    BY <1>1, <1>2
  <2> QED BY <1>1, <1>2, <2>1 DEF Registered
<1>3. ASSUME NEW c \in Fds, NEW k \in 1..(Length + 2), write_proc(c, k) PROVE Registered'
  <2>1. /\ otail' = [otail EXCEPT ![c] = IF olist'[c] = <<>> THEN "null" ELSE @]
        /\ writing' = [writing EXCEPT ![c] = olist'[c] # <<>>]
    BY <1>3 DEF write_proc
  <2> QED BY <1>1, <2>1 DEF Registered
<1>4. ASSUME UNCHANGED <<otail, writing>> PROVE Registered'
  BY <1>4 DEF Registered
<1>5. ASSUME NEW c \in Fds, NEW again \in BOOLEAN, rptp_async_putline(c, again)
      PROVE  Registered'
  BY <1>2, <1>5 DEF rptp_async_putline
<1>6. ASSUME NEW c \in Fds, NEW m \in Masks, rptp_async_notify(c, m) PROVE Registered'
  BY <1>2, <1>6 DEF rptp_async_notify
<1>7. ASSUME NEW c \in Fds,
             \/ \E k \in 1..Len(stream[c]) : read_proc(c, k)
             \/ read_proc_Closed(c) \/ ServerSends(c) \/ ServerCloses(c)
      PROVE  UNCHANGED <<otail, writing>>
  BY <1>7 DEF read_proc, read_proc_Closed, ServerSends, ServerCloses
<1>8. CASE rptp_stop_main_loop \/ UNCHANGED vars
  <2>1. UNCHANGED <<otail, writing>>
    BY <1>8 DEF rptp_stop_main_loop, vars
  <2> QED BY <1>4, <2>1
<1> QED BY <1>3, <1>4, <1>5, <1>6, <1>7, <1>8 DEF Next, Reads, Writes

LEMMA InvTyped == WriteInv /\ Flags /\ Registered => TypeOK
BY DEF WriteInv, WriteType, Flags, Registered, TypeOK

(* The variables keep their types.  A descriptor is registered for writing *)
(* exactly while its queue holds something: a line that was queued is never*)
(* forgotten, and select is not asked about a socket that has nothing to   *)
(* write, for which it would return at once, again and again.              *)
THEOREM TypeCorrect == Spec => []TypeOK
BY InitWrite, NextWrites, InitFlags, NextFlags, NextRegistered, InvTyped, PTL DEF Spec

=============================================================================
