--------------------------- MODULE PlaybackProofs ---------------------------
(***************************************************************************)
(* Theorems about Playback, for every number of entries and buffers and    *)
(* every length of the chains and of the int nbuffers: no buffer is on the *)
(* free list and in a chain, or in two chains, although the timer handler  *)
(* gives buffers back between any two steps of buffer_create,              *)
(* buffer_destroy and spool_update.                                        *)
(***************************************************************************)
EXTENDS Playback, FiniteSetTheorems, SequenceTheorems, TLAPS

(* A list of buffers that holds none of them twice.                        *)
NoDup(s) == s \in Seq(Buffers) /\ IsInjective(s)

EntryRec ==
    [state : {"NULL", "PLAY", "NEXT"}, curr : Seq(Buffers), next : Seq(Buffers),
     si : {"null", "open", "eof"}, read : 0..Chunks]

HeldBy(n) == Range(n.curr) \cup Range(n.next)

(* An entry and its two chains.                                            *)
EntryOK(n) ==
    /\ n \in EntryRec
    /\ NoDup(n.curr) /\ NoDup(n.next)
    /\ Range(n.curr) \cap Range(n.next) = {}
    /\ Len(n.curr) <= Chain /\ Len(n.next) <= Chain

(* The first buffer of a chain that is to be heard has audio in it.        *)
Loaded(c, d) == c # None => d[c[1]] \in 1..Chunks

-----------------------------------------------------------------------------
(* The inductive invariant, for a build that keeps `buffers' in a register *)
(* through buffers = buffers->next.                                        *)

ListsOK == NoDup(free) /\ NoDup(chain) /\ Range(free) \cap Range(Taken) = {}

EntriesOK ==
    /\ DOMAIN entry = Entries
    /\ \A e \in Entries : EntryOK(entry[e])

(* No two owners of a buffer.                                              *)
Apart ==
    /\ \A e \in Entries : HeldBy(entry[e]) \cap (Range(free) \cup Range(chain)) = {}
    /\ \A e, f \in Entries : e # f => HeldBy(entry[e]) \cap HeldBy(entry[f]) = {}

DataOK ==
    /\ data \in [Buffers -> 0..Chunks]
    /\ \A e \in Entries : Loaded(entry[e].curr, data) /\ Loaded(entry[e].next, data)
    /\ pc \in {"place", "store"} => Loaded(chain, data)

(* What the main loop knows at each of its places, and what the handler    *)
(* leaves it: the free list may grow meanwhile, but not shrink.            *)
Control ==
    /\ pc \in {"idle", "next", "visit", "create", "count", "uncount", "head",
               "unlink", "created", "fill", "place", "store", "more", "recount",
               "link", "linked"}
    /\ cur \in Entries \cup {Reply}
    /\ todo \subseteq Entries
    /\ pc \in {"visit", "fill", "place", "store"} => cur \in Entries
    /\ pc \in {"idle", "next", "visit"} => chain = None
    /\ pc \in {"create", "count", "uncount", "head"} => Len(chain) < Chain
    /\ pc \in {"unlink", "created", "fill", "place", "store"} => Len(chain) <= Chain
    /\ pc = "fill" => Len(chain) = Chain
    /\ pc \in {"unlink", "more", "recount", "link", "linked"} => chain # None
    /\ pc \in {"more", "recount", "link", "linked"} => Len(chain) <= 2 * Chain
    /\ pc \in {"count", "uncount", "head"} => free # None
    /\ pc = "unlink" => chain[Len(chain)] \in Range(free)
    /\ pc \in {"uncount", "recount"} => Head(seen) \in Int
    /\ pc = "linked" => NoDup(seen) /\ Range(seen) \subseteq Range(free)

CountersOK ==
    /\ nbuffers \in -Width..(Width - 1)
    /\ needs_update \in BOOLEAN
    /\ played \in [Entries -> Seq(1..Chunks)]

PInv == ListsOK /\ EntriesOK /\ Apart /\ DataOK /\ Control /\ CountersOK

-----------------------------------------------------------------------------
(* Lists of buffers.                                                       *)

(* The members of a list, by position.                                     *)
LEMMA RangeIs ==
    ASSUME NEW s \in Seq(Buffers)
    PROVE  \A x : x \in Range(s) <=> \E i \in 1..Len(s) : s[i] = x
BY DEF Range

(* No duplicates, by position.                                             *)
LEMMA NoDupIs ==
    ASSUME NEW s \in Seq(Buffers)
    PROVE  NoDup(s) <=> \A i, j \in 1..Len(s) : s[i] = s[j] => i = j
BY DEF NoDup, IsInjective

(* The empty list.                                                         *)
LEMMA EmptyList ==
    /\ NoDup(None) /\ Range(None) = {} /\ Len(None) = 0
<1>1. None \in Seq(Buffers) /\ Len(None) = 0
  BY DEF None
<1>2. PICK s \in Seq(Buffers) : s = None
  BY <1>1
<1>3. 1..Len(s) = {}
  BY <1>1, <1>2
<1>4. \A x : x \in Range(s) <=> \E i \in 1..Len(s) : s[i] = x
  BY RangeIs
<1>5. NoDup(s) <=> \A i, j \in 1..Len(s) : s[i] = s[j] => i = j
  BY NoDupIs
<1>6. Range(s) = {}
  BY <1>3, <1>4, Zenon
<1>7. NoDup(s)
  BY <1>3, <1>5, Zenon
<1> QED BY <1>1, <1>2, <1>6, <1>7

(* A list without members is empty.                                        *)
LEMMA EmptyRange ==
    ASSUME NEW s \in Seq(Buffers)
    PROVE  /\ s = None <=> Range(s) = {}
           /\ s = None <=> Len(s) = 0
           /\ Len(s) \in Nat
           /\ Range(s) \subseteq Buffers
<1>1. Len(s) \in Nat /\ (s = None <=> Len(s) = 0)
  BY DEF None
<1>2. Len(s) # 0 => s[1] \in Range(s)
  BY <1>1, RangeIs
<1> QED BY <1>1, <1>2, RangeIs

(* One buffer more.                                                        *)
LEMMA AppendList ==
    ASSUME NEW s, NoDup(s), NEW b \in Buffers, b \notin Range(s)
    PROVE  /\ NoDup(Append(s, b))
           /\ Range(Append(s, b)) = Range(s) \cup {b}
           /\ Len(Append(s, b)) = Len(s) + 1
           /\ Append(s, b)[Len(s) + 1] = b
           /\ Append(s, b) # None
           /\ SubSeq(Append(s, b), 1, Len(s)) = s
<1>1. s \in Seq(Buffers) /\ Len(s) \in Nat
  BY DEF NoDup
<1>7. Append(s, b) \in Seq(Buffers)
  BY <1>1
<1>2. PICK t \in Seq(Buffers) : t = Append(s, b)
  BY <1>7
<1>3. /\ Len(t) = Len(s) + 1 /\ t[Len(s) + 1] = b /\ t # None
      /\ \A i \in 1..Len(s) : t[i] = s[i]
  BY <1>1, <1>2, AppendProperties DEF None
<1>4. Range(t) = Range(s) \cup {b}
  <2>1. \A x : x \in Range(t) => x \in Range(s) \cup {b}
    BY <1>1, <1>3, RangeIs
  <2>2. \A x \in Range(s) : x \in Range(t)
    BY <1>1, <1>3, RangeIs
  <2>3. b \in Range(t)
    BY <1>1, <1>3, RangeIs
  <2> QED BY <2>1, <2>2, <2>3
<1>5. NoDup(t)
  <2>1. \A i \in 1..Len(s) : s[i] # b
    BY <1>1, RangeIs
  <2> QED BY <1>1, <1>3, <2>1, NoDupIs
<1>6. SubSeq(t, 1, Len(s)) = s
  BY <1>1, <1>2, <1>3
<1> QED BY <1>2, <1>3, <1>4, <1>5, <1>6

(* Two lists with no member in common.                                     *)
LEMMA JoinLists ==
    ASSUME NEW s, NoDup(s), NEW t, NoDup(t), Range(s) \cap Range(t) = {}
    PROVE  /\ NoDup(s \o t)
           /\ Range(s \o t) = Range(s) \cup Range(t)
           /\ Len(s \o t) = Len(s) + Len(t)
<1>1. s \in Seq(Buffers) /\ t \in Seq(Buffers) /\ Len(s) \in Nat /\ Len(t) \in Nat
  BY DEF NoDup
<1>2. PICK u : u = s \o t
  OBVIOUS
<1>3. /\ u \in Seq(Buffers) /\ Len(u) = Len(s) + Len(t)
      /\ \A i \in 1..Len(u) : u[i] = IF i <= Len(s) THEN s[i] ELSE t[i - Len(s)]
  BY <1>1, <1>2, ConcatProperties
<1>4. ASSUME NEW i \in 1..Len(s) PROVE i \in 1..Len(u) /\ u[i] = s[i]
  <2>1. i \in 1..Len(u) /\ i <= Len(s)
    BY <1>1, <1>3
  <2> QED BY <1>3, <2>1
<1>5. ASSUME NEW i \in 1..Len(t) PROVE i + Len(s) \in 1..Len(u) /\ u[i + Len(s)] = t[i]
  <2>1. i + Len(s) \in 1..Len(u) /\ ~(i + Len(s) <= Len(s)) /\ (i + Len(s)) - Len(s) = i
    BY <1>1, <1>3
  <2> QED BY <1>3, <2>1
<1>6. \A i \in 1..Len(u) : i \in 1..Len(s) \/ (i - Len(s) \in 1..Len(t) /\ i = (i - Len(s)) + Len(s))
  BY <1>1, <1>3
<1>7. Range(u) = Range(s) \cup Range(t)
  <2>1. \A x \in Range(s) : x \in Range(u)
    <3>1. \A i \in 1..Len(s) : s[i] \in Range(u)
      BY <1>3, <1>4, RangeIs
    <3> QED BY <1>1, <3>1, RangeIs
  <2>2. \A x \in Range(t) : x \in Range(u)
    BY <1>1, <1>3, <1>5, RangeIs
  <2>3. ASSUME NEW i \in 1..Len(u) PROVE u[i] \in Range(s) \cup Range(t)
    <3>1. CASE i \in 1..Len(s)
      BY <1>1, <1>4, <3>1, RangeIs
    <3>2. CASE i - Len(s) \in 1..Len(t)
      <4>1. u[i] = t[i - Len(s)]
        BY <1>1, <1>3, <3>2
      <4> QED BY <1>1, <3>2, <4>1, RangeIs
    <3> QED BY <1>6, <3>1, <3>2
  <2>4. \A x \in Range(u) : x \in Range(s) \cup Range(t)
    BY <1>3, <2>3, RangeIs
  <2> QED BY <2>1, <2>2, <2>4
<1>8. NoDup(u)
  <2>1. SUFFICES ASSUME NEW i \in 1..Len(u), NEW j \in 1..Len(u), u[i] = u[j]
                 PROVE  i = j
    BY <1>3, NoDupIs
  <2>2. \A k \in 1..Len(s), l \in 1..Len(t) : s[k] # t[l]
    BY <1>1, RangeIs
  <2>3. \A k, l \in 1..Len(s) : s[k] = s[l] => k = l
    BY <1>1, NoDupIs
  <2>4. \A k, l \in 1..Len(t) : t[k] = t[l] => k = l
    BY <1>1, NoDupIs
  <2>5. CASE i \in 1..Len(s) /\ j \in 1..Len(s)
    BY <2>1, <2>3, <2>5, <1>4
  <2>9. ASSUME NEW l \in 1..Len(u), l \notin 1..Len(s)
        PROVE  l - Len(s) \in 1..Len(t) /\ u[l] = t[l - Len(s)]
    <3>1. l - Len(s) \in 1..Len(t)
      BY <1>6, <2>9
    <3>2. u[(l - Len(s)) + Len(s)] = t[l - Len(s)]
      BY <1>5, <3>1
    <3> QED BY <1>6, <2>9, <3>1, <3>2
  <2>6. CASE i \notin 1..Len(s) /\ j \notin 1..Len(s)
    <3>1. i - Len(s) = j - Len(s)
      BY <2>1, <2>4, <2>6, <2>9
    <3> QED BY <1>1, <1>3, <3>1
  <2>7. CASE i \in 1..Len(s) /\ j \notin 1..Len(s)
    BY <2>1, <2>2, <2>7, <2>9, <1>4
  <2>8. CASE i \notin 1..Len(s) /\ j \in 1..Len(s)
    BY <2>1, <2>2, <2>8, <2>9, <1>4
  <2> QED BY <2>5, <2>6, <2>7, <2>8
<1> QED BY <1>2, <1>3, <1>7, <1>8

(* A list of one buffer.                                                   *)
LEMMA OneBuffer ==
    ASSUME NEW b \in Buffers
    PROVE  NoDup(<<b>>) /\ Range(<<b>>) = {b} /\ Len(<<b>>) = 1
<1>1. PICK t : t = <<b>>
  OBVIOUS
<1>4. t \in Seq(Buffers) /\ Len(t) = 1 /\ t[1] = b
  BY <1>1
<1>2. Range(t) = {b}
  BY <1>4, RangeIs
<1>3. NoDup(t)
  BY <1>4, NoDupIs
<1> QED BY <1>1, <1>2, <1>3, <1>4

(* What is behind the head.                                                *)
LEMMA TailList ==
    ASSUME NEW s, NoDup(s), s # None
    PROVE  /\ NoDup(Tail(s))
           /\ Head(s) \in Range(s) /\ Head(s) = s[1]
           /\ Range(Tail(s)) = Range(s) \ {Head(s)}
           /\ Len(Tail(s)) = Len(s) - 1
           /\ Len(s) > 1 => Tail(s)[1] = s[2]
<1>1. s \in Seq(Buffers) /\ Len(s) \in Nat \ {0} /\ Head(s) = s[1]
  BY DEF NoDup, None
<1>2. PICK t : t = Tail(s)
  OBVIOUS
<1>3. /\ t \in Seq(Buffers) /\ Len(t) = Len(s) - 1
      /\ \A i \in 1..Len(t) : i + 1 \in 1..Len(s) /\ t[i] = s[i + 1]
  BY <1>1, <1>2
<1>4. \A i, j \in 1..Len(s) : s[i] = s[j] => i = j
  BY <1>1, NoDupIs
<1>5. NoDup(t)
  BY <1>1, <1>3, <1>4, NoDupIs
<1>6. \A x \in Range(t) : x \in Range(s) /\ x # s[1]
  BY <1>1, <1>3, <1>4, RangeIs
<1>7. \A x \in Range(s) : x # s[1] => x \in Range(t)
  <2>1. SUFFICES ASSUME NEW i \in 1..Len(s), s[i] # s[1] PROVE s[i] \in Range(t)
    BY <1>1, RangeIs
  <2>2. i - 1 \in 1..Len(t) /\ t[i - 1] = s[i]
    BY <1>1, <1>3, <2>1
  <2> QED BY <1>3, <2>2, RangeIs
<1>8. s[1] \in Range(s)
  BY <1>1, RangeIs
<1> QED BY <1>1, <1>2, <1>3, <1>5, <1>6, <1>7, <1>8

(* The same list from its end.                                             *)
LEMMA ReverseList ==
    ASSUME NEW s, NoDup(s)
    PROVE  NoDup(Reverse(s)) /\ Range(Reverse(s)) = Range(s)
<1>1. s \in Seq(Buffers) /\ Len(s) \in Nat
  BY DEF NoDup
<1>2. PICK t : t = Reverse(s)
  OBVIOUS
<1>3. t = [i \in 1..Len(s) |-> s[(Len(s) - i) + 1]]
  BY <1>2 DEF Reverse
<1>4. \A i \in 1..Len(s) : (Len(s) - i) + 1 \in 1..Len(s)
  BY <1>1
<1>5. t \in Seq(Buffers) /\ Len(t) = Len(s)
  BY <1>1, <1>3, <1>4
<1>6. \A i \in 1..Len(s) : t[i] = s[(Len(s) - i) + 1] /\ t[(Len(s) - i) + 1] = s[i]
  BY <1>1, <1>3, <1>4
<1>7. Range(t) = Range(s)
  <2>1. \A x \in Range(t) : x \in Range(s)
    BY <1>1, <1>4, <1>5, <1>6, RangeIs
  <2>2. \A x \in Range(s) : x \in Range(t)
    BY <1>1, <1>4, <1>5, <1>6, RangeIs
  <2> QED BY <2>1, <2>2
<1>8. NoDup(t)
  <2> SUFFICES ASSUME NEW i \in 1..Len(t), NEW j \in 1..Len(t), t[i] = t[j]
               PROVE  i = j
    BY <1>5, NoDupIs
  <2>1. s[(Len(s) - i) + 1] = s[(Len(s) - j) + 1]
    BY <1>5, <1>6
  <2>2. (Len(s) - i) + 1 = (Len(s) - j) + 1
    BY <1>1, <1>4, <1>5, <2>1, NoDupIs
  <2> QED BY <1>1, <1>5, <2>2
<1> QED BY <1>2, <1>7, <1>8

(* What is behind one of the buffers.                                      *)
LEMMA RestList ==
    ASSUME NEW s, NoDup(s), NEW k \in 1..Len(s)
    PROVE  /\ NoDup(SubSeq(s, k + 1, Len(s)))
           /\ Range(SubSeq(s, k + 1, Len(s))) \subseteq Range(s) \ {s[k]}
<1>1. s \in Seq(Buffers) /\ Len(s) \in Nat
  BY DEF NoDup
<1>2. PICK t : t = SubSeq(s, k + 1, Len(s))
  OBVIOUS
<1>3. /\ t \in Seq(Buffers) /\ Len(t) = Len(s) - k
      /\ \A i \in 1..Len(t) : i + k \in 1..Len(s) /\ t[i] = s[i + k]
  BY <1>1, <1>2
<1>4. \A i, j \in 1..Len(s) : s[i] = s[j] => i = j
  BY <1>1, NoDupIs
<1>5. NoDup(t)
  BY <1>1, <1>3, <1>4, NoDupIs
<1>6. Range(t) \subseteq Range(s) \ {s[k]}
  BY <1>1, <1>3, <1>4, RangeIs
<1> QED BY <1>2, <1>5, <1>6

(* The list without its last buffer.                                       *)
LEMMA FrontList ==
    ASSUME NEW s, NoDup(s), s # None
    PROVE  Range(SubSeq(s, 1, Len(s) - 1)) = Range(s) \ {s[Len(s)]}
<1>1. s \in Seq(Buffers) /\ Len(s) \in Nat \ {0}
  BY DEF NoDup, None
<1>2. PICK t : t = SubSeq(s, 1, Len(s) - 1)
  OBVIOUS
<1>3. /\ t \in Seq(Buffers) /\ Len(t) = Len(s) - 1
      /\ \A i \in 1..Len(t) : i \in 1..Len(s) /\ t[i] = s[i]
  <2>1. \A i \in 1..(Len(s) - 1) : s[i] \in Buffers
    BY <1>1
  <2>2. PICK n \in Int : n = Len(s) - 1
    BY <1>1
  <2>3. /\ t \in Seq(Buffers)
        /\ Len(t) = IF 1 <= n THEN n - 1 + 1 ELSE 0
        /\ \A i \in 1..(n - 1 + 1) : t[i] = s[1 + i - 1]
    BY <1>2, <2>1, <2>2, SubSeqProperties
  <2>4. Len(t) = Len(s) - 1
    BY <1>1, <2>2, <2>3
  <2> QED BY <1>1, <2>2, <2>3, <2>4
<1>4. \A i, j \in 1..Len(s) : s[i] = s[j] => i = j
  BY <1>1, NoDupIs
<1>5. \A x \in Range(t) : x \in Range(s) /\ x # s[Len(s)]
  BY <1>1, <1>3, <1>4, RangeIs
<1>6. \A x \in Range(s) : x # s[Len(s)] => x \in Range(t)
  <2>1. SUFFICES ASSUME NEW i \in 1..Len(s), s[i] # s[Len(s)] PROVE s[i] \in Range(t)
    BY <1>1, RangeIs
  <2>2. i \in 1..Len(t)
    BY <1>1, <1>3, <2>1
  <2> QED BY <1>3, <2>2, RangeIs
<1> QED BY <1>2, <1>5, <1>6

-----------------------------------------------------------------------------
(* malloc and nbuffers.                                                    *)

(* An int is an int, whatever is added to it.                              *)
LEMMA WrappedTyped ==
    ASSUME NEW n \in Int
    PROVE  Wrapped(n) \in -Width..(Width - 1)
<1>1. Width \in Nat \ {0}
  BY WidthAssumption
<1>2. PICK m \in Int : m = (n + Width) % (2 * Width) /\ 0 <= m /\ m < 2 * Width
  BY <1>1
<1> QED BY <1>1, <1>2 DEF Wrapped

(* A list has no more members than places.                                 *)
LEMMA CountList ==
    ASSUME NEW s \in Seq(Buffers)
    PROVE  IsFiniteSet(Range(s)) /\ Cardinality(Range(s)) <= Len(s)
<1>1. Len(s) \in Nat /\ IsFiniteSet(1..Len(s)) /\ Cardinality(1..Len(s)) = Len(s)
  <2>1. Len(s) \in Nat
    OBVIOUS
  <2>2. /\ IsFiniteSet(1..Len(s))
        /\ Cardinality(1..Len(s)) = IF 1 > Len(s) THEN 0 ELSE Len(s) - 1 + 1
    BY <2>1, FS_Interval
  <2> QED BY <2>1, <2>2
<1>2. s \in [1..Len(s) -> Range(s)]
  <2>1. s \in [1..Len(s) -> Buffers]
    BY LenProperties
  <2> QED BY <2>1, RangeIs
<1>3. s \in Surjection(1..Len(s), Range(s))
  BY <1>2, RangeIs DEF Surjection
<1> QED BY <1>1, <1>3, FS_Surjection

AllHeld == UNION {HeldBy(entry[e]) : e \in Entries}

(* All the buffers of all entries: no more than two chains each.           *)
LEMMA CountHeld ==
    ASSUME EntriesOK
    PROVE  /\ IsFiniteSet(AllHeld)
           /\ Cardinality(AllHeld) <= Cardinality(Entries) * (2 * Chain)
<1> DEFINE Cells == Entries \X (1..(2 * Chain))
           g == [c \in Cells |-> (entry[c[1]].curr \o entry[c[1]].next)[c[2]]]
           T == {g[c] : c \in Cells}
<1>1. Chain \in Nat \ {0} /\ 2 * Chain \in Nat
  BY ChunkAssumption
<1>2. IsFiniteSet(1..(2 * Chain)) /\ Cardinality(1..(2 * Chain)) = 2 * Chain
  <2>1. PICK n \in Nat : n = 2 * Chain /\ n > 0
    BY <1>1
  <2>2. /\ IsFiniteSet(1..n)
        /\ Cardinality(1..n) = IF 1 > n THEN 0 ELSE n - 1 + 1
    BY <2>1, FS_Interval
  <2> QED BY <2>1, <2>2
<1>3. IsFiniteSet(Cells) /\ Cardinality(Cells) = Cardinality(Entries) * (2 * Chain)
  BY <1>2, EntriesAssumption, FS_Product
<1>4. g \in Surjection(Cells, T)
  <2>1. g \in [Cells -> T]
    OBVIOUS
  <2>2. \A x \in T : \E c \in Cells : g[c] = x
    OBVIOUS
  <2> QED BY <2>1, <2>2 DEF Surjection
<1> HIDE DEF g
<1>5. IsFiniteSet(T) /\ Cardinality(T) <= Cardinality(Cells)
  BY <1>3, <1>4, FS_Surjection
<1>6. AllHeld \subseteq T
  <2>1. SUFFICES ASSUME NEW e \in Entries, NEW b \in HeldBy(entry[e]) PROVE b \in T
    BY DEF AllHeld
  <2>2. PICK s, t : s = entry[e].curr /\ t = entry[e].next
    OBVIOUS
  <2>3. /\ s \in Seq(Buffers) /\ t \in Seq(Buffers)
        /\ Len(s) \in Nat /\ Len(t) \in Nat /\ Len(s) <= Chain /\ Len(t) <= Chain
    BY <2>2 DEF EntriesOK, EntryOK, NoDup
  <2>4. PICK i \in 1..(Len(s) + Len(t)) : (s \o t)[i] = b
    <3>1. CASE b \in Range(s)
      <4>1. PICK i \in 1..Len(s) : s[i] = b
        BY <2>3, <3>1, RangeIs
      <4>2. i \in 1..(Len(s) + Len(t)) /\ (s \o t)[i] = b
        BY <2>3, <4>1
      <4> QED BY <4>2
    <3>2. CASE b \in Range(t)
      <4>1. PICK i \in 1..Len(t) : t[i] = b
        BY <2>3, <3>2, RangeIs
      <4>2. Len(s) + i \in 1..(Len(s) + Len(t)) /\ (s \o t)[Len(s) + i] = b
        BY <2>3, <4>1
      <4> QED BY <4>2
    <3> QED BY <2>1, <2>2, <3>1, <3>2 DEF HeldBy
  <2>5. i \in 1..(2 * Chain)
    BY <1>1, <2>3
  <2>6. PICK c : c = <<e, i>>
    OBVIOUS
  <2>7. c \in Cells /\ c[1] = e /\ c[2] = i
    BY <2>5, <2>6
  <2>8. g[c] = b
    BY <2>2, <2>4, <2>7 DEF g
  <2> QED BY <2>7, <2>8
<1>7. IsFiniteSet(AllHeld) /\ Cardinality(AllHeld) <= Cardinality(T)
  BY <1>5, <1>6, FS_Subset
<1>8. Cardinality(AllHeld) \in Nat /\ Cardinality(T) \in Nat /\ Cardinality(Cells) \in Nat
  BY <1>3, <1>5, <1>7, FS_CardinalityType
<1> HIDE DEF T, Cells
<1>9. Cardinality(AllHeld) <= Cardinality(Cells)
  BY <1>5, <1>7, <1>8
<1> QED BY <1>3, <1>7, <1>9

(* There is memory left when the free list is empty: buffer_create gets a  *)
(* buffer that nobody holds.                                               *)
LEMMA FreshIsFree ==
    ASSUME EntriesOK, NoDup(chain), Len(chain) < Chain, free = None
    PROVE  /\ Fresh \in Buffers /\ Fresh \notin Range(chain)
           /\ \A e \in Entries : Fresh \notin HeldBy(entry[e])
<1> DEFINE U == Range(chain) \cup AllHeld
<1>1. chain \in Seq(Buffers) /\ Len(chain) \in Nat
  BY DEF NoDup
<1>2. IsFiniteSet(Range(chain)) /\ Cardinality(Range(chain)) <= Len(chain)
  BY <1>1, CountList
<1>3. IsFiniteSet(AllHeld) /\ Cardinality(AllHeld) <= Cardinality(Entries) * (2 * Chain)
  BY CountHeld
<1>4. /\ IsFiniteSet(U)
      /\ Cardinality(U) = Cardinality(Range(chain)) + Cardinality(AllHeld)
                          - Cardinality(Range(chain) \cap AllHeld)
  BY <1>2, <1>3, FS_Union
<1>5. IsFiniteSet(Range(chain) \cap AllHeld)
  BY <1>2, FS_Subset
<1>6. /\ Cardinality(U) \in Nat /\ Cardinality(Range(chain)) \in Nat
      /\ Cardinality(AllHeld) \in Nat /\ Cardinality(Range(chain) \cap AllHeld) \in Nat
      /\ Cardinality(Entries) \in Nat
  BY <1>2, <1>3, <1>4, <1>5, EntriesAssumption, FS_CardinalityType
<1>7. Cardinality(U) < Cardinality(Buffers)
  <2>1. PICK k \in Nat : k = Cardinality(Entries)
    BY <1>6
  <2>2. Chain \in Nat
    BY ChunkAssumption
  <2>3. Chain * (2 * k + 1) = k * (2 * Chain) + Chain /\ k * (2 * Chain) \in Nat
    BY <2>2
  <2>4. Cardinality(Buffers) \in Nat /\ Cardinality(Buffers) > k * (2 * Chain) + Chain
    BY <2>1, <2>3, BufferAssumption, FS_CardinalityType
  <2>5. Cardinality(U) <= Len(chain) + k * (2 * Chain)
    BY <1>1, <1>2, <1>3, <1>4, <1>6, <2>1, <2>3
  <2> QED BY <1>1, <1>6, <2>2, <2>3, <2>4, <2>5
<1>8. ~(Buffers \subseteq U)
  <2>1. SUFFICES ASSUME Buffers \subseteq U PROVE FALSE
    OBVIOUS
  <2>2. Cardinality(Buffers) <= Cardinality(U)
    BY <1>4, <2>1, FS_Subset
  <2>3. Cardinality(Buffers) \in Nat
    BY BufferAssumption, FS_CardinalityType
  <2> QED BY <1>6, <1>7, <2>2, <2>3
<1>9. InUse = U
  <2>1. Range(free) = {}
    BY EmptyList
  <2>2. AllHeld = UNION {Held(e) : e \in Entries}
    BY DEF AllHeld, HeldBy, Held
  <2> QED BY <2>1, <2>2 DEF InUse
<1>10. \E b \in Buffers : b \notin InUse
  BY <1>8, <1>9
<1>11. Fresh \in Buffers /\ Fresh \notin InUse
  BY <1>10 DEF Fresh
<1> QED BY <1>9, <1>11 DEF AllHeld

-----------------------------------------------------------------------------
(* What the steps have in common.                                          *)

(* The buffers that were taken, as a set.                                  *)
LEMMA TakenIs ==
    ASSUME NEW c, NoDup(c), NEW p
    PROVE  /\ p # "unlink" =>
                (IF p = "unlink" THEN SubSeq(c, 1, Len(c) - 1) ELSE c) = c
           /\ c # None =>
                Range(IF p = "unlink" THEN SubSeq(c, 1, Len(c) - 1) ELSE c)
                    = IF p = "unlink" THEN Range(c) \ {c[Len(c)]} ELSE Range(c)
BY FrontList

(* Away from buffer_create, the free list and the chain have no buffer in  *)
(* common.                                                                 *)
LEMMA Disjoint ==
    ASSUME ListsOK, pc # "unlink"
    PROVE  Range(free) \cap Range(chain) = {}
BY DEF ListsOK, Taken

(* And this is enough.                                                     *)
LEMMA DisjointAfter ==
    ASSUME NoDup(free'), NoDup(chain'), pc' # "unlink", Range(free') \cap Range(chain') = {}
    PROVE  ListsOK'
BY DEF ListsOK, Taken

(* The chains of an entry are lists of their own.                          *)
LEMMA EntryIs ==
    ASSUME EntriesOK, NEW e \in Entries
    PROVE  /\ entry[e] \in EntryRec
           /\ NoDup(entry[e].curr) /\ NoDup(entry[e].next)
           /\ Range(entry[e].curr) \cap Range(entry[e].next) = {}
           /\ entry[e].curr \in Seq(Buffers) /\ entry[e].next \in Seq(Buffers)
           /\ Len(entry[e].curr) \in Nat /\ Len(entry[e].next) \in Nat
           /\ Len(entry[e].curr) <= Chain /\ Len(entry[e].next) <= Chain
           /\ HeldBy(entry[e]) \subseteq Buffers
<1>1. EntryOK(entry[e])
  BY DEF EntriesOK
<1>2. entry[e].curr \in Seq(Buffers) /\ entry[e].next \in Seq(Buffers)
  BY <1>1 DEF EntryOK, NoDup
<1>3. Range(entry[e].curr) \subseteq Buffers /\ Range(entry[e].next) \subseteq Buffers
  BY <1>2, EmptyRange
<1> QED BY <1>1, <1>2, <1>3 DEF EntryOK, HeldBy

(* A step that changes one entry: it keeps its own buffers or gets those   *)
(* of the chain, and what it gives up goes to the free list or the chain.  *)
LEMMA OneEntry ==
    ASSUME EntriesOK, Apart, NEW c \in Entries, NEW n, EntryOK(n),
           entry' = [entry EXCEPT ![c] = n],
           HeldBy(n) \subseteq HeldBy(entry[c]) \cup Range(chain),
           HeldBy(n) \cap (Range(free') \cup Range(chain')) = {},
           Range(free') \cup Range(chain')
               \subseteq Range(free) \cup Range(chain) \cup HeldBy(entry[c])
    PROVE  EntriesOK' /\ Apart' /\ entry'[c] = n
           /\ \A e \in Entries : e # c => entry'[e] = entry[e]
<1>1. DOMAIN entry = Entries /\ DOMAIN entry' = Entries
  BY DEF EntriesOK
<1>2. entry'[c] = n /\ \A e \in Entries : e # c => entry'[e] = entry[e]
  BY <1>1
<1>3. \A e \in Entries : EntryOK(entry'[e])
  BY <1>2 DEF EntriesOK
<1>4. \A e \in Entries :
        HeldBy(entry'[e]) \cap (Range(free') \cup Range(chain')) = {}
  <2>1. SUFFICES ASSUME NEW e \in Entries, e # c
                 PROVE  HeldBy(entry[e]) \cap (Range(free') \cup Range(chain')) = {}
    BY <1>2
  <2>2. /\ HeldBy(entry[e]) \cap (Range(free) \cup Range(chain)) = {}
        /\ HeldBy(entry[e]) \cap HeldBy(entry[c]) = {}
    BY <2>1 DEF Apart
  <2> QED BY <2>2
<1>5. \A e \in Entries : e # c => HeldBy(entry[e]) \cap HeldBy(n) = {}
  <2>1. SUFFICES ASSUME NEW e \in Entries, e # c
                 PROVE  HeldBy(entry[e]) \cap HeldBy(n) = {}
    OBVIOUS
  <2>2. /\ HeldBy(entry[e]) \cap (Range(free) \cup Range(chain)) = {}
        /\ HeldBy(entry[e]) \cap HeldBy(entry[c]) = {}
    BY <2>1 DEF Apart
  <2> QED BY <2>2
<1>6. \A e, f \in Entries : e # f => HeldBy(entry'[e]) \cap HeldBy(entry'[f]) = {}
  <2>1. SUFFICES ASSUME NEW e \in Entries, NEW f \in Entries, e # f
                 PROVE  HeldBy(entry'[e]) \cap HeldBy(entry'[f]) = {}
    OBVIOUS
  <2>2. CASE e = c
    <3>1. entry'[e] = n /\ entry'[f] = entry[f] /\ HeldBy(entry[f]) \cap HeldBy(n) = {}
      BY <1>2, <1>5, <2>1, <2>2
    <3> QED BY <3>1
  <2>3. CASE f = c
    <3>1. entry'[f] = n /\ entry'[e] = entry[e] /\ HeldBy(entry[e]) \cap HeldBy(n) = {}
      BY <1>2, <1>5, <2>1, <2>3
    <3> QED BY <3>1
  <2>4. CASE e # c /\ f # c
    BY <1>2, <2>1, <2>4 DEF Apart
  <2> QED BY <2>2, <2>3, <2>4
<1> QED BY <1>1, <1>2, <1>3, <1>4, <1>6 DEF EntriesOK, Apart

(* A step of the lists alone.                                              *)
LEMMA SameEntries ==
    ASSUME EntriesOK, Apart, entry' = entry,
           \A e \in Entries : \A b \in Range(free') \cup Range(chain') :
               b \in Range(free) \cup Range(chain) \/ b \notin HeldBy(entry[e])
    PROVE  EntriesOK' /\ Apart'
<1>1. EntriesOK'
  BY DEF EntriesOK
<1>2. \A e \in Entries : HeldBy(entry[e]) \cap (Range(free') \cup Range(chain')) = {}
  BY DEF Apart
<1> QED BY <1>1, <1>2 DEF Apart

(* The buffers of the entries keep their audio when others are changed.    *)
LEMMA KeepData ==
    ASSUME EntriesOK, DataOK,
           \A e \in Entries : \A b \in HeldBy(entry[e]) : data'[b] = data[b]
    PROVE  \A e \in Entries : Loaded(entry[e].curr, data') /\ Loaded(entry[e].next, data')
<1>1. SUFFICES ASSUME NEW e \in Entries
               PROVE  Loaded(entry[e].curr, data') /\ Loaded(entry[e].next, data')
  OBVIOUS
<1>2. PICK s, t : s = entry[e].curr /\ t = entry[e].next
  OBVIOUS
<1>3. s \in Seq(Buffers) /\ t \in Seq(Buffers)
  BY <1>2, EntryIs
<1>4. Loaded(s, data) /\ Loaded(t, data)
  BY <1>2 DEF DataOK
<1>5. s # None => s[1] \in HeldBy(entry[e])
  BY <1>2, <1>3, EmptyRange, RangeIs DEF HeldBy
<1>6. t # None => t[1] \in HeldBy(entry[e])
  BY <1>2, <1>3, EmptyRange, RangeIs DEF HeldBy
<1> QED BY <1>2, <1>4, <1>5, <1>6 DEF Loaded

(* A step that touches neither buffers nor entries.                        *)
LEMMA Quiet ==
    ASSUME PInv, free' = free, chain' = chain, data' = data, entry' = entry,
           pc # "unlink", pc' \notin {"unlink", "place", "store"}
    PROVE  ListsOK' /\ EntriesOK' /\ Apart' /\ DataOK'
<1>1. ListsOK'
  BY Disjoint, DisjointAfter DEF PInv, ListsOK
<1>2. EntriesOK' /\ Apart'
  BY DEF PInv, EntriesOK, Apart
<1>3. DataOK'
  BY DEF PInv, DataOK
<1> QED BY <1>1, <1>2, <1>3

-----------------------------------------------------------------------------
(* The steps of the main loop.                                             *)

(* The first state.                                                        *)
LEMMA InitOK == Init => PInv
<1>1. SUFFICES ASSUME Init PROVE PInv
  OBVIOUS
<1>2. ListsOK
  BY <1>1, EmptyList DEF Init, ListsOK, Taken
<1>3. EntryOK(NullEntry) /\ HeldBy(NullEntry) = {}
  <2>1. 0 \in 0..Chunks /\ 0 <= Chain
    BY ChunkAssumption
  <2>2. NullEntry.curr = None /\ NullEntry.next = None /\ None \in Seq(Buffers)
    BY EmptyList DEF NullEntry, NoDup
  <2>3. NullEntry \in EntryRec
    BY <2>1, <2>2 DEF NullEntry, EntryRec
  <2> QED BY <2>1, <2>2, <2>3, EmptyList DEF EntryOK, HeldBy
<1>4. EntriesOK
  BY <1>1, <1>3 DEF Init, EntriesOK
<1>5. Apart
  BY <1>1, <1>3, EmptyList DEF Init, Apart
<1>6. DataOK
  BY <1>1, ChunkAssumption DEF Init, DataOK, Loaded, NullEntry
<1>7. Control
  BY <1>1 DEF Init, Control
<1>8. CountersOK
  <2>1. None \in Seq(1..Chunks)
    BY DEF None
  <2>2. 0 \in -Width..(Width - 1)
    BY WidthAssumption
  <2>3. played = [e \in Entries |-> None] /\ nbuffers = 0 /\ needs_update = FALSE
    BY <1>1 DEF Init
  <2>4. played \in [Entries -> Seq(1..Chunks)]
    BY <2>1, <2>3
  <2> QED BY <2>2, <2>3, <2>4 DEF CountersOK
<1> QED BY <1>2, <1>4, <1>5, <1>6, <1>7, <1>8 DEF PInv

(* The steps that only count, look or decide.                              *)
LEMMA LookOK ==
    ASSUME PInv,
           CountRead \/ CountWrite \/ Visit \/ DestroyRead \/ DestroyCount
             \/ DestroyLink \/ Walk \/ Update \/ Serve
    PROVE  PInv'
<1>1. /\ free' = free /\ chain' = chain /\ data' = data /\ entry' = entry
      /\ pc # "unlink" /\ pc' \notin {"unlink", "place", "store"} /\ played' = played
  BY DEF CountRead, CountWrite, Visit, DestroyRead, DestroyCount, DestroyLink, Walk,
         Update, Serve, local
<1>2. ListsOK' /\ EntriesOK' /\ Apart' /\ DataOK'
  BY <1>1, Quiet
<1>3. nbuffers \in Int
  BY WidthAssumption DEF PInv, CountersOK
<1>4. pc \in {"uncount", "recount"} => Head(seen) - 1 \in Int /\ Head(seen) + 1 \in Int
  BY DEF PInv, Control
<1>5. nbuffers' \in -Width..(Width - 1)
  <2>1. CASE CountWrite
    BY <1>4, <2>1, WrappedTyped DEF CountWrite
  <2>2. CASE DestroyCount
    BY <1>4, <2>2, WrappedTyped DEF DestroyCount
  <2>3. CASE ~CountWrite /\ ~DestroyCount
    BY <2>3 DEF PInv, CountersOK, CountRead, Visit, DestroyRead, DestroyLink, Walk,
                Update, Serve
  <2> QED BY <2>1, <2>2, <2>3
<1>6. CountersOK'
  BY <1>1, <1>5 DEF PInv, CountersOK, CountRead, CountWrite, Visit, DestroyRead,
                    DestroyCount, DestroyLink, Walk, Update, Serve
<1>7. Control'
  <2>1. CASE CountRead
    <3>1. Head(<<nbuffers>>) \in Int
      BY <1>3
    <3> QED BY <1>1, <2>1, <3>1 DEF PInv, Control, CountRead, local
  <2>2. CASE CountWrite
    BY <1>1, <2>2 DEF PInv, Control, CountWrite, local
  <2>3. CASE Visit
    <3>1. chain = None /\ Len(chain) < Chain
      BY <2>3, EmptyList, ChunkAssumption DEF PInv, Control, Visit
    <3> QED BY <1>1, <2>3, <3>1 DEF PInv, Control, Visit, local
  <2>4. CASE DestroyRead
    <3>1. Head(<<nbuffers>>) \in Int
      BY <1>3
    <3> QED BY <1>1, <2>4, <3>1 DEF PInv, Control, DestroyRead, local
  <2>5. CASE DestroyCount
    BY <1>1, <2>5 DEF PInv, Control, DestroyCount, local
  <2>6. CASE DestroyLink
    BY <1>1, <2>6 DEF PInv, Control, ListsOK, DestroyLink, local
  <2>7. CASE Walk
    BY <1>1, <2>7 DEF PInv, Control, Walk
  <2>8. CASE Update
    BY <1>1, <2>8 DEF PInv, Control, Update
  <2>9. CASE Serve
    <3>1. chain = None /\ Len(chain) < Chain
      BY <2>9, EmptyList, ChunkAssumption DEF PInv, Control, Serve
    <3> QED BY <1>1, <2>9, <3>1 DEF PInv, Control, Serve
  <2> QED BY <2>1, <2>2, <2>3, <2>4, <2>5, <2>6, <2>7, <2>8, <2>9
<1> QED BY <1>2, <1>6, <1>7 DEF PInv

(* buffer_create asks for memory.                                          *)
LEMMA CreateOK == ASSUME PInv, Create PROVE PInv'
<1>1. /\ pc = "create" /\ Len(chain) < Chain /\ NoDup(chain) /\ NoDup(free)
      /\ Len(chain) \in Nat /\ Chain \in Nat
  BY ChunkAssumption, EmptyRange DEF PInv, Control, ListsOK, Create, NoDup
<1>2. CASE free = None
  <2>1. PICK b : b = Fresh
    OBVIOUS
  <2>2. /\ b \in Buffers /\ b \notin Range(chain)
        /\ \A e \in Entries : b \notin HeldBy(entry[e])
    BY <1>1, <1>2, <2>1, FreshIsFree DEF PInv
  <2>3. /\ chain' = Append(chain, b) /\ data' = [data EXCEPT ![b] = 0]
        /\ pc' = "created" /\ free' = free /\ entry' = entry
    BY <1>2, <2>1 DEF Create
  <2>4. /\ NoDup(chain') /\ Range(chain') = Range(chain) \cup {b}
        /\ Len(chain') = Len(chain) + 1
    BY <1>1, <2>2, <2>3, AppendList
  <2>5. ListsOK'
    BY <1>1, <1>2, <2>3, <2>4, EmptyList, DisjointAfter
  <2>6. EntriesOK' /\ Apart'
    BY <2>2, <2>3, <2>4, SameEntries DEF PInv
  <2>7. data' \in [Buffers -> 0..Chunks]
    <3>1. 0 \in 0..Chunks /\ data \in [Buffers -> 0..Chunks]
      BY ChunkAssumption DEF PInv, DataOK
    <3> QED BY <2>3, <3>1
  <2>8. \A e \in Entries : \A x \in HeldBy(entry[e]) : data'[x] = data[x]
    <3>1. \A x \in Buffers : x # b => data'[x] = data[x]
      BY <2>3 DEF PInv, DataOK
    <3>2. \A e \in Entries : HeldBy(entry[e]) \subseteq Buffers
      BY EntryIs DEF PInv
    <3> QED BY <2>2, <3>1, <3>2
  <2>9. DataOK'
    BY <2>3, <2>7, <2>8, KeepData DEF PInv, DataOK
  <2>10. Control'
    <3>1. Len(chain') <= Chain
      BY <1>1, <2>4
    <3> QED BY <1>1, <2>3, <3>1 DEF PInv, Control, Create
  <2>11. CountersOK'
    BY DEF PInv, CountersOK, Create
  <2> QED BY <2>5, <2>6, <2>9, <2>10, <2>11 DEF PInv
<1>3. CASE free # None
  <2>1. /\ free' = free /\ chain' = chain /\ data' = data /\ entry' = entry
        /\ pc' = "count"
    BY <1>3 DEF Create
  <2>2. ListsOK' /\ EntriesOK' /\ Apart' /\ DataOK'
    BY <1>1, <2>1, Quiet
  <2>3. Control'
    BY <1>1, <1>3, <2>1 DEF PInv, Control, Create
  <2>4. CountersOK'
    BY DEF PInv, CountersOK, Create
  <2> QED BY <2>2, <2>3, <2>4 DEF PInv
<1> QED BY <1>2, <1>3

(* b = buffers: the head of the list is taken, and is still on the list.   *)
LEMMA ReadHeadOK == ASSUME PInv, ReadHead PROVE PInv'
<1>1. /\ pc = "head" /\ Len(chain) < Chain /\ NoDup(chain) /\ NoDup(free)
      /\ Len(chain) \in Nat /\ Chain \in Nat /\ free # None
      /\ free \in Seq(Buffers) /\ chain \in Seq(Buffers)
  BY ChunkAssumption, EmptyRange DEF PInv, Control, ListsOK, ReadHead, NoDup
<1>2. Range(free) \cap Range(chain) = {}
  BY <1>1, Disjoint DEF PInv
<1>3. PICK b : b = Head(free)
  OBVIOUS
<1>4. b \in Range(free) /\ b \in Buffers /\ b \notin Range(chain)
  BY <1>1, <1>2, <1>3, TailList, EmptyRange
<1>5. /\ chain' = Append(chain, b) /\ free' = free /\ entry' = entry /\ data' = data
      /\ pc' = "unlink"
  BY <1>3 DEF ReadHead
<1>6. /\ NoDup(chain') /\ Range(chain') = Range(chain) \cup {b} /\ chain' # None
      /\ Len(chain') = Len(chain) + 1 /\ chain'[Len(chain')] = b
  BY <1>1, <1>4, <1>5, AppendList
<1>7. Range(Taken') = Range(chain)
  <2>1. Range(Taken') = Range(chain') \ {chain'[Len(chain')]}
    BY <1>5, <1>6, FrontList DEF Taken
  <2> QED BY <1>4, <1>6, <2>1
<1>8. ListsOK'
  BY <1>1, <1>2, <1>5, <1>6, <1>7 DEF ListsOK
<1>9. EntriesOK' /\ Apart'
  BY <1>4, <1>5, <1>6, SameEntries DEF PInv
<1>10. DataOK'
  BY <1>5 DEF PInv, DataOK
<1>11. Control'
  <2>1. Len(chain') <= Chain
    BY <1>1, <1>6
  <2> QED BY <1>1, <1>4, <1>5, <1>6, <2>1 DEF PInv, Control, ReadHead
<1>12. CountersOK'
  BY DEF PInv, CountersOK, ReadHead
<1> QED BY <1>8, <1>9, <1>10, <1>11, <1>12 DEF PInv

(* buffers = buffers->next: the list goes on behind the buffer taken, and  *)
(* what the handler has put before it meanwhile is lost, not shared.       *)
LEMMA UnlinkHeadOK == ASSUME PInv, UnlinkHead, ~Reload PROVE PInv'
<1>1. /\ pc = "unlink" /\ NoDup(chain) /\ NoDup(free) /\ chain # None
      /\ free \in Seq(Buffers) /\ chain \in Seq(Buffers)
      /\ Len(chain) <= Chain /\ Len(chain) \in Nat
  BY EmptyRange DEF PInv, Control, ListsOK, UnlinkHead, NoDup
<1>2. PICK b : b = chain[Len(chain)]
  OBVIOUS
<1>3. b \in Range(free) /\ b \in Range(chain)
  <2>1. Len(chain) # 0
    BY <1>1, EmptyRange
  <2> QED BY <1>1, <1>2, <2>1, RangeIs DEF PInv, Control
<1>4. Range(free) \cap (Range(chain) \ {b}) = {}
  <2>1. Range(Taken) = Range(chain) \ {b}
    BY <1>1, <1>2, FrontList DEF Taken
  <2> QED BY <2>1 DEF PInv, ListsOK
<1>5. PICK k : k = CHOOSE i \in 1..Len(free) : free[i] = b
  OBVIOUS
<1>6. k \in 1..Len(free) /\ free[k] = b
  <2>1. \E i \in 1..Len(free) : free[i] = b
    BY <1>1, <1>3, RangeIs
  <2> QED BY <1>5, <2>1
<1>7. /\ free' = SubSeq(free, k + 1, Len(free)) /\ data' = [data EXCEPT ![b] = 0]
      /\ pc' = "created" /\ chain' = chain /\ entry' = entry
  BY <1>2, <1>5 DEF UnlinkHead, After, local
<1>8. NoDup(free') /\ Range(free') \subseteq Range(free) \ {b}
  BY <1>1, <1>6, <1>7, RestList
<1>9. ListsOK'
  BY <1>1, <1>4, <1>7, <1>8, DisjointAfter
<1>10. EntriesOK' /\ Apart'
  BY <1>7, <1>8, SameEntries DEF PInv
<1>11. data' \in [Buffers -> 0..Chunks]
  <2>1. 0 \in 0..Chunks /\ data \in [Buffers -> 0..Chunks]
    BY ChunkAssumption DEF PInv, DataOK
  <2> QED BY <1>7, <2>1
<1>12. \A e \in Entries : \A x \in HeldBy(entry[e]) : data'[x] = data[x]
  <2>1. \A x \in Buffers : x # b => data'[x] = data[x]
    BY <1>7 DEF PInv, DataOK
  <2>2. \A e \in Entries : HeldBy(entry[e]) \subseteq Buffers
    BY EntryIs DEF PInv
  <2>3. \A e \in Entries : b \notin HeldBy(entry[e])
    BY <1>3 DEF PInv, Apart
  <2> QED BY <2>1, <2>2, <2>3
<1>13. DataOK'
  BY <1>7, <1>11, <1>12, KeepData DEF PInv, DataOK
<1>14. Control'
  BY <1>1, <1>7 DEF PInv, Control, UnlinkHead, local
<1>15. CountersOK'
  BY DEF PInv, CountersOK, UnlinkHead
<1> QED BY <1>9, <1>10, <1>13, <1>14, <1>15 DEF PInv

(* Enough, or another buffer; a reply has what it wants.                   *)
LEMMA CreatedOK == ASSUME PInv, Created PROVE PInv'
<1>1. /\ pc = "created" /\ NoDup(chain) /\ NoDup(free) /\ Len(chain) \in Nat
      /\ Chain \in Nat /\ Len(chain) <= Chain
      /\ free' = free /\ data' = data /\ entry' = entry /\ cur' = cur /\ todo' = todo
  BY ChunkAssumption, EmptyRange DEF PInv, Control, ListsOK, Created, NoDup
<1>2. CountersOK'
  BY DEF PInv, CountersOK, Created
<1>3. CASE cur = Reply
  <2>1. pc' = "idle" /\ chain' = None
    BY <1>3 DEF Created
  <2>2. NoDup(chain') /\ Range(chain') = {}
    BY <2>1, EmptyList
  <2>3. ListsOK'
    BY <1>1, <2>1, <2>2, DisjointAfter
  <2>4. EntriesOK' /\ Apart'
    BY <1>1, <2>2, SameEntries DEF PInv
  <2>5. DataOK'
    BY <1>1, <2>1 DEF PInv, DataOK
  <2>6. Control'
    BY <1>1, <2>1 DEF PInv, Control
  <2> QED BY <1>2, <2>3, <2>4, <2>5, <2>6 DEF PInv
<1>4. CASE cur # Reply
  <2>1. chain' = chain /\ pc' = IF Len(chain) < Chain THEN "create" ELSE "fill"
    BY <1>4 DEF Created
  <2>2. ListsOK' /\ EntriesOK' /\ Apart' /\ DataOK'
    BY <1>1, <2>1, Quiet
  <2>3. Control'
    BY <1>1, <1>4, <2>1 DEF PInv, Control
  <2> QED BY <1>2, <2>2, <2>3 DEF PInv
<1> QED BY <1>3, <1>4

(* sound_fill takes what is left of the sound, and no more than fits.      *)
LEMMA AmountIs ==
    ASSUME NEW n \in EntryRec
    PROVE  /\ Amount(n) \in Nat /\ Amount(n) <= Chain
           /\ n.read + Amount(n) \in 0..Chunks
<1>1. n.read \in 0..Chunks /\ Chunks \in Nat /\ Chain \in Nat
  BY ChunkAssumption DEF EntryRec
<1> QED BY <1>1 DEF Amount

(* An entry with another si or another amount read is the same otherwise.  *)
LEMMA ReadOn ==
    ASSUME NEW n, EntryOK(n), NEW r \in 0..Chunks, NEW q \in {"null", "open", "eof"}
    PROVE  /\ EntryOK([n EXCEPT !.read = r, !.si = q])
           /\ [n EXCEPT !.read = r, !.si = q].curr = n.curr
           /\ [n EXCEPT !.read = r, !.si = q].next = n.next
           /\ HeldBy([n EXCEPT !.read = r, !.si = q]) = HeldBy(n)
<1>1. PICK m : m = [n EXCEPT !.read = r, !.si = q]
  OBVIOUS
<1>2. n \in EntryRec
  BY DEF EntryOK
<1>3. m = [state |-> n.state, curr |-> n.curr, next |-> n.next, si |-> q, read |-> r]
  BY <1>1, <1>2 DEF EntryRec
<1>4. m \in EntryRec /\ m.curr = n.curr /\ m.next = n.next
  BY <1>2, <1>3 DEF EntryRec
<1>5. EntryOK(m) /\ HeldBy(m) = HeldBy(n)
  BY <1>4 DEF EntryOK, HeldBy
<1> QED BY <1>1, <1>4, <1>5

(* sound_fill: nothing is left, or the chain gets the next chunks.         *)
LEMMA FillOK == ASSUME PInv, Fill PROVE PInv'
<1>1. /\ pc = "fill" /\ cur \in Entries /\ NoDup(chain) /\ NoDup(free)
      /\ chain \in Seq(Buffers) /\ Len(chain) = Chain /\ Chain \in Nat \ {0}
      /\ free' = free /\ cur' = cur /\ todo' = todo
  BY ChunkAssumption DEF PInv, Control, ListsOK, Fill, NoDup
<1>2. Range(free) \cap Range(chain) = {}
  BY <1>1, Disjoint DEF PInv
<1>3. PICK old : old = entry[cur]
  OBVIOUS
<1>4. EntryOK(old) /\ old \in EntryRec /\ DOMAIN entry = Entries
  BY <1>1, <1>3 DEF PInv, EntriesOK, EntryOK
<1>5. PICK n : n = Amount(old)
  OBVIOUS
<1>6. /\ n \in Nat /\ n <= Chain /\ old.read + n \in 0..Chunks
      /\ old.read \in 0..Chunks /\ old.si \in {"null", "open", "eof"} /\ Chunks \in Nat
  BY <1>4, <1>5, AmountIs, ChunkAssumption DEF EntryRec
<1>7. data' = [b \in Buffers |->
                  IF \E i \in 1..n : chain[i] = b
                  THEN old.read + (CHOOSE i \in 1..n : chain[i] = b)
                  ELSE data[b]]
  BY <1>3, <1>5 DEF Fill
<1>8. \A b \in Buffers : (\E i \in 1..n : chain[i] = b) => data'[b] \in 1..Chunks
  <2>1. SUFFICES ASSUME NEW b \in Buffers, \E i \in 1..n : chain[i] = b
                 PROVE  data'[b] \in 1..Chunks
    OBVIOUS
  <2>2. PICK k : k = CHOOSE i \in 1..n : chain[i] = b
    OBVIOUS
  <2>3. k \in 1..n
    BY <2>1, <2>2
  <2>4. data'[b] = old.read + k
    BY <1>7, <2>1, <2>2
  <2> QED BY <1>6, <2>3, <2>4
<1>9. \A b \in Buffers : ~(\E i \in 1..n : chain[i] = b) => data'[b] = data[b]
  BY <1>7
<1>10. data' \in [Buffers -> 0..Chunks]
  <2>1. data \in [Buffers -> 0..Chunks]
    BY DEF PInv, DataOK
  <2>2. \A b \in Buffers : data'[b] \in 0..Chunks
    BY <1>6, <1>8, <1>9, <2>1
  <2>3. DOMAIN data' = Buffers /\ data' = [b \in Buffers |-> data'[b]]
    BY <1>7
  <2> QED BY <2>2, <2>3
<1>11. \A e \in Entries : \A b \in HeldBy(entry[e]) : data'[b] = data[b]
  <2>1. SUFFICES ASSUME NEW e \in Entries, NEW b \in HeldBy(entry[e])
                 PROVE  data'[b] = data[b]
    OBVIOUS
  <2>2. b \in Buffers
    BY EntryIs DEF PInv
  <2>3. b \notin Range(chain)
    BY DEF PInv, Apart
  <2>4. \A i \in 1..n : i \in 1..Len(chain)
    BY <1>1, <1>6
  <2>5. ~(\E i \in 1..n : chain[i] = b)
    BY <1>1, <2>3, <2>4, RangeIs
  <2> QED BY <1>9, <2>2, <2>5
<1>12. \A e \in Entries : Loaded(entry[e].curr, data') /\ Loaded(entry[e].next, data')
  BY <1>11, KeepData DEF PInv
<1>13. CountersOK'
  BY DEF PInv, CountersOK, Fill
<1>14. ASSUME NEW r \in 0..Chunks, NEW q \in {"null", "open", "eof"},
              entry' = [entry EXCEPT ![cur] = [old EXCEPT !.read = r, !.si = q]],
              Range(chain') \subseteq Range(chain)
       PROVE  /\ EntriesOK' /\ Apart'
              /\ \A e \in Entries : Loaded(entry'[e].curr, data')
                                    /\ Loaded(entry'[e].next, data')
  <2>1. PICK m : m = [old EXCEPT !.read = r, !.si = q]
    OBVIOUS
  <2>2. EntryOK(m) /\ m.curr = old.curr /\ m.next = old.next /\ HeldBy(m) = HeldBy(old)
    BY <1>4, <1>14, <2>1, ReadOn
  <2>3. HeldBy(old) \cap (Range(free) \cup Range(chain)) = {}
    BY <1>1, <1>3 DEF PInv, Apart
  <2>4. /\ HeldBy(m) \subseteq HeldBy(entry[cur]) \cup Range(chain)
        /\ HeldBy(m) \cap (Range(free') \cup Range(chain')) = {}
        /\ Range(free') \cup Range(chain')
             \subseteq Range(free) \cup Range(chain) \cup HeldBy(entry[cur])
    BY <1>1, <1>3, <1>14, <2>2, <2>3
  <2>5. entry' = [entry EXCEPT ![cur] = m]
    BY <1>14, <2>1
  <2>6. /\ EntriesOK' /\ Apart' /\ entry'[cur] = m
        /\ \A e \in Entries : e # cur => entry'[e] = entry[e]
    BY <1>1, <2>2, <2>4, <2>5, OneEntry DEF PInv
  <2>7. \A e \in Entries : entry'[e].curr = entry[e].curr /\ entry'[e].next = entry[e].next
    BY <1>3, <2>2, <2>6
  <2> QED BY <1>12, <2>6, <2>7
<1>15. CASE n = 0
  <2>1. /\ chain' = None /\ pc' = "next"
        /\ entry' = [entry EXCEPT ![cur].si = "null"]
    BY <1>3, <1>5, <1>15 DEF Fill
  <2>2. [old EXCEPT !.si = "null"] = [old EXCEPT !.read = old.read, !.si = "null"]
    BY <1>4 DEF EntryRec
  <2>3. entry' = [entry EXCEPT ![cur] = [old EXCEPT !.read = old.read, !.si = "null"]]
    BY <1>3, <2>1, <2>2
  <2>4. NoDup(chain') /\ Range(chain') = {}
    BY <2>1, EmptyList
  <2>5. /\ EntriesOK' /\ Apart'
        /\ \A e \in Entries : Loaded(entry'[e].curr, data') /\ Loaded(entry'[e].next, data')
    BY <1>6, <1>14, <2>3, <2>4
  <2>6. ListsOK'
    BY <1>1, <2>1, <2>4, DisjointAfter
  <2>7. DataOK'
    BY <1>10, <2>1, <2>5 DEF DataOK
  <2>8. Control'
    BY <1>1, <2>1 DEF PInv, Control
  <2> QED BY <1>13, <2>5, <2>6, <2>7, <2>8 DEF PInv
<1>16. CASE n # 0
  <2>1. PICK q : q = IF Cached /\ old.read + n = Chunks THEN "eof" ELSE old.si
    OBVIOUS
  <2>2. /\ chain' = chain /\ pc' = "place"
        /\ entry' = [entry EXCEPT ![cur].read = @ + n,
                                  ![cur].si = IF Cached /\ old.read + n = Chunks
                                              THEN "eof" ELSE @]
    BY <1>3, <1>5, <1>16 DEF Fill
  <2>3. entry' = [entry EXCEPT ![cur] = [old EXCEPT !.read = old.read + n, !.si = q]]
    BY <1>1, <1>3, <1>4, <2>1, <2>2
  <2>4. q \in {"null", "open", "eof"}
    BY <1>6, <2>1
  <2>5. /\ EntriesOK' /\ Apart'
        /\ \A e \in Entries : Loaded(entry'[e].curr, data') /\ Loaded(entry'[e].next, data')
    BY <1>6, <1>14, <2>2, <2>3, <2>4
  <2>6. ListsOK'
    BY <1>1, <1>2, <2>2, DisjointAfter
  <2>7. Loaded(chain, data')
    <3>1. 1 \in 1..n /\ 1 \in 1..Len(chain)
      BY <1>1, <1>6, <1>16
    <3>2. chain[1] \in Buffers
      BY <1>1, <3>1
    <3> QED BY <1>8, <3>1, <3>2 DEF Loaded
  <2>8. DataOK'
    BY <1>10, <2>2, <2>5, <2>7 DEF DataOK
  <2>9. Control'
    BY <1>1, <2>2 DEF PInv, Control
  <2> QED BY <1>13, <2>5, <2>6, <2>8, <2>9 DEF PInv
<1> QED BY <1>15, <1>16

(* An entry with other chains.                                             *)
Rechained(n, c, t) == [n EXCEPT !.curr = c, !.next = t]

(* It keeps one of them if only the other changes.                         *)
LEMMA OneChain ==
    ASSUME NEW n \in EntryRec
    PROVE  /\ \A c : [n EXCEPT !.curr = c] = Rechained(n, c, n.next)
           /\ \A t : [n EXCEPT !.next = t] = Rechained(n, n.curr, t)
BY DEF EntryRec, Rechained

(* It is an entry if its chains are.                                       *)
LEMMA WithChains ==
    ASSUME NEW n, EntryOK(n), NEW c, NoDup(c), NEW t, NoDup(t),
           Range(c) \cap Range(t) = {}, Len(c) <= Chain, Len(t) <= Chain
    PROVE  /\ EntryOK(Rechained(n, c, t))
           /\ Rechained(n, c, t).curr = c /\ Rechained(n, c, t).next = t
           /\ HeldBy(Rechained(n, c, t)) = Range(c) \cup Range(t)
<1>1. PICK m : m = Rechained(n, c, t)
  OBVIOUS
<1>2. n \in EntryRec /\ c \in Seq(Buffers) /\ t \in Seq(Buffers)
  BY DEF EntryOK, NoDup
<1>3. m = [state |-> n.state, curr |-> c, next |-> t, si |-> n.si, read |-> n.read]
  BY <1>1, <1>2 DEF EntryRec, Rechained
<1>4. m \in EntryRec /\ m.curr = c /\ m.next = t
  BY <1>2, <1>3 DEF EntryRec
<1>5. EntryOK(m) /\ HeldBy(m) = Range(c) \cup Range(t)
  BY <1>4 DEF EntryOK, HeldBy
<1> QED BY <1>1, <1>4, <1>5

(* The chain becomes curr_buffer or next_buffer.  The place it takes may   *)
(* have been emptied by the handler since it was looked at; what is there  *)
(* is dropped, not shared.                                                 *)
LEMMA PlaceOK == ASSUME PInv, Place \/ Store PROVE PInv'
<1>1. /\ pc \in {"place", "store"} /\ cur \in Entries /\ NoDup(chain) /\ NoDup(free)
      /\ Len(chain) <= Chain /\ Loaded(chain, data)
      /\ free' = free /\ data' = data /\ cur' = cur /\ todo' = todo
  BY DEF PInv, Control, ListsOK, DataOK, Place, Store
<1>2. Range(free) \cap Range(chain) = {}
  BY <1>1, Disjoint DEF PInv
<1>3. CountersOK'
  BY DEF PInv, CountersOK, Place, Store
<1>4. PICK old : old = entry[cur]
  OBVIOUS
<1>5. /\ EntryOK(old) /\ NoDup(old.curr) /\ NoDup(old.next)
      /\ Range(old.curr) \cap Range(old.next) = {}
      /\ Len(old.curr) <= Chain /\ Len(old.next) <= Chain
      /\ Loaded(old.curr, data) /\ Loaded(old.next, data)
  BY <1>1, <1>4 DEF PInv, EntriesOK, EntryOK, DataOK
<1>6. HeldBy(old) \cap (Range(free) \cup Range(chain)) = {}
  BY <1>1, <1>4 DEF PInv, Apart
<1>7. ASSUME NEW m, entry' = [entry EXCEPT ![cur] = m], EntryOK(m),
             HeldBy(m) \subseteq HeldBy(old) \cup Range(chain),
             Loaded(m.curr, data), Loaded(m.next, data),
             chain' = None, pc' = "next"
      PROVE  PInv'
  <2>1. NoDup(chain') /\ Range(chain') = {}
    BY <1>7, EmptyList
  <2>2. ListsOK'
    BY <1>1, <1>7, <2>1, DisjointAfter
  <2>3. /\ HeldBy(m) \subseteq HeldBy(entry[cur]) \cup Range(chain)
        /\ HeldBy(m) \cap (Range(free') \cup Range(chain')) = {}
        /\ Range(free') \cup Range(chain')
             \subseteq Range(free) \cup Range(chain) \cup HeldBy(entry[cur])
    BY <1>1, <1>2, <1>4, <1>6, <1>7, <2>1
  <2>4. /\ EntriesOK' /\ Apart' /\ entry'[cur] = m
        /\ \A e \in Entries : e # cur => entry'[e] = entry[e]
    BY <1>1, <1>7, <2>3, OneEntry DEF PInv
  <2>5. DataOK'
    BY <1>1, <1>7, <2>4 DEF PInv, DataOK
  <2>6. Control'
    BY <1>1, <1>7 DEF PInv, Control, Place, Store
  <2> QED BY <1>3, <2>2, <2>4, <2>5, <2>6 DEF PInv
<1>8. CASE Place /\ old.curr = None
  <2>1. Range(chain) \cap Range(old.next) = {}
    BY <1>6 DEF HeldBy
  <2>5. PICK t : t = old.next
    OBVIOUS
  <2>6. NoDup(t) /\ Range(chain) \cap Range(t) = {} /\ Len(t) <= Chain
    BY <1>5, <2>1, <2>5
  <2>7. PICK m : m = Rechained(old, chain, t)
    OBVIOUS
  <2>8. m = [old EXCEPT !.curr = chain]
    BY <1>5, <2>5, <2>7, OneChain DEF EntryOK
  <2>2. /\ EntryOK(m) /\ m.curr = chain /\ m.next = t
        /\ HeldBy(m) = Range(chain) \cup Range(t)
    BY <1>1, <1>5, <2>6, <2>7, WithChains
  <2>3. entry' = [entry EXCEPT ![cur] = m] /\ chain' = None /\ pc' = "next"
    BY <1>4, <1>8, <2>8 DEF Place
  <2>4. HeldBy(m) \subseteq HeldBy(old) \cup Range(chain)
    BY <2>2, <2>5 DEF HeldBy
  <2> QED BY <1>1, <1>5, <1>7, <2>2, <2>3, <2>4, <2>5
<1>9. CASE Place /\ old.curr # None
  <2>1. entry' = entry /\ chain' = chain /\ pc' = "store"
    BY <1>4, <1>9 DEF Place
  <2>2. ListsOK'
    BY <1>1, <1>2, <2>1, DisjointAfter
  <2>3. EntriesOK' /\ Apart'
    BY <1>1, <2>1 DEF PInv, EntriesOK, Apart
  <2>4. DataOK'
    BY <1>1, <2>1 DEF PInv, DataOK
  <2>5. Control'
    BY <1>1, <2>1 DEF PInv, Control, Place
  <2> QED BY <1>3, <2>2, <2>3, <2>4, <2>5 DEF PInv
<1>10. CASE Store
  <2>1. Range(old.curr) \cap Range(chain) = {}
    BY <1>6 DEF HeldBy
  <2>5. PICK c : c = old.curr
    OBVIOUS
  <2>6. NoDup(c) /\ Range(c) \cap Range(chain) = {} /\ Len(c) <= Chain
    BY <1>5, <2>1, <2>5
  <2>7. PICK m : m = Rechained(old, c, chain)
    OBVIOUS
  <2>8. m = [old EXCEPT !.next = chain]
    BY <1>5, <2>5, <2>7, OneChain DEF EntryOK
  <2>2. /\ EntryOK(m) /\ m.curr = c /\ m.next = chain
        /\ HeldBy(m) = Range(c) \cup Range(chain)
    BY <1>1, <1>5, <2>6, <2>7, WithChains
  <2>3. entry' = [entry EXCEPT ![cur] = m] /\ chain' = None /\ pc' = "next"
    BY <1>4, <1>10, <2>8 DEF Store
  <2>4. HeldBy(m) \subseteq HeldBy(old) \cup Range(chain)
    BY <2>2, <2>5 DEF HeldBy
  <2> QED BY <1>1, <1>5, <1>7, <2>2, <2>3, <2>4, <2>5
<1> QED BY <1>8, <1>9, <1>10

(* A new or a finished entry.                                              *)
LEMMA NullOK ==
    ASSUME NEW n, n = NullEntry \/ n = [NullEntry EXCEPT !.state = "PLAY", !.si = "open"]
    PROVE  EntryOK(n) /\ HeldBy(n) = {} /\ n.curr = None /\ n.next = None
<1>1. 0 \in 0..Chunks /\ 0 <= Chain /\ None \in Seq(Buffers)
  BY ChunkAssumption, EmptyList DEF NoDup
<1>2. \E st \in {"NULL", "PLAY"}, q \in {"null", "open"} :
        n = [state |-> st, curr |-> None, next |-> None, si |-> q, read |-> 0]
  BY DEF NullEntry
<1>3. n \in EntryRec /\ n.curr = None /\ n.next = None
  BY <1>1, <1>2 DEF EntryRec
<1> QED BY <1>1, <1>3, EmptyList DEF EntryOK, HeldBy

(* A sound is over, and its chains are to be given back.                   *)
LEMMA TurnOK == ASSUME PInv, Turn PROVE PInv'
<1>1. /\ pc = "visit" /\ cur \in Entries /\ NoDup(free) /\ chain = None
      /\ free' = free /\ data' = data /\ cur' = cur /\ todo' = todo
      /\ Chain \in Nat
  BY ChunkAssumption DEF PInv, Control, ListsOK, Turn
<1>2. PICK old : old = entry[cur]
  OBVIOUS
<1>3. /\ NoDup(old.curr) /\ NoDup(old.next) /\ Range(old.curr) \cap Range(old.next) = {}
      /\ Len(old.curr) \in Nat /\ Len(old.next) \in Nat
      /\ Len(old.curr) <= Chain /\ Len(old.next) <= Chain
  BY <1>1, <1>2, EntryIs DEF PInv
<1>4. PICK n : n = NullEntry
  OBVIOUS
<1>5. EntryOK(n) /\ HeldBy(n) = {} /\ n.curr = None /\ n.next = None
  BY <1>4, NullOK
<1>6. /\ chain' = old.curr \o old.next /\ entry' = [entry EXCEPT ![cur] = n]
      /\ pc' = IF chain' = None THEN "next" ELSE "more"
  BY <1>2, <1>4 DEF Turn
<1>7. /\ NoDup(chain') /\ Range(chain') = Range(old.curr) \cup Range(old.next)
      /\ Len(chain') = Len(old.curr) + Len(old.next)
  BY <1>3, <1>6, JoinLists
<1>8. Range(chain') = HeldBy(entry[cur])
  BY <1>2, <1>7 DEF HeldBy
<1>9. HeldBy(entry[cur]) \cap Range(free) = {}
  BY <1>1 DEF PInv, Apart
<1>10. ListsOK'
  BY <1>1, <1>6, <1>7, <1>8, <1>9, DisjointAfter
<1>11. /\ EntriesOK' /\ Apart' /\ entry'[cur] = n
       /\ \A e \in Entries : e # cur => entry'[e] = entry[e]
  <2>1. /\ HeldBy(n) \subseteq HeldBy(entry[cur]) \cup Range(chain)
        /\ HeldBy(n) \cap (Range(free') \cup Range(chain')) = {}
        /\ Range(free') \cup Range(chain')
             \subseteq Range(free) \cup Range(chain) \cup HeldBy(entry[cur])
    BY <1>1, <1>5, <1>8
  <2> QED BY <1>1, <1>5, <1>6, <2>1, OneEntry DEF PInv
<1>12. DataOK'
  <2>1. Loaded(n.curr, data) /\ Loaded(n.next, data)
    BY <1>5 DEF Loaded
  <2> QED BY <1>1, <1>6, <1>11, <2>1 DEF PInv, DataOK
<1>13. Control'
  <2>2. PICK k \in Nat, l \in Nat : k = Len(old.curr) /\ l = Len(old.next)
    BY <1>3
  <2>3. k <= Chain /\ l <= Chain /\ Len(chain') = k + l /\ Chain \in Nat
    BY <1>1, <1>3, <1>7, <2>2
  <2>1. Len(chain') <= 2 * Chain
    BY <2>3
  <2> QED BY <1>1, <1>6, <2>1 DEF PInv, Control
<1>14. CountersOK'
  BY DEF PInv, CountersOK, Turn
<1> QED BY <1>10, <1>11, <1>12, <1>13, <1>14 DEF PInv

(* buffers = b: the list becomes b and what the list was when b->next was  *)
(* set; what the handler has added meanwhile is lost, not shared.          *)
LEMMA DestroyHeadOK == ASSUME PInv, DestroyHead PROVE PInv'
<1>1. /\ pc = "linked" /\ NoDup(free) /\ NoDup(chain) /\ chain # None /\ NoDup(seen)
      /\ Range(seen) \subseteq Range(free) /\ Len(chain) <= 2 * Chain
      /\ chain \in Seq(Buffers) /\ Len(chain) \in Nat \ {0} /\ Chain \in Nat
      /\ data' = data /\ entry' = entry /\ cur' = cur /\ todo' = todo
  BY ChunkAssumption, EmptyRange DEF PInv, Control, ListsOK, DestroyHead, NoDup
<1>2. Range(free) \cap Range(chain) = {}
  BY <1>1, Disjoint DEF PInv
<1>3. PICK b : b = Head(chain)
  OBVIOUS
<1>4. /\ free' = <<b>> \o seen /\ chain' = Tail(chain)
      /\ pc' = IF Len(chain) = 1 THEN "next" ELSE "more"
  BY <1>3 DEF DestroyHead
<1>5. /\ NoDup(chain') /\ b \in Range(chain) /\ Range(chain') = Range(chain) \ {b}
      /\ Len(chain') = Len(chain) - 1
  BY <1>1, <1>3, <1>4, TailList
<1>6. b \in Buffers
  BY <1>1, <1>5, EmptyRange
<1>7. PICK u : u = <<b>>
  OBVIOUS
<1>8. NoDup(u) /\ Range(u) = {b}
  BY <1>6, <1>7, OneBuffer
<1>9. Range(u) \cap Range(seen) = {}
  BY <1>1, <1>2, <1>5, <1>8
<1>10. NoDup(free') /\ Range(free') = {b} \cup Range(seen)
  BY <1>1, <1>4, <1>7, <1>8, <1>9, JoinLists
<1>11. ListsOK'
  BY <1>1, <1>2, <1>4, <1>5, <1>10, DisjointAfter
<1>12. EntriesOK' /\ Apart'
  BY <1>1, <1>5, <1>10, SameEntries DEF PInv
<1>13. DataOK'
  BY <1>1, <1>4 DEF PInv, DataOK
<1>14. Control'
  <2>3. chain' \in Seq(Buffers)
    BY <1>5 DEF NoDup
  <2>4. chain' = None <=> Len(chain') = 0
    BY <2>3, EmptyRange
  <2>1. chain' = None <=> Len(chain) = 1
    BY <1>1, <1>5, <2>4
  <2>2. Len(chain') <= 2 * Chain
    BY <1>1, <1>5
  <2> QED BY <1>1, <1>4, <2>1, <2>2 DEF PInv, Control
<1>15. CountersOK'
  BY DEF PInv, CountersOK, DestroyHead
<1> QED BY <1>11, <1>12, <1>13, <1>14, <1>15 DEF PInv

(* A new request.                                                          *)
LEMMA PlayOK == ASSUME PInv, NEW e \in Entries, Play(e) PROVE PInv'
<1>1. /\ pc = "idle" /\ NoDup(free) /\ NoDup(chain)
      /\ free' = free /\ chain' = chain /\ data' = data /\ cur' = cur /\ todo' = todo
      /\ pc' = pc
  BY DEF PInv, ListsOK, Play, local
<1>2. PICK n : n = [NullEntry EXCEPT !.state = "PLAY", !.si = "open"]
  OBVIOUS
<1>3. EntryOK(n) /\ HeldBy(n) = {} /\ n.curr = None /\ n.next = None
  BY <1>2, NullOK
<1>4. entry' = [entry EXCEPT ![e] = n]
  BY <1>2 DEF Play
<1>5. ListsOK'
  BY <1>1, Disjoint, DisjointAfter DEF PInv
<1>6. /\ EntriesOK' /\ Apart' /\ entry'[e] = n
      /\ \A f \in Entries : f # e => entry'[f] = entry[f]
  <2>1. /\ HeldBy(n) \subseteq HeldBy(entry[e]) \cup Range(chain)
        /\ HeldBy(n) \cap (Range(free') \cup Range(chain')) = {}
        /\ Range(free') \cup Range(chain')
             \subseteq Range(free) \cup Range(chain) \cup HeldBy(entry[e])
    BY <1>1, <1>3
  <2> QED BY <1>3, <1>4, <2>1, OneEntry DEF PInv
<1>7. DataOK'
  <2>1. Loaded(n.curr, data) /\ Loaded(n.next, data)
    BY <1>3 DEF Loaded
  <2> QED BY <1>1, <1>6, <2>1 DEF PInv, DataOK
<1>8. Control'
  BY <1>1 DEF PInv, Control
<1>9. CountersOK'
  <2>1. None \in Seq(1..Chunks)
    BY DEF None
  <2>2. /\ played' = [played EXCEPT ![e] = None] /\ needs_update' = TRUE
        /\ nbuffers' = nbuffers
    BY DEF Play
  <2> QED BY <2>1, <2>2 DEF PInv, CountersOK
<1> QED BY <1>5, <1>6, <1>7, <1>8, <1>9 DEF PInv

(* buffer_cleanup.                                                         *)
LEMMA CleanupOK == ASSUME PInv, Cleanup PROVE PInv'
<1>1. /\ pc = "idle" /\ free' = None /\ nbuffers' = 0 /\ NoDup(chain) /\ chain' = chain
      /\ data' = data /\ entry' = entry /\ cur' = cur /\ todo' = todo /\ pc' = pc
      /\ played' = played /\ needs_update' = needs_update
  BY DEF PInv, ListsOK, Cleanup, local
<1>2. NoDup(free') /\ Range(free') = {}
  BY <1>1, EmptyList
<1>3. ListsOK'
  BY <1>1, <1>2, DisjointAfter
<1>4. EntriesOK' /\ Apart'
  BY <1>1, <1>2, SameEntries DEF PInv
<1>5. DataOK'
  BY <1>1 DEF PInv, DataOK
<1>6. Control'
  BY <1>1 DEF PInv, Control
<1>7. CountersOK'
  <2>1. 0 \in -Width..(Width - 1)
    BY WidthAssumption
  <2> QED BY <1>1, <2>1 DEF PInv, CountersOK
<1> QED BY <1>3, <1>4, <1>5, <1>6, <1>7 DEF PInv

-----------------------------------------------------------------------------
(* The timer handler.                                                      *)

(* check_buffers: the handler divides what the entry holds between the     *)
(* entry and the free list, and the entry goes on with audio.              *)
LEMMA AdvancedIs ==
    ASSUME NEW n, EntryOK(n), n.curr # None, data \in [Buffers -> 0..Chunks],
           Loaded(n.next, data)
    PROVE  /\ EntryOK(Advanced(n)) /\ NoDup(GivenBack(n))
           /\ HeldBy(Advanced(n)) \cup Range(GivenBack(n)) = HeldBy(n)
           /\ HeldBy(Advanced(n)) \cap Range(GivenBack(n)) = {}
           /\ Loaded(Advanced(n).curr, data) /\ Loaded(Advanced(n).next, data)
           /\ Len(GivenBack(n)) \in Nat
<1>1. PICK c, t : c = n.curr /\ t = n.next
  OBVIOUS
<1>2. /\ n \in EntryRec /\ NoDup(c) /\ NoDup(t) /\ Range(c) \cap Range(t) = {}
      /\ c \in Seq(Buffers) /\ t \in Seq(Buffers) /\ Len(c) \in Nat /\ Len(t) \in Nat
      /\ Len(c) <= Chain /\ Len(t) <= Chain /\ c # None /\ Chain \in Nat
      /\ HeldBy(n) = Range(c) \cup Range(t)
  BY <1>1, EmptyRange, ChunkAssumption DEF EntryOK, NoDup, HeldBy
<1>3. CASE MoreInChain(n)
  <2>1. /\ NoDup(Tail(c)) /\ Head(c) \in Range(c) /\ Head(c) = c[1]
        /\ Range(Tail(c)) = Range(c) \ {Head(c)} /\ Len(Tail(c)) = Len(c) - 1
        /\ Len(c) > 1 => Tail(c)[1] = c[2]
    BY <1>2, TailList
  <2>2. PICK r : r = Tail(c)
    OBVIOUS
  <2>3. /\ NoDup(r) /\ Range(r) = Range(c) \ {c[1]} /\ Range(r) \cap Range(t) = {}
        /\ Len(r) <= Chain /\ c[1] \in Range(c)
    BY <1>2, <2>1, <2>2
  <2>4. PICK m : m = Rechained(n, r, t)
    OBVIOUS
  <2>5. /\ EntryOK(m) /\ m.curr = r /\ m.next = t /\ HeldBy(m) = Range(r) \cup Range(t)
    BY <1>2, <2>3, <2>4, WithChains
  <2>6. Advanced(n) = m
    <3>1. Advanced(n) = [n EXCEPT !.curr = r]
      BY <1>1, <1>3, <2>2 DEF Advanced
    <3> QED BY <1>1, <1>2, <2>4, <3>1, OneChain
  <2>7. PICK b \in Buffers : b = c[1]
    BY <1>2, <2>3, EmptyRange
  <2>8. PICK g : g = <<b>>
    OBVIOUS
  <2>9. GivenBack(n) = g /\ NoDup(g) /\ Range(g) = {b} /\ Len(g) = 1
    BY <1>1, <1>3, <2>7, <2>8, OneBuffer DEF GivenBack
  <2>10. Loaded(r, data)
    <3>1. Len(c) > 1 /\ data[c[2]] # 0 /\ r[1] = c[2]
      BY <1>1, <1>3, <2>1, <2>2 DEF MoreInChain
    <3>2. 2 \in 1..Len(c)
      BY <1>2, <3>1
    <3>3. c[2] \in Buffers
      BY <1>2, <3>2
    <3>4. data[c[2]] \in 0..Chunks /\ Chunks \in Nat
      BY <3>3, ChunkAssumption
    <3> QED BY <3>1, <3>4 DEF Loaded
  <2>11. b \notin Range(t) /\ b \notin Range(r) /\ Range(c) = Range(r) \cup {b}
    BY <1>2, <2>3, <2>7
  <2>12. /\ HeldBy(m) \cup Range(g) = HeldBy(n) /\ HeldBy(m) \cap Range(g) = {}
    BY <1>2, <2>5, <2>9, <2>11
  <2> QED BY <1>1, <2>5, <2>6, <2>9, <2>10, <2>12
<1>4. CASE ~MoreInChain(n)
  <2>1. PICK z : z = None
    OBVIOUS
  <2>2. NoDup(z) /\ Range(z) = {} /\ Len(z) <= Chain /\ Range(t) \cap Range(z) = {}
    BY <1>2, <2>1, EmptyList
  <2>3. PICK m : m = Rechained(n, t, z)
    OBVIOUS
  <2>4. /\ EntryOK(m) /\ m.curr = t /\ m.next = z /\ HeldBy(m) = Range(t) \cup Range(z)
    <3>1. /\ NoDup(z) /\ Len(z) <= Chain /\ Range(t) \cap Range(z) = {}
          /\ NoDup(t) /\ Len(t) <= Chain
      BY <1>2, <2>2
    <3> QED BY <2>3, <3>1, WithChains
  <2>5. Advanced(n) = m
    BY <1>1, <1>4, <2>1, <2>3 DEF Advanced, Rechained
  <2>6. GivenBack(n) = c
    BY <1>1, <1>4 DEF GivenBack
  <2>7. Loaded(t, data) /\ Loaded(z, data)
    BY <1>1, <2>1 DEF Loaded
  <2>8. HeldBy(m) \cup Range(c) = HeldBy(n) /\ HeldBy(m) \cap Range(c) = {}
    BY <1>2, <2>2, <2>4
  <2> QED BY <1>2, <2>4, <2>5, <2>6, <2>7, <2>8
<1> QED BY <1>3, <1>4

(* The handler may interrupt the main loop anywhere: the list grows by     *)
(* buffers that nobody else has.                                           *)
LEMMA GiveBackLists ==
    ASSUME PInv, NEW g, NoDup(g), NEW e \in Entries, Range(g) \subseteq HeldBy(entry[e]),
           free' = Reverse(g) \o free, chain' = chain, pc' = pc, seen' = seen,
           cur' = cur, todo' = todo
    PROVE  ListsOK' /\ Control' /\ Range(free') = Range(g) \cup Range(free)
<1>1. NoDup(free) /\ NoDup(chain) /\ Range(free) \cap Range(Taken) = {}
  BY DEF PInv, ListsOK
<1>2. HeldBy(entry[e]) \cap (Range(free) \cup Range(chain)) = {}
  BY DEF PInv, Apart
<1>3. PICK r : r = Reverse(g)
  OBVIOUS
<1>4. NoDup(r) /\ Range(r) = Range(g)
  BY <1>3, ReverseList
<1>5. Range(r) \cap Range(free) = {}
  BY <1>2, <1>4
<1>6. NoDup(free') /\ Range(free') = Range(g) \cup Range(free)
  BY <1>1, <1>3, <1>4, <1>5, JoinLists
<1>7. Range(Taken) \subseteq Range(chain)
  <2>1. CASE pc = "unlink"
    <3>1. Range(Taken) = Range(chain) \ {chain[Len(chain)]}
      BY <1>1, <2>1, FrontList DEF Taken, PInv, Control
    <3> QED BY <3>1
  <2>2. CASE pc # "unlink"
    BY <2>2 DEF Taken
  <2> QED BY <2>1, <2>2
<1>8. Taken' = Taken
  BY DEF Taken
<1>9. ListsOK'
  BY <1>1, <1>2, <1>6, <1>7, <1>8 DEF ListsOK
<1>10. free # None => free' # None
  <2>1. free \in Seq(Buffers) /\ free' \in Seq(Buffers)
    BY <1>1, <1>6 DEF NoDup
  <2>2. (free = None <=> Range(free) = {}) /\ (free' = None <=> Range(free') = {})
    BY <2>1, EmptyRange
  <2> QED BY <1>6, <2>2
<1>11. Control'
  BY <1>6, <1>10 DEF PInv, Control
<1> QED BY <1>6, <1>9, <1>11

(* What the handler has played, and what it asks for.                      *)
LEMMA TickCounts ==
    ASSUME PInv, NEW e \in Entries, Tick(e)
    PROVE  played' \in [Entries -> Seq(1..Chunks)] /\ needs_update' \in BOOLEAN
<1>1. needs_update' \in BOOLEAN
  <2>1. needs_update' = TRUE \/ (\E x \in BOOLEAN : needs_update' = x)
    BY DEF Tick
  <2> QED BY <2>1
<1>2. played \in [Entries -> Seq(1..Chunks)]
  BY DEF PInv, CountersOK
<1>3. CASE entry[e].curr = None
  BY <1>1, <1>2, <1>3 DEF Tick
<1>4. CASE entry[e].curr # None
  <2>1. PICK x : x = data[entry[e].curr[1]]
    OBVIOUS
  <2>2. x \in 1..Chunks
    BY <1>4, <2>1 DEF PInv, DataOK, Loaded
  <2>3. played' = [played EXCEPT ![e] = Append(@, x)]
    BY <1>4, <2>1 DEF Tick
  <2>4. PICK w : w = Append(played[e], x)
    OBVIOUS
  <2>5. w \in Seq(1..Chunks)
    <3>1. played[e] \in Seq(1..Chunks)
      BY <1>2
    <3> QED BY <2>2, <2>4, <3>1, AppendProperties
  <2>6. played' = [played EXCEPT ![e] = w]
    BY <2>3, <2>4
  <2>7. PICK T : T = Seq(1..Chunks)
    OBVIOUS
  <2>8. played \in [Entries -> T] /\ w \in T
    BY <1>2, <2>5, <2>7
  <2>9. played' \in [Entries -> T]
    BY <2>6, <2>8
  <2> QED BY <1>1, <2>7, <2>9
<1> QED BY <1>3, <1>4

(* A tick of the timer, between any two steps of the main loop.            *)
LEMMA TickOK == ASSUME PInv, NEW e \in Entries, Tick(e) PROVE PInv'
<1>1. /\ data' = data /\ pc' = pc /\ cur' = cur /\ todo' = todo /\ chain' = chain
      /\ seen' = seen
  BY DEF Tick, local
<1>2. played' \in [Entries -> Seq(1..Chunks)] /\ needs_update' \in BOOLEAN
  BY TickCounts
<1>3. PICK old : old = entry[e]
  OBVIOUS
<1>4. /\ EntryOK(old) /\ old \in EntryRec /\ Loaded(old.curr, data) /\ Loaded(old.next, data)
  BY <1>3 DEF PInv, EntriesOK, EntryOK, DataOK
<1>5. ASSUME free' = free, nbuffers' = nbuffers
      PROVE  ListsOK' /\ Control' /\ CountersOK'
  <2>1. ListsOK'
    BY <1>1, <1>5 DEF PInv, ListsOK, Taken
  <2>2. Control'
    BY <1>1, <1>5 DEF PInv, Control
  <2>3. CountersOK'
    BY <1>2, <1>5 DEF PInv, CountersOK
  <2> QED BY <2>1, <2>2, <2>3
<1>6. CASE old.curr = None
  <2>1. free' = free /\ nbuffers' = nbuffers /\ entry' = entry
    BY <1>3, <1>6 DEF Tick
  <2>2. EntriesOK' /\ Apart'
    BY <1>1, <2>1 DEF PInv, EntriesOK, Apart
  <2>3. DataOK'
    BY <1>1, <2>1 DEF PInv, DataOK
  <2> QED BY <1>5, <2>1, <2>2, <2>3 DEF PInv
<1>7. CASE old.curr # None /\ LastSample(e)
  <2>1. PICK m : m = [old EXCEPT !.state = "NEXT"]
    OBVIOUS
  <2>2. free' = free /\ nbuffers' = nbuffers /\ entry' = [entry EXCEPT ![e] = m]
    BY <1>3, <1>7, <2>1 DEF Tick
  <2>3. m = [state |-> "NEXT", curr |-> old.curr, next |-> old.next, si |-> old.si,
             read |-> old.read]
    BY <1>4, <2>1 DEF EntryRec
  <2>4. m \in EntryRec /\ m.curr = old.curr /\ m.next = old.next
    BY <1>4, <2>3 DEF EntryRec
  <2>5. EntryOK(m) /\ HeldBy(m) = HeldBy(old)
    BY <1>4, <2>4 DEF EntryOK, HeldBy
  <2>6. HeldBy(old) \cap (Range(free) \cup Range(chain)) = {}
    BY <1>3 DEF PInv, Apart
  <2>7. /\ HeldBy(m) \subseteq HeldBy(entry[e]) \cup Range(chain)
        /\ HeldBy(m) \cap (Range(free') \cup Range(chain')) = {}
        /\ Range(free') \cup Range(chain')
             \subseteq Range(free) \cup Range(chain) \cup HeldBy(entry[e])
    BY <1>1, <1>3, <2>2, <2>5, <2>6
  <2>8. /\ EntriesOK' /\ Apart' /\ entry'[e] = m
        /\ \A f \in Entries : f # e => entry'[f] = entry[f]
    BY <2>2, <2>5, <2>7, OneEntry DEF PInv
  <2>9. DataOK'
    <3>1. Loaded(m.curr, data) /\ Loaded(m.next, data)
      BY <1>4, <2>4
    <3> QED BY <1>1, <2>8, <3>1 DEF PInv, DataOK
  <2> QED BY <1>5, <2>2, <2>8, <2>9 DEF PInv
<1>8. CASE old.curr # None /\ ~LastSample(e)
  <2>1. PICK m, g : m = Advanced(old) /\ g = GivenBack(old)
    OBVIOUS
  <2>2. /\ free' = Reverse(g) \o free /\ entry' = [entry EXCEPT ![e] = m]
        /\ nbuffers' = Wrapped(nbuffers + Len(g))
    BY <1>3, <1>8, <2>1 DEF Tick
  <2>3. /\ EntryOK(m) /\ NoDup(g)
        /\ HeldBy(m) \cup Range(g) = HeldBy(old) /\ HeldBy(m) \cap Range(g) = {}
        /\ Loaded(m.curr, data) /\ Loaded(m.next, data) /\ Len(g) \in Nat
    BY <1>4, <1>8, <2>1, AdvancedIs DEF PInv, DataOK
  <2>4. ListsOK' /\ Control' /\ Range(free') = Range(g) \cup Range(free)
    BY <1>1, <1>3, <2>2, <2>3, GiveBackLists
  <2>5. HeldBy(old) \cap (Range(free) \cup Range(chain)) = {}
    BY <1>3 DEF PInv, Apart
  <2>6. /\ HeldBy(m) \subseteq HeldBy(entry[e]) \cup Range(chain)
        /\ HeldBy(m) \cap (Range(free') \cup Range(chain')) = {}
        /\ Range(free') \cup Range(chain')
             \subseteq Range(free) \cup Range(chain) \cup HeldBy(entry[e])
    BY <1>1, <1>3, <2>3, <2>4, <2>5
  <2>7. /\ EntriesOK' /\ Apart' /\ entry'[e] = m
        /\ \A f \in Entries : f # e => entry'[f] = entry[f]
    BY <2>2, <2>3, <2>6, OneEntry DEF PInv
  <2>8. DataOK'
    BY <1>1, <2>3, <2>7 DEF PInv, DataOK
  <2>9. CountersOK'
    <3>1. nbuffers + Len(g) \in Int
      BY <2>3, WidthAssumption DEF PInv, CountersOK
    <3> QED BY <1>2, <2>2, <3>1, WrappedTyped DEF CountersOK
  <2> QED BY <2>4, <2>7, <2>8, <2>9 DEF PInv
<1> QED BY <1>6, <1>7, <1>8

-----------------------------------------------------------------------------
(* The theorems.                                                           *)

(* The invariant is inductive if `buffers' is kept in a register.          *)
LEMMA PInvInductive == ~Reload => (Spec => []PInv)
<1> SUFFICES ASSUME ~Reload PROVE Spec => []PInv
  OBVIOUS
<1>1. ASSUME PInv, [Next]_vars PROVE PInv'
  <2>1. CASE Main
    BY <1>1, <2>1, LookOK, CreateOK, ReadHeadOK, UnlinkHeadOK, CreatedOK, FillOK,
       PlaceOK, TurnOK, DestroyHeadOK DEF Main
  <2>2. CASE Serve
    BY <1>1, <2>2, LookOK
  <2>3. CASE Cleanup
    BY <1>1, <2>3, CleanupOK
  <2>4. CASE \E e \in Entries : Play(e) \/ Tick(e)
    BY <1>1, <2>4, PlayOK, TickOK
  <2>5. CASE UNCHANGED vars
    <3>1. UNCHANGED <<free, nbuffers, data, entry, played, needs_update, pc, cur,
                      todo, chain, seen>>
      BY <2>5 DEF vars
    <3> QED BY <1>1, <3>1 DEF PInv, ListsOK, Taken, EntriesOK, Apart, DataOK, Control,
                             CountersOK
  <2> QED BY <1>1, <2>1, <2>2, <2>3, <2>4, <2>5 DEF Next
<1> QED BY <1>1, InitOK, PTL DEF Spec

(* No buffer has two owners, for every number of entries, of buffers and   *)
(* of buffers in a chain, wherever SIGALRM interrupts the main loop: with  *)
(* a compiler that keeps the global `buffers' in a register through        *)
(* buffers = buffers->next in buffer_create.                               *)
THEOREM BuffersApart == ~Reload => (Spec => []NoAlias)
<1>1. PInv => NoAlias
  <2>1. SUFFICES ASSUME PInv PROVE NoAlias
    OBVIOUS
  <2>2. IsInjective(free) /\ IsInjective(chain) /\ Range(free) \cap Range(Taken) = {}
    BY <2>1 DEF PInv, ListsOK, NoDup
  <2>3. ASSUME NEW e \in Entries
        PROVE  /\ IsInjective(entry[e].curr \o entry[e].next)
               /\ Held(e) \cap (Range(free) \cup Range(chain)) = {}
               /\ \A f \in Entries \ {e} : Held(e) \cap Held(f) = {}
    <3>1. PICK s, t : s = entry[e].curr /\ t = entry[e].next
      OBVIOUS
    <3>2. NoDup(s) /\ NoDup(t) /\ Range(s) \cap Range(t) = {}
      BY <2>1, <3>1, EntryIs DEF PInv
    <3>3. IsInjective(s \o t)
      BY <3>2, JoinLists DEF NoDup
    <3>4. \A f \in Entries : Held(f) = HeldBy(entry[f])
      BY DEF Held, HeldBy
    <3> QED BY <2>1, <3>1, <3>3, <3>4 DEF PInv, Apart
  <2> QED BY <2>2, <2>3 DEF NoAlias
<1> QED BY <1>1, PInvInductive, PTL

(* The free list, the chains, the audio in the buffers and nbuffers are    *)
(* well typed; the handler never plays an empty buffer.                    *)
THEOREM PlaybackTypes == ~Reload => (Spec => []TypeOK)
<1>1. PInv => TypeOK
  <2>1. SUFFICES ASSUME PInv PROVE TypeOK
    OBVIOUS
  <2>2. free \in Seq(Buffers) /\ chain \in Seq(Buffers) /\ Chain \in Nat
    BY <2>1, ChunkAssumption DEF PInv, ListsOK, NoDup
  <2>3. Len(chain) <= 2 * Chain
    <3>1. chain = None => Len(chain) = 0
      BY EmptyList
    <3>2. Len(chain) \in Nat
      BY <2>2
    <3> QED BY <2>1, <2>2, <3>1, <3>2 DEF PInv, Control
  <2>4. ASSUME NEW e \in Entries
        PROVE  /\ entry[e].state \in {"NULL", "PLAY", "NEXT"}
               /\ entry[e].si \in {"null", "open", "eof"}
               /\ entry[e].read \in 0..Chunks
               /\ entry[e].curr \in Seq(Buffers) /\ entry[e].next \in Seq(Buffers)
               /\ Len(entry[e].curr) <= Chain /\ Len(entry[e].next) <= Chain
               /\ played[e] \in Seq(1..Chunks)
    BY <2>1, EntryIs DEF PInv, EntryRec, CountersOK
  <2> QED BY <2>1, <2>2, <2>3, <2>4 DEF TypeOK, PInv, DataOK, Control, CountersOK
<1> QED BY <1>1, PInvInductive, PTL

-----------------------------------------------------------------------------
(* The audio in the buffers.                                               *)

Busy == {"create", "count", "uncount", "head", "unlink", "created", "fill"}

Placing == {"place", "store"}

(* Audio comes first in a chain, and empty buffers behind it.              *)
Packed(c, d) == \A i, j \in 1..Len(c) : i <= j /\ d[c[i]] = 0 => d[c[j]] = 0

(* The chunks 1..r have been heard (p) or wait in the buffers W, once.     *)
Kept(p, d, W, r) ==
    /\ IsInjective(p)
    /\ \A b, c \in W : d[b] # 0 /\ d[b] = d[c] => b = c
    /\ Range(p) \cap Content(d, W) = {}
    /\ Range(p) \cup Content(d, W) = 1..r

AudioOK(e) == entry[e].state = "PLAY" => Kept(played[e], data, Waiting(e), entry[e].read)

Rows ==
    /\ \A e \in Entries : Packed(entry[e].curr, data) /\ Packed(entry[e].next, data)
    /\ pc \in Placing => Packed(chain, data)

(* buffer_create hands out buffers without audio.                          *)
Blank == pc \in Busy => \A b \in Range(Taken) : data[b] = 0

(* The chain that is filled finds its place empty, although the handler    *)
(* may have moved next_buffer to curr_buffer since it was asked for.       *)
OneAhead ==
    /\ pc \in Busy \cup {"place"} /\ cur # Reply =>
           entry[cur].next = None \/ entry[cur].curr = None
    /\ pc \in {"fill", "place", "store"} => cur # Reply
    /\ pc = "store" => entry[cur].next = None

AInv == Rows /\ Blank /\ OneAhead /\ \A e \in Entries : AudioOK(e)

(* The chunks in a set of buffers, one by one.                             *)
LEMMA ContentIs ==
    ASSUME NEW d, NEW W
    PROVE  \A x : x \in Content(d, W) <=> x # 0 /\ \E b \in W : d[b] = x
BY DEF Content

(* What is kept depends on the buffers that are meant and no others.       *)
LEMMA KeptSame ==
    ASSUME NEW p, NEW d, NEW W, NEW r, Kept(p, d, W, r), NEW d2,
           \A b \in W : d2[b] = d[b]
    PROVE  Kept(p, d2, W, r)
<1>1. Content(d2, W) = Content(d, W)
  BY DEF Content
<1>2. \A b, c \in W : d2[b] # 0 /\ d2[b] = d2[c] => b = c
  BY DEF Kept
<1> QED BY <1>1, <1>2 DEF Kept

(* A chunk is heard, and its buffer given back with empty ones.            *)
LEMMA KeptHeard ==
    ASSUME NEW p \in Seq(1..Chunks), NEW d, NEW W, NEW r, Kept(p, d, W, r),
           NEW G, NEW b \in W, b \in G, d[b] \in 1..Chunks,
           \A c \in G : c # b => d[c] = 0
    PROVE  Kept(Append(p, d[b]), d, W \ G, r)
<1>1. PICK x \in 1..Chunks : x = d[b]
  OBVIOUS
<1>2. x # 0 /\ Len(p) \in Nat
  BY ChunkAssumption
<1>3. PICK q : q = Append(p, x)
  OBVIOUS
<1>4. /\ q \in Seq(1..Chunks) /\ Len(q) = Len(p) + 1 /\ q[Len(p) + 1] = x
      /\ \A i \in 1..Len(p) : q[i] = p[i]
  <2>1. /\ Append(p, x) \in Seq(1..Chunks) /\ Append(p, x) # <<>>
        /\ Len(Append(p, x)) = Len(p) + 1
        /\ \A i \in 1..Len(p) : Append(p, x)[i] = p[i]
        /\ Append(p, x)[Len(p) + 1] = x
    BY AppendProperties
  <2> QED BY <1>3, <2>1
<1>5. \A y : y \in Range(p) <=> \E i \in 1..Len(p) : p[i] = y
  BY DEF Range
<1>6. \A y : y \in Range(q) <=> \E i \in 1..Len(q) : q[i] = y
  BY <1>4 DEF Range
<1>7. Range(q) = Range(p) \cup {x}
  <2>1. \A y \in Range(q) : y \in Range(p) \cup {x}
    BY <1>2, <1>4, <1>5, <1>6
  <2>2. \A y \in Range(p) : y \in Range(q)
    BY <1>2, <1>4, <1>5, <1>6
  <2>3. x \in Range(q)
    BY <1>2, <1>4, <1>6
  <2> QED BY <2>1, <2>2, <2>3
<1>8. x \in Content(d, W)
  BY <1>1, <1>2, ContentIs
<1>9. x \notin Range(p)
  BY <1>8 DEF Kept
<1>10. IsInjective(q)
  <2>1. \A i \in 1..Len(p) : p[i] # x
    BY <1>5, <1>9
  <2>2. \A i, j \in 1..Len(p) : p[i] = p[j] => i = j
    BY DEF Kept, IsInjective
  <2>3. \A i, j \in 1..Len(q) : q[i] = q[j] => i = j
    BY <1>2, <1>4, <2>1, <2>2
  <2> QED BY <1>4, <2>3 DEF IsInjective
<1>11. \A c \in W : c # b => d[c] # x
  BY <1>1, <1>2 DEF Kept
<1>12. Content(d, W \ G) = Content(d, W) \ {x}
  <2>1. \A y \in Content(d, W \ G) : y \in Content(d, W) /\ y # x
    BY <1>11, ContentIs
  <2>2. ASSUME NEW y \in Content(d, W), y # x PROVE y \in Content(d, W \ G)
    <3>1. PICK c \in W : d[c] = y /\ y # 0
      BY ContentIs
    <3>2. c \notin G
      BY <1>1, <2>2, <3>1
    <3> QED BY <3>1, <3>2, ContentIs
  <2> QED BY <2>1, <2>2
<1>13. /\ Range(q) \cap Content(d, W \ G) = {}
       /\ Range(q) \cup Content(d, W \ G) = 1..r
  BY <1>7, <1>8, <1>12 DEF Kept
<1>14. \A c, e \in W \ G : d[c] # 0 /\ d[c] = d[e] => c = e
  BY DEF Kept
<1> QED BY <1>1, <1>3, <1>10, <1>13, <1>14 DEF Kept

(* The next chunks are read into empty buffers.                            *)
LEMMA KeptFilled ==
    ASSUME NEW p, NEW d, NEW W, NEW r \in Nat, Kept(p, d, W, r), NEW d2, NEW c, NoDup(c),
           NEW n \in Nat, n <= Len(c),
           \A b \in W : d2[b] = d[b],
           \A i \in 1..n : d2[c[i]] = r + i,
           \A i \in 1..Len(c) : i > n => d2[c[i]] = 0,
           W \cap Range(c) = {}
    PROVE  Kept(p, d2, W \cup Range(c), r + n)
<1>1. c \in Seq(Buffers) /\ Len(c) \in Nat
  BY DEF NoDup
<1>2. \A x : x \in Range(c) <=> \E i \in 1..Len(c) : c[i] = x
  BY <1>1, RangeIs
<1>3. Content(d2, Range(c)) = (r + 1)..(r + n)
  <2>1. ASSUME NEW x \in Content(d2, Range(c)) PROVE x \in (r + 1)..(r + n)
    <3>1. PICK i \in 1..Len(c) : d2[c[i]] = x /\ x # 0
      BY <1>2, ContentIs
    <3>2. i \in 1..n /\ x = r + i
      BY <1>1, <3>1
    <3> QED BY <3>2
  <2>2. ASSUME NEW x \in (r + 1)..(r + n) PROVE x \in Content(d2, Range(c))
    <3>1. PICK i \in 1..n : i = x - r
      BY <2>2
    <3>2. i \in 1..Len(c) /\ d2[c[i]] = x /\ x # 0
      BY <1>1, <3>1
    <3> QED BY <1>2, <3>2, ContentIs
  <2> QED BY <2>1, <2>2
<1>4. Content(d2, W) = Content(d, W)
  BY DEF Content
<1>5. Content(d2, W \cup Range(c)) = Content(d, W) \cup (r + 1)..(r + n)
  <2>1. Content(d2, W \cup Range(c)) = Content(d2, W) \cup Content(d2, Range(c))
    BY DEF Content
  <2> QED BY <1>3, <1>4, <2>1
<1>6. Range(p) \cup Content(d, W) = 1..r /\ Range(p) \cap Content(d, W) = {}
  BY DEF Kept
<1>7. (1..r) \cap ((r + 1)..(r + n)) = {} /\ (1..r) \cup ((r + 1)..(r + n)) = 1..(r + n)
  OBVIOUS
<1>8. /\ Range(p) \cap Content(d2, W \cup Range(c)) = {}
      /\ Range(p) \cup Content(d2, W \cup Range(c)) = 1..(r + n)
  BY <1>5, <1>6, <1>7
<1>9. ASSUME NEW a \in W \cup Range(c), NEW b \in W \cup Range(c), d2[a] # 0, d2[a] = d2[b]
      PROVE  a = b
  <2>1. CASE a \in W /\ b \in W
    BY <1>9, <2>1 DEF Kept
  <2>2. \A x \in W : d2[x] # 0 => d2[x] \in 1..r
    BY <1>4, <1>6, ContentIs
  <2>3. \A x \in Range(c) : d2[x] # 0 => d2[x] \in (r + 1)..(r + n)
    BY <1>3, ContentIs
  <2>4. CASE a \in Range(c) /\ b \in Range(c)
    <3>1. PICK i \in 1..Len(c), j \in 1..Len(c) : c[i] = a /\ c[j] = b
      BY <1>2, <2>4
    <3>2. i \in 1..n /\ j \in 1..n
      BY <1>1, <1>9, <3>1
    <3>3. i = j
      BY <1>9, <3>1, <3>2
    <3> QED BY <3>1, <3>3
  <2> QED BY <1>7, <1>9, <2>1, <2>2, <2>3, <2>4
<1>10. IsInjective(p)
  BY DEF Kept
<1> QED BY <1>8, <1>9, <1>10 DEF Kept

(* A chain stays packed while its buffers are left alone.                  *)
LEMMA PackedSame ==
    ASSUME NEW c \in Seq(Buffers), NEW d, Packed(c, d), NEW d2,
           \A b \in Range(c) : d2[b] = d[b]
    PROVE  Packed(c, d2)
<1>1. \A i \in 1..Len(c) : d2[c[i]] = d[c[i]]
  BY RangeIs
<1> QED BY <1>1 DEF Packed

(* An entry that a step does not touch.                                    *)
LEMMA OtherAudio ==
    ASSUME PInv, AInv, NEW e \in Entries, entry'[e] = entry[e], played'[e] = played[e],
           Waiting(e)' = Waiting(e), \A b \in Waiting(e) : data'[b] = data[b]
    PROVE  /\ AudioOK(e)'
           /\ Packed(entry'[e].curr, data') /\ Packed(entry'[e].next, data')
<1>1. AudioOK(e) /\ Packed(entry[e].curr, data) /\ Packed(entry[e].next, data)
  BY DEF AInv, Rows
<1>2. AudioOK(e)'
  <2>1. SUFFICES ASSUME entry'[e].state = "PLAY"
                 PROVE  Kept(played'[e], data', Waiting(e)', entry'[e].read)
    BY DEF AudioOK
  <2>2. Kept(played[e], data, Waiting(e), entry[e].read)
    BY <1>1, <2>1 DEF AudioOK
  <2>3. PICK W : W = Waiting(e)
    OBVIOUS
  <2>4. Kept(played[e], data', W, entry[e].read)
    BY <2>2, <2>3, KeptSame
  <2> QED BY <2>3, <2>4
<1>3. Range(entry[e].curr) \subseteq Waiting(e) /\ Range(entry[e].next) \subseteq Waiting(e)
  BY DEF Waiting, Held
<1>4. entry[e].curr \in Seq(Buffers) /\ entry[e].next \in Seq(Buffers)
  BY EntryIs DEF PInv
<1>5. \A b \in Range(entry[e].curr) \cup Range(entry[e].next) : data'[b] = data[b]
  BY <1>3
<1>6. PICK s, t : s = entry[e].curr /\ t = entry[e].next
  OBVIOUS
<1>7. Packed(s, data') /\ Packed(t, data')
  BY <1>1, <1>4, <1>5, <1>6, PackedSame
<1> QED BY <1>2, <1>6, <1>7

(* A step that leaves the entries and their buffers alone.                 *)
LEMMA AudioSame ==
    ASSUME PInv, AInv, entry' = entry, played' = played, pc \notin Placing,
           pc' \notin Placing,
           \A e \in Entries : \A b \in HeldBy(entry[e]) : data'[b] = data[b]
    PROVE  Rows' /\ \A e \in Entries : AudioOK(e)'
<1>1. \A e \in Entries : Waiting(e) = HeldBy(entry[e]) /\ Waiting(e)' = HeldBy(entry[e])
  BY DEF Waiting, Held, HeldBy, Placing
<1>2. \A e \in Entries : AudioOK(e)' /\ Packed(entry'[e].curr, data')
                         /\ Packed(entry'[e].next, data')
  BY <1>1, OtherAudio
<1> QED BY <1>2 DEF Rows

(* In the beginning nothing waits.                                         *)
LEMMA AudioInit == Init => AInv
<1>1. SUFFICES ASSUME Init PROVE AInv
  OBVIOUS
<1>2. Rows
  <2>1. \A i \in 1..Len(None) : FALSE
    BY EmptyList
  <2> QED BY <1>1, <2>1 DEF Init, Rows, Packed, NullEntry, Placing
<1>3. Blank /\ OneAhead
  BY <1>1 DEF Init, Blank, OneAhead, Busy
<1>4. \A e \in Entries : AudioOK(e)
  BY <1>1 DEF Init, AudioOK, NullEntry
<1> QED BY <1>2, <1>3, <1>4 DEF AInv

(* The steps that only count, look or decide, and those at the free list.  *)
LEMMA AudioLook ==
    ASSUME PInv, AInv,
           CountRead \/ CountWrite \/ Visit \/ DestroyRead \/ DestroyCount
             \/ DestroyLink \/ DestroyHead \/ Walk \/ Update \/ Serve \/ Cleanup
             \/ Created
    PROVE  AInv'
<1>1. entry' = entry /\ played' = played /\ data' = data
  BY DEF CountRead, CountWrite, Visit, DestroyRead, DestroyCount, DestroyLink,
         DestroyHead, Walk, Update, Serve, Cleanup, Created
<1>2. pc \notin Placing /\ pc' \notin Placing
  BY DEF CountRead, CountWrite, Visit, DestroyRead, DestroyCount, DestroyLink,
         DestroyHead, Walk, Update, Serve, Cleanup, Created, Placing
<1>3. Rows' /\ \A e \in Entries : AudioOK(e)'
  BY <1>1, <1>2, AudioSame
<1>4. Blank'
  <2>1. CASE CountRead \/ CountWrite
    BY <1>1, <2>1 DEF AInv, Blank, Busy, Taken, CountRead, CountWrite, local
  <2>2. CASE Visit \/ Serve
    <3>1. chain' = None /\ pc' # "unlink"
      BY <2>2 DEF PInv, Control, Visit, Serve, local
    <3>2. Range(Taken') = {}
      BY <3>1, EmptyList DEF Taken
    <3> QED BY <3>2 DEF Blank
  <2>3. CASE Created
    <3>1. CASE cur = Reply
      BY <2>3, <3>1 DEF Blank, Busy, Created
    <3>2. CASE cur # Reply
      BY <1>1, <2>3, <3>2 DEF AInv, Blank, Busy, Taken, Created
    <3> QED BY <3>1, <3>2
  <2>4. CASE DestroyRead \/ DestroyCount \/ DestroyLink \/ DestroyHead \/ Walk \/ Update
             \/ Cleanup
    BY <2>4 DEF Blank, Busy, DestroyRead, DestroyCount, DestroyLink, DestroyHead, Walk,
                Update, Cleanup
  <2> QED BY <2>1, <2>2, <2>3, <2>4
<1>5. OneAhead'
  <2>1. CASE CountRead \/ CountWrite
    BY <1>1, <2>1 DEF AInv, OneAhead, Busy, CountRead, CountWrite, local
  <2>2. CASE Visit
    BY <1>1, <2>2 DEF AInv, OneAhead, Busy, Visit, WantsFill, local
  <2>3. CASE Created
    BY <1>1, <2>3 DEF AInv, OneAhead, Busy, Created
  <2>4. CASE Serve
    BY <2>4 DEF OneAhead, Serve
  <2>5. CASE DestroyRead \/ DestroyCount \/ DestroyLink \/ DestroyHead \/ Walk \/ Update
             \/ Cleanup
    BY <2>5 DEF OneAhead, Busy, DestroyRead, DestroyCount, DestroyLink, DestroyHead, Walk,
                Update, Cleanup
  <2> QED BY <2>1, <2>2, <2>3, <2>4, <2>5
<1> QED BY <1>3, <1>4, <1>5 DEF AInv

(* A buffer is taken: it is nobody's, and loses what was in it.            *)
LEMMA AudioTake ==
    ASSUME PInv, PInv', AInv, Create \/ ReadHead \/ UnlinkHead, ~Reload
    PROVE  AInv'
<1>1. /\ entry' = entry /\ played' = played /\ cur' = cur
      /\ pc \in Busy /\ pc' \in Busy /\ pc # "fill" /\ pc' # "fill"
      /\ pc \notin Placing /\ pc' \notin Placing
  BY DEF Create, ReadHead, UnlinkHead, Placing, Busy, local
<1>2. OneAhead'
  BY <1>1 DEF AInv, OneAhead, Busy, Placing
<1>3. data \in [Buffers -> 0..Chunks] /\ chain \in Seq(Buffers) /\ NoDup(chain)
  BY DEF PInv, DataOK, ListsOK, NoDup
<1>4. ASSUME NEW b \in Buffers, \A e \in Entries : b \notin HeldBy(entry[e]),
             data' = [data EXCEPT ![b] = 0] \/ data' = data,
             Range(Taken') \subseteq Range(Taken) \cup {b},
             b \in Range(Taken') => data'[b] = 0
      PROVE  AInv'
  <2>1. \A x \in Buffers : x # b => data'[x] = data[x]
    BY <1>3, <1>4
  <2>2. \A e \in Entries : \A x \in HeldBy(entry[e]) : data'[x] = data[x]
    <3>1. \A e \in Entries : HeldBy(entry[e]) \subseteq Buffers
      BY EntryIs DEF PInv
    <3> QED BY <1>4, <2>1, <3>1
  <2>3. Rows' /\ \A e \in Entries : AudioOK(e)'
    BY <1>1, <2>2, AudioSame
  <2>4. Range(Taken) \subseteq Buffers
    <3>1. Range(Taken) \subseteq Range(chain)
      <4>1. CASE pc = "unlink"
        <5>1. Range(Taken) = Range(chain) \ {chain[Len(chain)]}
          BY <1>3, <4>1, FrontList DEF Taken, PInv, Control
        <5> QED BY <5>1
      <4>2. CASE pc # "unlink"
        BY <4>2 DEF Taken
      <4> QED BY <4>1, <4>2
    <3> QED BY <1>3, <3>1, EmptyRange
  <2>5. \A x \in Range(Taken) : data[x] = 0
    BY <1>1 DEF AInv, Blank
  <2>6. Blank'
    BY <1>4, <2>1, <2>4, <2>5 DEF Blank
  <2> QED BY <1>2, <2>3, <2>6 DEF AInv
<1>5. CASE Create /\ free = None
  <2>1. PICK b : b = Fresh
    OBVIOUS
  <2>2. Len(chain) < Chain
    BY <1>5 DEF PInv, Control, Create
  <2>3. /\ b \in Buffers /\ b \notin Range(chain)
        /\ \A e \in Entries : b \notin HeldBy(entry[e])
    BY <1>3, <1>5, <2>1, <2>2, FreshIsFree DEF PInv
  <2>4. /\ chain' = Append(chain, b) /\ data' = [data EXCEPT ![b] = 0]
        /\ pc = "create" /\ pc' = "created"
    BY <1>5, <2>1 DEF Create
  <2>5. Range(chain') = Range(chain) \cup {b}
    BY <1>3, <2>3, <2>4, AppendList
  <2>6. Taken = chain /\ Taken' = chain' /\ data'[b] = 0
    BY <1>3, <2>3, <2>4 DEF Taken
  <2> QED BY <1>4, <2>3, <2>4, <2>5, <2>6
<1>6. CASE Create /\ free # None
  <2>1. data' = data /\ chain' = chain /\ pc = "create" /\ pc' = "count"
    BY <1>6 DEF Create
  <2>2. Rows' /\ \A e \in Entries : AudioOK(e)'
    BY <1>1, <2>1, AudioSame
  <2>3. Blank'
    BY <2>1 DEF AInv, Blank, Taken, Busy
  <2> QED BY <1>2, <2>2, <2>3 DEF AInv
<1>7. CASE ReadHead
  <2>1. /\ data' = data /\ pc = "head" /\ pc' = "unlink" /\ free # None
        /\ chain' = Append(chain, Head(free)) /\ NoDup(free)
    BY <1>7 DEF ReadHead, PInv, Control, ListsOK
  <2>2. Rows' /\ \A e \in Entries : AudioOK(e)'
    BY <1>1, <2>1, AudioSame
  <2>3. Head(free) \in Range(free) /\ Range(free) \cap Range(chain) = {}
    BY <2>1, TailList, Disjoint DEF PInv
  <2>4. Head(free) \in Buffers
    BY <2>1, <2>3, EmptyRange DEF NoDup
  <2>5. PICK b \in Buffers : b = Head(free) /\ b \notin Range(chain)
    BY <2>3, <2>4
  <2>6. Len(chain) \in Nat
    BY <1>3
  <2>7. /\ Len(Append(chain, b)) = Len(chain) + 1
        /\ SubSeq(Append(chain, b), 1, Len(chain)) = chain
    BY <1>3, <2>5, AppendList
  <2>8. Taken' = SubSeq(chain', 1, Len(chain') - 1) /\ Taken = chain
    BY <2>1 DEF Taken
  <2>9. Len(chain') - 1 = Len(chain)
    BY <2>1, <2>5, <2>6, <2>7
  <2>10. Taken' = Taken
    BY <2>1, <2>5, <2>7, <2>8, <2>9
  <2>11. Blank'
    BY <1>1, <2>1, <2>10 DEF AInv, Blank
  <2> QED BY <1>2, <2>2, <2>11 DEF AInv
<1>8. CASE UnlinkHead
  <2>1. PICK b : b = chain[Len(chain)]
    OBVIOUS
  <2>2. /\ pc = "unlink" /\ pc' = "created" /\ chain' = chain /\ chain # None
        /\ data' = [data EXCEPT ![b] = 0] /\ b \in Range(free) /\ NoDup(free)
    BY <1>8, <2>1 DEF UnlinkHead, local, PInv, Control, ListsOK
  <2>3. b \in Buffers /\ \A e \in Entries : b \notin HeldBy(entry[e])
    BY <2>2, EmptyRange DEF PInv, Apart, NoDup
  <2>4. Range(Taken) = Range(chain) \ {b} /\ Taken' = chain /\ data'[b] = 0
    BY <1>3, <2>1, <2>2, <2>3, FrontList DEF Taken
  <2> QED BY <1>4, <2>2, <2>3, <2>4
<1> QED BY <1>5, <1>6, <1>7, <1>8

(* sound_fill.                                                             *)
LEMMA AudioFill == ASSUME PInv, AInv, Fill PROVE AInv'
<1>1. /\ pc = "fill" /\ cur \in Entries /\ NoDup(chain) /\ chain \in Seq(Buffers)
      /\ Len(chain) = Chain /\ Chain \in Nat \ {0} /\ cur' = cur /\ played' = played
      /\ DOMAIN entry = Entries
  BY ChunkAssumption DEF PInv, Control, ListsOK, EntriesOK, Fill, NoDup
<1>2. PICK old : old = entry[cur]
  OBVIOUS
<1>3. old \in EntryRec
  BY <1>1, <1>2, EntryIs DEF PInv
<1>4. PICK n : n = Amount(old)
  OBVIOUS
<1>5. /\ n \in Nat /\ n <= Chain /\ old.read \in Nat
  BY <1>3, <1>4, AmountIs, ChunkAssumption DEF EntryRec
<1>6. data' = [b \in Buffers |->
                  IF \E i \in 1..n : chain[i] = b
                  THEN old.read + (CHOOSE i \in 1..n : chain[i] = b)
                  ELSE data[b]]
  BY <1>2, <1>4 DEF Fill
<1>7. \A i \in 1..Len(chain) : chain[i] \in Buffers
  BY <1>1
<1>8. \A i, j \in 1..Len(chain) : chain[i] = chain[j] => i = j
  BY <1>1, NoDupIs
<1>9. \A i \in 1..n : data'[chain[i]] = old.read + i
  <2>1. SUFFICES ASSUME NEW i \in 1..n PROVE data'[chain[i]] = old.read + i
    OBVIOUS
  <2>2. i \in 1..Len(chain)
    BY <1>1, <1>5
  <2>3. PICK k : k = CHOOSE j \in 1..n : chain[j] = chain[i]
    OBVIOUS
  <2>4. k \in 1..n /\ chain[k] = chain[i]
    BY <2>3
  <2>5. k = i
    BY <1>1, <1>5, <1>8, <2>2, <2>4
  <2>6. data'[chain[i]] = old.read + k
    BY <1>6, <1>7, <2>2, <2>3
  <2> QED BY <2>5, <2>6
<1>10. \A b \in Buffers : ~(\E i \in 1..n : chain[i] = b) => data'[b] = data[b]
  BY <1>6
<1>11. \A i \in 1..Len(chain) : i > n => data'[chain[i]] = 0
  <2>1. SUFFICES ASSUME NEW i \in 1..Len(chain), i > n PROVE data'[chain[i]] = 0
    OBVIOUS
  <2>2. ~(\E j \in 1..n : chain[j] = chain[i])
    BY <1>1, <1>5, <1>8, <2>1
  <2>3. data'[chain[i]] = data[chain[i]]
    BY <1>7, <1>10, <2>2
  <2>4. chain[i] \in Range(Taken)
    BY <1>1, RangeIs DEF Taken
  <2> QED BY <1>1, <2>3, <2>4 DEF AInv, Blank, Busy
<1>12. \A e \in Entries : \A b \in HeldBy(entry[e]) : data'[b] = data[b]
  <2>1. SUFFICES ASSUME NEW e \in Entries, NEW b \in HeldBy(entry[e])
                 PROVE  data'[b] = data[b]
    OBVIOUS
  <2>2. b \in Buffers /\ b \notin Range(chain)
    BY EntryIs DEF PInv, Apart
  <2>3. \A i \in 1..n : i \in 1..Len(chain)
    BY <1>1, <1>5
  <2>4. ~(\E i \in 1..n : chain[i] = b)
    BY <1>1, <2>2, <2>3, RangeIs
  <2> QED BY <1>10, <2>2, <2>4
<1>13. \A e \in Entries : Waiting(e) = HeldBy(entry[e])
  BY <1>1 DEF Waiting, Held, HeldBy
<1>14. pc' \in {"next", "place"} /\ pc' = IF n = 0 THEN "next" ELSE "place"
  BY <1>2, <1>4 DEF Fill
<1>15. /\ \A e \in Entries : e # cur => entry'[e] = entry[e]
       /\ entry'[cur].curr = old.curr /\ entry'[cur].next = old.next
       /\ entry'[cur].state = old.state
       /\ entry'[cur].read = old.read + n
  <2>1. CASE n = 0
    <3>1. entry' = [entry EXCEPT ![cur].si = "null"]
      BY <1>2, <1>4, <2>1 DEF Fill
    <3>2. entry'[cur] = [old EXCEPT !.si = "null"]
      BY <1>1, <1>2, <3>1
    <3>3. entry'[cur].read = old.read
      BY <1>3, <3>2 DEF EntryRec
    <3>4. old.read + n = old.read
      BY <1>5, <2>1
    <3> QED BY <1>1, <1>3, <3>1, <3>2, <3>3, <3>4 DEF EntryRec
  <2>2. CASE n # 0
    <3>1. PICK r, q : /\ r = old.read + n
                      /\ q = IF Cached /\ old.read + n = Chunks THEN "eof" ELSE old.si
      OBVIOUS
    <3>2. entry' = [entry EXCEPT ![cur].read = @ + n,
                                 ![cur].si = IF Cached /\ old.read + n = Chunks
                                             THEN "eof" ELSE @]
      BY <1>2, <1>4, <2>2 DEF Fill
    <3>3. entry' = [entry EXCEPT ![cur] = [old EXCEPT !.read = r, !.si = q]]
      BY <1>1, <1>2, <1>3, <3>1, <3>2
    <3>4. entry'[cur] = [old EXCEPT !.read = r, !.si = q]
      BY <1>1, <3>3
    <3> QED BY <1>1, <1>3, <3>1, <3>3, <3>4 DEF EntryRec
  <2> QED BY <2>1, <2>2
<1>16. \A e \in Entries : e # cur => Waiting(e)' = HeldBy(entry[e])
  BY <1>1, <1>15 DEF Waiting, Held, HeldBy
<1>17. ASSUME NEW e \in Entries, e # cur
       PROVE  /\ AudioOK(e)'
              /\ Packed(entry'[e].curr, data') /\ Packed(entry'[e].next, data')
  <2>1. entry'[e] = entry[e] /\ Waiting(e)' = Waiting(e)
    BY <1>13, <1>15, <1>16, <1>17
  <2>2. \A b \in Waiting(e) : data'[b] = data[b]
    BY <1>12, <1>13
  <2>3. played'[e] = played[e]
    BY <1>1
  <2> QED BY <2>1, <2>2, <2>3, OtherAudio
<1>18. Packed(entry'[cur].curr, data') /\ Packed(entry'[cur].next, data')
  <2>1. PICK s, t : s = old.curr /\ t = old.next
    OBVIOUS
  <2>2. /\ s \in Seq(Buffers) /\ t \in Seq(Buffers)
        /\ Packed(s, data) /\ Packed(t, data)
    BY <1>1, <1>2, <2>1, EntryIs DEF PInv, AInv, Rows
  <2>3. \A b \in Range(s) \cup Range(t) : data'[b] = data[b]
    BY <1>1, <1>2, <1>12, <2>1 DEF HeldBy
  <2>4. Packed(s, data') /\ Packed(t, data')
    BY <2>2, <2>3, PackedSame
  <2> QED BY <1>15, <2>1, <2>4
<1>19. AudioOK(cur)'
  <2>1. SUFFICES ASSUME entry'[cur].state = "PLAY"
                 PROVE  Kept(played'[cur], data', Waiting(cur)', entry'[cur].read)
    BY <1>1 DEF AudioOK
  <2>2. PICK p, W, r : p = played[cur] /\ W = HeldBy(old) /\ r = old.read
    OBVIOUS
  <2>3. Kept(p, data, W, r)
    BY <1>1, <1>2, <1>13, <1>15, <2>1, <2>2 DEF AInv, AudioOK
  <2>4. \A b \in W : data'[b] = data[b]
    BY <1>1, <1>2, <1>12, <2>2
  <2>5. HeldBy(entry'[cur]) = W
    BY <1>15, <2>2 DEF HeldBy
  <2>6. CASE n = 0
    <3>1. Waiting(cur)' = W
      BY <1>1, <1>14, <2>5, <2>6 DEF Waiting, Held, HeldBy
    <3>2. entry'[cur].read = r
      BY <1>5, <1>15, <2>2, <2>6
    <3>3. Kept(p, data', W, r)
      BY <2>3, <2>4, KeptSame
    <3> QED BY <1>1, <2>2, <3>1, <3>2, <3>3
  <2>7. CASE n # 0
    <3>1. chain' = chain
      BY <1>2, <1>4, <2>7 DEF Fill
    <3>2. Waiting(cur)' = W \cup Range(chain)
      BY <1>1, <1>14, <2>5, <2>7, <3>1 DEF Waiting, Held, HeldBy
    <3>3. W \cap Range(chain) = {}
      BY <1>1, <1>2, <2>2 DEF PInv, Apart
    <3>4. r \in Nat /\ n \in Nat /\ n <= Len(chain)
      BY <1>1, <1>5, <2>2
    <3>5. \A i \in 1..n : data'[chain[i]] = r + i
      BY <1>9, <2>2
    <3>6. Kept(p, data', W \cup Range(chain), r + n)
      BY <1>1, <1>11, <2>3, <2>4, <3>3, <3>4, <3>5, KeptFilled
    <3> QED BY <1>1, <1>15, <2>2, <3>2, <3>6
  <2> QED BY <2>6, <2>7
<1>20. Rows'
  <2>1. pc' \in Placing => Packed(chain', data')
    <3>1. SUFFICES ASSUME n # 0 PROVE Packed(chain, data')
      BY <1>2, <1>4, <1>14 DEF Placing, Fill
    <3>2. SUFFICES ASSUME NEW i \in 1..Len(chain), NEW j \in 1..Len(chain), i <= j,
                          data'[chain[i]] = 0
                   PROVE  data'[chain[j]] = 0
      BY DEF Packed
    <3>3. i \notin 1..n
      BY <1>5, <1>9, <3>2
    <3>4. j > n
      BY <1>1, <1>5, <3>2, <3>3
    <3> QED BY <1>11, <3>4
  <2> QED BY <1>17, <1>18, <2>1 DEF Rows
<1>21. Blank'
  BY <1>14 DEF Blank, Busy
<1>22. OneAhead'
  BY <1>1, <1>2, <1>14, <1>15 DEF AInv, OneAhead, Busy
<1> QED BY <1>1, <1>17, <1>19, <1>20, <1>21, <1>22 DEF AInv

(* The chain becomes curr_buffer or next_buffer: nothing was there.        *)
LEMMA AudioPlace == ASSUME PInv, AInv, Place \/ Store PROVE AInv'
<1>1. /\ pc \in Placing /\ cur \in Entries /\ cur' = cur /\ played' = played
      /\ data' = data /\ DOMAIN entry = Entries /\ Packed(chain, data)
  BY DEF PInv, Control, EntriesOK, AInv, Rows, Place, Store, Placing
<1>2. PICK old : old = entry[cur]
  OBVIOUS
<1>3. /\ old \in EntryRec /\ Packed(old.curr, data) /\ Packed(old.next, data)
      /\ AudioOK(cur) /\ Waiting(cur) = HeldBy(old) \cup Range(chain)
  BY <1>1, <1>2, EntryIs DEF PInv, AInv, Rows, Waiting, Held, HeldBy, Placing
<1>4. ASSUME NEW c, NEW t,
             entry' = [entry EXCEPT ![cur] = Rechained(old, c, t)],
             chain' = None, pc' = "next", Packed(c, data), Packed(t, data),
             Range(c) \cup Range(t) = HeldBy(old) \cup Range(chain)
      PROVE  AInv'
  <2>1. PICK m : m = Rechained(old, c, t)
    OBVIOUS
  <2>2. m = [state |-> old.state, curr |-> c, next |-> t, si |-> old.si, read |-> old.read]
    BY <1>3, <2>1 DEF EntryRec, Rechained
  <2>3. entry'[cur] = m /\ \A e \in Entries : e # cur => entry'[e] = entry[e]
    BY <1>1, <1>4, <2>1
  <2>4. m.curr = c /\ m.next = t /\ m.state = old.state /\ m.read = old.read
    BY <2>2
  <2>5. Waiting(cur)' = Waiting(cur)
    BY <1>1, <1>3, <1>4, <2>3, <2>4 DEF Waiting, Held
  <2>6. AudioOK(cur)'
    BY <1>1, <1>2, <1>3, <2>3, <2>4, <2>5 DEF AudioOK
  <2>7. ASSUME NEW e \in Entries, e # cur
        PROVE  /\ AudioOK(e)'
               /\ Packed(entry'[e].curr, data') /\ Packed(entry'[e].next, data')
    <3>1. Waiting(e)' = Waiting(e)
      BY <1>1, <2>3, <2>7 DEF Waiting, Held
    <3>2. played'[e] = played[e] /\ \A b \in Waiting(e) : data'[b] = data[b]
      BY <1>1
    <3> QED BY <2>3, <2>7, <3>1, <3>2, OtherAudio
  <2>8. Rows'
    BY <1>1, <1>4, <2>3, <2>4, <2>7 DEF Rows, Placing
  <2>9. Blank' /\ OneAhead'
    BY <1>4 DEF Blank, OneAhead, Busy
  <2> QED BY <1>1, <2>6, <2>7, <2>8, <2>9 DEF AInv
<1>5. CASE Place /\ old.curr = None
  <2>1. /\ entry' = [entry EXCEPT ![cur] = [old EXCEPT !.curr = chain]]
        /\ chain' = None /\ pc' = "next"
    BY <1>2, <1>5 DEF Place
  <2>2. PICK t : t = old.next
    OBVIOUS
  <2>3. entry' = [entry EXCEPT ![cur] = Rechained(old, chain, t)]
    BY <1>3, <2>1, <2>2, OneChain
  <2>4. Range(chain) \cup Range(t) = HeldBy(old) \cup Range(chain)
    BY <1>5, <2>2, EmptyList DEF HeldBy
  <2> QED BY <1>1, <1>3, <1>4, <2>1, <2>2, <2>3, <2>4
<1>6. CASE Place /\ old.curr # None
  <2>1. entry' = entry /\ chain' = chain /\ pc = "place" /\ pc' = "store"
    BY <1>2, <1>6 DEF Place
  <2>2. \A e \in Entries : Waiting(e)' = Waiting(e)
    BY <1>1, <2>1 DEF Waiting, Held, Placing
  <2>3. \A e \in Entries : AudioOK(e)'
    BY <1>1, <2>1, <2>2 DEF AInv, AudioOK
  <2>4. Rows'
    BY <1>1, <2>1 DEF AInv, Rows
  <2>5. Blank' /\ OneAhead'
    BY <1>1, <1>2, <1>6, <2>1 DEF AInv, Blank, OneAhead, Busy
  <2> QED BY <2>3, <2>4, <2>5 DEF AInv
<1>7. CASE Store
  <2>1. /\ entry' = [entry EXCEPT ![cur] = [old EXCEPT !.next = chain]]
        /\ chain' = None /\ pc' = "next" /\ old.next = None
    BY <1>2, <1>7 DEF Store, AInv, OneAhead
  <2>2. PICK c : c = old.curr
    OBVIOUS
  <2>3. entry' = [entry EXCEPT ![cur] = Rechained(old, c, chain)]
    BY <1>3, <2>1, <2>2, OneChain
  <2>4. Range(c) \cup Range(chain) = HeldBy(old) \cup Range(chain)
    BY <2>1, <2>2, EmptyList DEF HeldBy
  <2> QED BY <1>1, <1>3, <1>4, <2>1, <2>2, <2>3, <2>4
<1> QED BY <1>5, <1>6, <1>7

(* An entry ends or begins.                                                *)
LEMMA AudioTurn ==
    ASSUME PInv, AInv, Turn \/ \E e \in Entries : Play(e)
    PROVE  AInv'
<1>1. PICK c, n :
        /\ c \in Entries
        /\ entry' = [entry EXCEPT ![c] = n]
        /\ n = NullEntry \/ (n = [NullEntry EXCEPT !.state = "PLAY", !.si = "open"]
                             /\ played'[c] = None)
  <2>1. CASE Turn
    BY <2>1 DEF Turn, PInv, Control
  <2>2. CASE \E e \in Entries : Play(e)
    <3>1. PICK e \in Entries : Play(e)
      BY <2>2
    <3>2. played \in [Entries -> Seq(1..Chunks)]
      BY DEF PInv, CountersOK
    <3>3. played'[e] = None
      BY <3>1, <3>2 DEF Play
    <3> QED BY <3>1, <3>3 DEF Play
  <2> QED BY <2>1, <2>2
<1>2. /\ data' = data /\ pc \notin Placing /\ pc' \notin Placing /\ pc' \notin Busy
      /\ DOMAIN entry = Entries
  BY DEF Turn, Play, PInv, EntriesOK, Placing, Busy
<1>3. \A e \in Entries : e # c => played'[e] = played[e]
  <2>1. CASE Turn
    BY <2>1 DEF Turn
  <2>2. CASE \E e \in Entries : Play(e)
    <3>1. PICK e \in Entries : Play(e)
      BY <2>2
    <3>2. entry' = [entry EXCEPT ![e] = [NullEntry EXCEPT !.state = "PLAY", !.si = "open"]]
          /\ entry[e].state = "NULL" /\ played' = [played EXCEPT ![e] = None]
      BY <3>1 DEF Play
    <3>3. entry'[e].state = "PLAY"
      BY <1>2, <3>2 DEF NullEntry
    <3>4. e = c
      BY <1>1, <1>2, <3>2, <3>3
    <3> QED BY <3>2, <3>4 DEF PInv, CountersOK
  <2> QED BY <2>1, <2>2
<1>4. entry'[c] = n /\ \A e \in Entries : e # c => entry'[e] = entry[e]
  BY <1>1, <1>2
<1>5. n.curr = None /\ n.next = None /\ n.read = 0 /\ HeldBy(n) = {}
  <2>1. n.curr = None /\ n.next = None /\ HeldBy(n) = {}
    <3>1. n = NullEntry \/ n = [NullEntry EXCEPT !.state = "PLAY", !.si = "open"]
      BY <1>1
    <3>2. EntryOK(n) /\ HeldBy(n) = {} /\ n.curr = None /\ n.next = None
      BY <3>1, NullOK, Zenon
    <3> QED BY <3>2
  <2>2. CASE n = NullEntry
    BY <2>1, <2>2 DEF NullEntry
  <2>3. CASE n = [NullEntry EXCEPT !.state = "PLAY", !.si = "open"]
    BY <2>1, <2>3 DEF NullEntry
  <2> QED BY <1>1, <2>2, <2>3
<1>6. Packed(None, data)
  <2>1. \A i \in 1..Len(None) : FALSE
    BY EmptyList
  <2> QED BY <2>1 DEF Packed
<1>7. AudioOK(c)'
  <2>1. SUFFICES ASSUME n.state = "PLAY" PROVE Kept(played'[c], data', Waiting(c)', n.read)
    BY <1>4 DEF AudioOK
  <2>2. played'[c] = None
    BY <1>1, <2>1 DEF NullEntry
  <2>3. Waiting(c)' = {}
    BY <1>2, <1>4, <1>5 DEF Waiting, Held, HeldBy, Placing
  <2>4. IsInjective(None) /\ Range(None) = {}
    BY EmptyList DEF NoDup
  <2>5. Content(data', {}) = {}
    BY DEF Content
  <2>6. 1..0 = {}
    OBVIOUS
  <2>7. PICK W : W = {}
    OBVIOUS
  <2>8. Kept(None, data', W, 0)
    BY <2>4, <2>5, <2>6, <2>7 DEF Kept
  <2> QED BY <1>5, <2>2, <2>3, <2>7, <2>8
<1>8. ASSUME NEW e \in Entries, e # c
      PROVE  /\ AudioOK(e)'
             /\ Packed(entry'[e].curr, data') /\ Packed(entry'[e].next, data')
  <2>1. Waiting(e)' = Waiting(e)
    BY <1>2, <1>4, <1>8 DEF Waiting, Held, Placing
  <2>2. \A b \in Waiting(e) : data'[b] = data[b]
    BY <1>2
  <2> QED BY <1>3, <1>4, <1>8, <2>1, <2>2, OtherAudio
<1>9. Rows'
  BY <1>2, <1>4, <1>5, <1>6, <1>8 DEF Rows
<1>10. Blank' /\ OneAhead'
  BY <1>2 DEF Blank, OneAhead, Placing, Busy
<1> QED BY <1>7, <1>8, <1>9, <1>10 DEF AInv

(* What the handler gives back beside the buffer it has played is empty,   *)
(* and what it keeps is packed.                                            *)
LEMMA GivenBackEmpty ==
    ASSUME NEW n, EntryOK(n), n.curr # None, Packed(n.curr, data), Packed(n.next, data)
    PROVE  /\ n.curr[1] \in Range(GivenBack(n))
           /\ \A b \in Range(GivenBack(n)) : b # n.curr[1] => data[b] = 0
           /\ Packed(Advanced(n).curr, data) /\ Packed(Advanced(n).next, data)
           /\ Advanced(n).state = n.state /\ Advanced(n).read = n.read
           /\ Advanced(n).next = None \/ Advanced(n).next = n.next
<1>1. PICK c, t : c = n.curr /\ t = n.next
  OBVIOUS
<1>2. /\ n \in EntryRec /\ NoDup(c) /\ c \in Seq(Buffers) /\ Len(c) \in Nat /\ c # None
      /\ t \in Seq(Buffers) /\ Packed(c, data) /\ Packed(t, data)
  BY <1>1, EmptyRange DEF EntryOK, NoDup
<1>3. Len(c) # 0 /\ 1 \in 1..Len(c)
  BY <1>2, EmptyRange
<1>4. c[1] \in Range(c) /\ c[1] \in Buffers
  BY <1>2, <1>3, RangeIs, EmptyRange
<1>5. CASE MoreInChain(n)
  <2>1. PICK m, r : r = Tail(c) /\ m = [n EXCEPT !.curr = r]
    OBVIOUS
  <2>2. Advanced(n) = m
    BY <1>1, <1>5, <2>1 DEF Advanced
  <2>3. m.curr = r /\ m.next = t /\ m.state = n.state /\ m.read = n.read
    BY <1>1, <1>2, <2>1 DEF EntryRec
  <2>4. PICK b \in Buffers : b = c[1]
    BY <1>4
  <2>5. GivenBack(n) = <<b>> /\ Range(<<b>>) = {b}
    BY <1>1, <1>5, <2>4, OneBuffer DEF GivenBack
  <2>6. Packed(r, data)
    <3>1. /\ Len(r) = Len(c) - 1
          /\ \A i \in 1..Len(r) : i + 1 \in 1..Len(c) /\ r[i] = c[i + 1]
      BY <1>2, <1>3, <2>1
    <3>2. SUFFICES ASSUME NEW i \in 1..Len(r), NEW j \in 1..Len(r), i <= j, data[r[i]] = 0
                   PROVE  data[r[j]] = 0
      BY DEF Packed
    <3>3. /\ i + 1 \in 1..Len(c) /\ j + 1 \in 1..Len(c) /\ i + 1 <= j + 1
          /\ data[c[i + 1]] = 0 /\ r[j] = c[j + 1]
      BY <1>2, <3>1, <3>2
    <3>4. data[c[j + 1]] = 0
      BY <1>2, <3>3 DEF Packed
    <3> QED BY <3>3, <3>4
  <2> QED BY <1>1, <1>2, <2>2, <2>3, <2>4, <2>5, <2>6
<1>6. CASE ~MoreInChain(n)
  <2>1. PICK m : m = [n EXCEPT !.curr = t, !.next = None]
    OBVIOUS
  <2>2. Advanced(n) = m
    BY <1>1, <1>6, <2>1 DEF Advanced
  <2>3. m.curr = t /\ m.next = None /\ m.state = n.state /\ m.read = n.read
    BY <1>2, <2>1 DEF EntryRec
  <2>4. GivenBack(n) = c
    BY <1>1, <1>6 DEF GivenBack
  <2>5. Packed(None, data)
    <3>1. \A i \in 1..Len(None) : FALSE
      BY EmptyList
    <3> QED BY <3>1 DEF Packed
  <2>6. ASSUME NEW b \in Range(c), b # c[1] PROVE data[b] = 0
    <3>1. PICK i \in 1..Len(c) : c[i] = b
      BY <1>2, RangeIs
    <3>2. i >= 2 /\ 2 \in 1..Len(c) /\ Len(c) > 1
      BY <1>2, <2>6, <3>1
    <3>3. data[c[2]] = 0
      BY <1>1, <1>6, <3>2 DEF MoreInChain
    <3>4. 2 <= i
      BY <3>2
    <3> QED BY <1>2, <3>1, <3>2, <3>3, <3>4 DEF Packed
  <2> QED BY <1>1, <1>2, <1>4, <2>2, <2>3, <2>4, <2>5, <2>6
<1> QED BY <1>5, <1>6

(* A tick: one chunk is heard and leaves the buffers.                      *)
LEMMA AudioTick == ASSUME PInv, AInv, NEW e \in Entries, Tick(e) PROVE AInv'
<1>1. /\ data' = data /\ pc' = pc /\ cur' = cur /\ chain' = chain
      /\ DOMAIN entry = Entries /\ played \in [Entries -> Seq(1..Chunks)]
      /\ cur \in Entries \cup {Reply}
  BY DEF Tick, local, PInv, EntriesOK, CountersOK, Control
<1>2. Taken' = Taken /\ Blank'
  BY <1>1 DEF AInv, Blank, Taken
<1>3. PICK old : old = entry[e]
  OBVIOUS
<1>4. /\ EntryOK(old) /\ old \in EntryRec /\ Loaded(old.curr, data) /\ Loaded(old.next, data)
      /\ Packed(old.curr, data) /\ Packed(old.next, data) /\ old.state = "PLAY"
  BY <1>3 DEF PInv, EntriesOK, EntryOK, DataOK, AInv, Rows, Tick
<1>5. ASSUME NEW m, entry' = [entry EXCEPT ![e] = m],
             \A f \in Entries : f # e => played'[f] = played[f],
             Packed(m.curr, data), Packed(m.next, data),
             m.state = "PLAY" => Kept(played'[e], data, Waiting(e)', m.read),
             (m.curr = old.curr /\ m.next = old.next)
               \/ (old.curr # None /\ (m.next = None \/ m.next = old.next))
      PROVE  AInv'
  <2>1. entry'[e] = m /\ \A f \in Entries : f # e => entry'[f] = entry[f]
    BY <1>1, <1>5
  <2>2. ASSUME NEW f \in Entries, f # e
        PROVE  /\ AudioOK(f)'
               /\ Packed(entry'[f].curr, data') /\ Packed(entry'[f].next, data')
    <3>1. Waiting(f)' = Waiting(f)
      BY <1>1, <2>1, <2>2 DEF Waiting, Held
    <3>2. \A b \in Waiting(f) : data'[b] = data[b]
      BY <1>1
    <3> QED BY <1>5, <2>1, <2>2, <3>1, <3>2, OtherAudio
  <2>3. AudioOK(e)'
    BY <1>1, <1>5, <2>1 DEF AudioOK
  <2>4. Rows'
    BY <1>1, <1>5, <2>1, <2>2 DEF AInv, Rows
  <2>5. OneAhead'
    <3>1. CASE cur = e
      <4>1. entry'[cur] = m /\ entry[cur] = old
        BY <1>3, <2>1, <3>1
      <4> QED BY <1>1, <1>5, <4>1 DEF AInv, OneAhead
    <3>2. CASE cur # e /\ cur \in Entries
      <4>1. entry'[cur] = entry[cur]
        BY <2>1, <3>2
      <4> QED BY <1>1, <4>1 DEF AInv, OneAhead
    <3>3. CASE cur = Reply
      BY <1>1, <3>3 DEF AInv, OneAhead
    <3> QED BY <1>1, <3>1, <3>2, <3>3
  <2> QED BY <1>2, <2>2, <2>3, <2>4, <2>5 DEF AInv
<1>6. CASE old.curr = None
  <2>1. entry' = entry /\ played' = played
    BY <1>3, <1>6 DEF Tick
  <2>2. \A f \in Entries : Waiting(f)' = Waiting(f)
    BY <1>1, <2>1 DEF Waiting, Held
  <2>3. \A f \in Entries : AudioOK(f)'
    BY <1>1, <2>1, <2>2 DEF AInv, AudioOK
  <2>4. Rows' /\ OneAhead'
    BY <1>1, <2>1 DEF AInv, Rows, OneAhead
  <2> QED BY <1>2, <2>3, <2>4 DEF AInv
<1>7. CASE old.curr # None
  <2>1. PICK x : x = data[old.curr[1]]
    OBVIOUS
  <2>2. played' = [played EXCEPT ![e] = Append(@, x)]
    BY <1>3, <1>7, <2>1 DEF Tick
  <2>3. /\ played'[e] = Append(played[e], x)
        /\ \A f \in Entries : f # e => played'[f] = played[f]
    BY <1>1, <2>2
  <2>4. CASE LastSample(e)
    <3>1. PICK m : m = [old EXCEPT !.state = "NEXT"]
      OBVIOUS
    <3>2. entry' = [entry EXCEPT ![e] = m]
      BY <1>3, <1>7, <2>4, <3>1 DEF Tick
    <3>3. m.state = "NEXT" /\ m.curr = old.curr /\ m.next = old.next
      BY <1>4, <3>1 DEF EntryRec
    <3> QED BY <1>4, <1>5, <2>3, <3>2, <3>3
  <2>5. CASE ~LastSample(e)
    <3>1. PICK m, G : m = Advanced(old) /\ G = Range(GivenBack(old))
      OBVIOUS
    <3>2. entry' = [entry EXCEPT ![e] = m]
      BY <1>3, <1>7, <2>5, <3>1 DEF Tick
    <3>3. HeldBy(m) \cup G = HeldBy(old) /\ HeldBy(m) \cap G = {}
      BY <1>4, <1>7, <3>1, AdvancedIs DEF PInv, DataOK
    <3>4. PICK b : b = old.curr[1]
      OBVIOUS
    <3>5. /\ b \in G /\ \A c \in G : c # b => data[c] = 0
          /\ Packed(m.curr, data) /\ Packed(m.next, data)
          /\ m.state = "PLAY" /\ m.read = old.read
          /\ m.next = None \/ m.next = old.next
      BY <1>4, <1>7, <3>1, <3>4, GivenBackEmpty
    <3>6. PICK C : C = IF cur = e /\ pc \in Placing THEN Range(chain) ELSE {}
      OBVIOUS
    <3>7. HeldBy(old) \cap C = {}
      BY <1>3, <3>6 DEF PInv, Apart
    <3>8. entry'[e] = m
      BY <1>1, <3>2
    <3>9. Waiting(e) = HeldBy(old) \cup C /\ Waiting(e)' = HeldBy(m) \cup C
      BY <1>1, <1>3, <3>6, <3>8 DEF Waiting, Held, HeldBy, Placing
    <3>10. PICK W : W = Waiting(e)
      OBVIOUS
    <3>11. Waiting(e)' = W \ G /\ b \in W
      BY <3>3, <3>5, <3>7, <3>9, <3>10
    <3>12. Kept(played[e], data, W, old.read)
      BY <1>3, <1>4, <3>10 DEF AInv, AudioOK
    <3>13. data[b] \in 1..Chunks /\ played[e] \in Seq(1..Chunks)
      BY <1>1, <1>4, <1>7, <3>4 DEF Loaded
    <3>14. Kept(Append(played[e], data[b]), data, W \ G, old.read)
      BY <3>5, <3>11, <3>12, <3>13, KeptHeard
    <3>15. Kept(played'[e], data, Waiting(e)', m.read)
      BY <2>1, <2>3, <3>4, <3>5, <3>11, <3>14
    <3> QED BY <1>5, <1>7, <2>3, <3>2, <3>5, <3>15
  <2> QED BY <2>4, <2>5
<1> QED BY <1>6, <1>7

(* No audio is lost or heard twice while an entry plays, for every number  *)
(* of entries and buffers and every length of sounds and chains, although  *)
(* the handler may move or use up a chain between the test of curr_buffer  *)
(* in spool_update and the store that follows it.                          *)
THEOREM AudioConserved == ~Reload => (Spec => []Conserved)
<1> SUFFICES ASSUME ~Reload PROVE Spec => []Conserved
  OBVIOUS
<1>1. ASSUME PInv, PInv', AInv, [Next]_vars PROVE AInv'
  <2>1. CASE Main
    BY <1>1, <2>1, AudioLook, AudioTake, AudioFill, AudioPlace, AudioTurn DEF Main
  <2>2. CASE Serve \/ Cleanup
    BY <1>1, <2>2, AudioLook
  <2>3. CASE \E e \in Entries : Play(e) \/ Tick(e)
    BY <1>1, <2>3, AudioTurn, AudioTick
  <2>4. CASE UNCHANGED vars
    <3>1. UNCHANGED <<free, nbuffers, data, entry, played, needs_update, pc, cur,
                      todo, chain, seen>>
      BY <2>4 DEF vars
    <3>2. Taken' = Taken /\ \A e \in Entries : Waiting(e)' = Waiting(e)
      BY <3>1 DEF Taken, Waiting, Held
    <3> QED BY <1>1, <3>1, <3>2 DEF AInv, Rows, Blank, OneAhead, AudioOK
  <2> QED BY <1>1, <2>1, <2>2, <2>3, <2>4 DEF Next
<1>2. AInv => Conserved
  BY DEF AInv, AudioOK, Kept, Conserved
<1>3. Spec => []PInv
  BY PInvInductive
<1>4. Spec => []AInv
  BY <1>1, <1>3, AudioInit, PTL DEF Spec
<1> QED BY <1>2, <1>4, PTL

=============================================================================
