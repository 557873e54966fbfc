---------------------------- MODULE SessionProofs ----------------------------
(***************************************************************************)
(* Proofs about Session, for every number of sounds, every length of data  *)
(* and every number of commands, notes and faults: rptp takes the answers  *)
(* to its commands for what they are, and rplay plays one sound at a time. *)
(***************************************************************************)
EXTENDS Session, FiniteSetTheorems, SequenceTheorems, TLAPS

Kinds == {"+", "-", "@", "!", "item", ".", "data"}
Ops == {"application", "generic", "list", "get", "put", "notify", "skip", "monitor", "open",
        "close", "quit", "data", "info", "play", "flow", "none"}
Lines == [k : Kinds, n : Int]
Messages == [op : Ops, n : Int, id : Int]

(* The library: the types, and what a closed connection is.                *)
Lib ==
    /\ prog \in {"rptp", "rplay"} /\ n \in Int /\ i \in Int /\ faults \in Nat
    /\ command \in Ops \cup {"empty"}
    /\ fd \in [Conns -> BOOLEAN] /\ eof \in [Conns -> BOOLEAN] /\ notify \in [Conns -> BOOLEAN]
    /\ toServer \in [Conns -> Seq(Messages)] /\ toClient \in [Conns -> Seq(Lines)]
    /\ entry \in [Sounds -> {"none", "playing", "flow", "done"}]
    /\ \A c \in Conns : /\ ~fd[c] => toClient[c] = <<>>
                        /\ eof[c] => toServer[c] = <<>>
    /\ ~fd["ctl"] => ~notify["ctl"]

-----------------------------------------------------------------------------
(* Sequences.                                                              *)

(* What is left of a sequence without its head.                            *)
LEMMA Behead ==
    ASSUME NEW S, NEW q \in Seq(S), q # <<>>
    PROVE  /\ Tail(q) \in Seq(S) /\ Len(q) \in Nat /\ Len(q) > 0
           /\ Len(Tail(q)) = Len(q) - 1
           /\ Head(q) = q[1] /\ Head(q) \in S
           /\ \A j \in 1..(Len(q) - 1) : Tail(q)[j] = q[j + 1]
  BY HeadTailProperties

(* What is appended comes last.                                            *)
LEMMA Behind ==
    ASSUME NEW S, NEW q \in Seq(S), NEW x \in S
    PROVE  /\ Append(q, x) \in Seq(S) /\ Len(Append(q, x)) = Len(q) + 1
           /\ Append(q, x) # <<>>
           /\ \A j \in 1..Len(q) : Append(q, x)[j] = q[j]
           /\ Append(q, x)[Len(q) + 1] = x
  BY AppendProperties

(* A message that is sent comes behind those that were.                    *)
LEMMA Sent ==
    ASSUME NEW q \in Seq(Messages), NEW x \in Messages, NEW r, r = Append(q, x)
    PROVE  /\ Len(q) \in Nat /\ Len(r) = Len(q) + 1 /\ r[Len(q) + 1] = x
           /\ \A j \in 1..Len(q) : r[j] = q[j]
<1>1. Len(q) \in Nat
  OBVIOUS
<1> QED BY <1>1, AppendProperties

(* What is in a concatenation, and where.                                  *)
LEMMA Joined ==
    ASSUME NEW S, NEW q \in Seq(S), NEW r \in Seq(S)
    PROVE  /\ q \o r \in Seq(S) /\ Len(q \o r) = Len(q) + Len(r)
           /\ \A j \in 1..Len(q) : (q \o r)[j] = q[j]
           /\ \A j \in 1..Len(r) : (q \o r)[Len(q) + j] = r[j]
           /\ q = <<>> => q \o r = r
           /\ r = <<>> => q \o r = q
  BY ConcatProperties, ConcatEmptySeq

(* A sequence of length 0 is the empty one.                                *)
LEMMA Nothing ==
    ASSUME NEW S, NEW q \in Seq(S)
    PROVE  Len(q) \in Nat /\ (Len(q) = 0 <=> q = <<>>)
  BY EmptySeq, LenProperties

(* Nothing is left of a sequence of one without its head.                  *)
LEMMA LastTaken ==
    ASSUME NEW S, NEW q \in Seq(S), Len(q) = 1
    PROVE  Tail(q) = <<>>
<1>1. PICK r : r = Tail(q)
  OBVIOUS
<1>2. r \in Seq(S) /\ Len(r) = 0
  <2>1. q # <<>>
    OBVIOUS
  <2> QED BY <1>1, <2>1, Behead
<1> QED BY <1>1, <1>2, Nothing

-----------------------------------------------------------------------------
(* The answers of the server.                                              *)

(* What the server answers to a message: nothing to data; otherwise a      *)
(* first line + or - with the number of the message, a - alone, and the    *)
(* data of list, get and monitor behind the +.                             *)
LEMMA RepliesAre ==
    ASSUME NEW c \in Conns, NEW m \in Messages, NEW lines \in Replies(c, m)
    PROVE  /\ lines \in Seq(Lines)
           /\ m.op = "data" => lines = <<>>
           /\ m.op # "data" => /\ lines # <<>> /\ lines[1].n = m.n /\ lines[1].k \in {"+", "-"}
                               /\ lines[1].k = "-" => Len(lines) = 1
           /\ m.op = "list" /\ lines[1].k = "+" =>
                 /\ Len(lines) = Size + 2 /\ lines[Size + 2].k = "."
                 /\ \A j \in 2..(Size + 1) : lines[j].k # "."
           /\ m.op = "get" /\ lines[1].k = "+" => Len(lines) = Size + 1
           /\ m.op \notin {"list", "get", "monitor", "data"} => Len(lines) = 1
           /\ m.op \in {"notify", "none", "monitor"} => lines[1].k = "+"
           /\ m.op = "put" /\ c = "flow" /\ entry[m.id] = "flow" => lines[1].k = "+"
<1>1. PICK plus, minus, item, data, dot :
        /\ plus = Ans("+", m) /\ minus = Ans("-", m) /\ item = Ans("item", m)
        /\ data = Ans("data", m) /\ dot = Ans(".", m)
  OBVIOUS
<1>2. /\ {plus, minus, item, data, dot} \subseteq Lines
      /\ plus.k = "+" /\ minus.k = "-" /\ item.k = "item" /\ dot.k = "."
      /\ plus.n = m.n /\ minus.n = m.n
  <2>1. m.n \in Int
    BY DEF Messages
  <2>2. plus \in Lines /\ minus \in Lines /\ item \in Lines /\ data \in Lines /\ dot \in Lines
    BY <1>1, <2>1 DEF Ans, Lines, Kinds
  <2> QED BY <1>1, <2>2 DEF Ans
<1>3. Size \in Nat \ {0}
  BY BoundAssumption
<1>4. PICK items, sound : /\ items = [p \in 1..Size |-> item] /\ sound = [p \in 1..Size |-> data]
  OBVIOUS
<1>5. /\ items \in Seq(Lines) /\ Len(items) = Size
      /\ sound \in Seq(Lines) /\ Len(sound) = Size
  <2>1. items \in [1..Size -> Lines] /\ sound \in [1..Size -> Lines]
    BY <1>2, <1>4
  <2>2. items \in Seq(Lines) /\ sound \in Seq(Lines)
    BY <1>3, <2>1
  <2> QED BY <1>3, <2>1, <2>2
<1>6. /\ <<plus>> \in Seq(Lines) /\ <<minus>> \in Seq(Lines) /\ <<dot>> \in Seq(Lines)
      /\ Len(<<plus>>) = 1 /\ Len(<<minus>>) = 1 /\ Len(<<dot>>) = 1
      /\ <<plus>>[1] = plus /\ <<minus>>[1] = minus /\ <<dot>>[1] = dot
      /\ <<plus>> # <<>> /\ <<minus>> # <<>>
  BY <1>2
<1>7. PICK got : got = <<plus>> \o sound
  OBVIOUS
<1>8. got \in Seq(Lines) /\ Len(got) = Size + 1 /\ got[1] = plus /\ got # <<>>
  <2>1. /\ got \in Seq(Lines) /\ Len(got) = Len(<<plus>>) + Len(sound)
        /\ \A j \in 1..Len(<<plus>>) : got[j] = <<plus>>[j]
    BY <1>5, <1>6, <1>7, Joined
  <2>2. Len(got) = Size + 1 /\ got[1] = plus
    BY <1>3, <1>5, <1>6, <2>1
  <2> QED BY <1>3, <2>1, <2>2, Nothing
<1>9. PICK half : half = <<plus>> \o items
  OBVIOUS
<1>10. /\ half \in Seq(Lines) /\ Len(half) = Size + 1 /\ half[1] = plus
       /\ \A j \in 2..(Size + 1) : half[j] = item
  <2>1. /\ half \in Seq(Lines) /\ Len(half) = Len(<<plus>>) + Len(items)
        /\ \A j \in 1..Len(<<plus>>) : half[j] = <<plus>>[j]
        /\ \A j \in 1..Len(items) : half[Len(<<plus>>) + j] = items[j]
    BY <1>5, <1>6, <1>9, Joined
  <2>2. \A j \in 1..Size : half[1 + j] = item
    BY <1>3, <1>4, <1>5, <1>6, <2>1
  <2>3. ASSUME NEW j \in 2..(Size + 1) PROVE half[j] = item
    <3>1. j - 1 \in 1..Size /\ j = 1 + (j - 1)
      BY <1>3
    <3> QED BY <2>2, <3>1
  <2> QED BY <1>3, <1>5, <1>6, <2>1, <2>3
<1>11. PICK list : list = half \o <<dot>>
  OBVIOUS
<1>12. /\ list \in Seq(Lines) /\ Len(list) = Size + 2 /\ list[1] = plus /\ list # <<>>
       /\ list[Size + 2] = dot /\ \A j \in 2..(Size + 1) : list[j] = item
  <2>1. /\ list \in Seq(Lines) /\ Len(list) = Len(half) + Len(<<dot>>)
        /\ \A j \in 1..Len(half) : list[j] = half[j]
        /\ \A j \in 1..Len(<<dot>>) : list[Len(half) + j] = <<dot>>[j]
    BY <1>6, <1>10, <1>11, Joined
  <2>2. Len(list) = Size + 2
    BY <1>3, <1>6, <1>10, <2>1
  <2>3. list[Size + 2] = dot
    <3>1. list[Len(half) + 1] = dot
      BY <1>6, <2>1
    <3> QED BY <1>3, <1>10, <3>1
  <2>4. \A j \in 1..(Size + 1) : list[j] = half[j]
    BY <1>10, <2>1
  <2>5. list[1] = plus /\ \A j \in 2..(Size + 1) : list[j] = item
    BY <1>3, <1>10, <2>4
  <2> QED BY <1>3, <2>1, <2>2, <2>3, <2>5, Nothing
<1>13. /\ m.op = "list" => lines \in {list, <<minus>>}
       /\ m.op = "get" => lines \in {got, <<minus>>}
       /\ m.op = "monitor" => lines = got
       /\ m.op = "data" => lines = <<>>
       /\ m.op \notin {"list", "get", "monitor", "data"} => lines \in {<<plus>>, <<minus>>}
       /\ m.op \in {"notify", "none"} => lines = <<plus>>
       /\ m.op = "put" /\ c = "flow" /\ entry[m.id] = "flow" => lines = <<plus>>
  <2>1. c \in {"ctl", "flow"}
    BY DEF Conns
  <2> QED BY <1>1, <1>4, <1>7, <1>9, <1>11, <2>1 DEF Replies
<1>14. CASE m.op = "list"
  BY <1>2, <1>3, <1>6, <1>12, <1>13, <1>14
<1>15. CASE m.op = "get"
  BY <1>2, <1>3, <1>6, <1>8, <1>13, <1>15
<1>16. CASE m.op = "monitor"
  BY <1>2, <1>3, <1>8, <1>13, <1>16
<1>17. CASE m.op = "data"
  BY <1>13, <1>17
<1>18. CASE m.op \notin {"list", "get", "monitor", "data"}
  BY <1>2, <1>6, <1>13, <1>18
<1> QED BY <1>14, <1>15, <1>16, <1>17, <1>18
-----------------------------------------------------------------------------
(* The library.                                                            *)

(* What the parts of Lib say of a step: the ones that have to do with the  *)
(* connections, and the others.                                            *)
Wires ==
    /\ fd \in [Conns -> BOOLEAN] /\ eof \in [Conns -> BOOLEAN] /\ notify \in [Conns -> BOOLEAN]
    /\ toServer \in [Conns -> Seq(Messages)] /\ toClient \in [Conns -> Seq(Lines)]
    /\ \A c \in Conns : /\ ~fd[c] => toClient[c] = <<>>
                        /\ eof[c] => toServer[c] = <<>>
    /\ ~fd["ctl"] => ~notify["ctl"]
Scalars ==
    /\ prog \in {"rptp", "rplay"} /\ n \in Int /\ i \in Int /\ faults \in Nat
    /\ command \in Ops \cup {"empty"}
    /\ entry \in [Sounds -> {"none", "playing", "flow", "done"}]

(* A line is written: it joins the queue of an open connection.            *)
LEMMA PutIs ==
    ASSUME Lib, NEW c \in Conns, NEW op \in Ops, Put(c, op), UNCHANGED <<fd, eof, notify, toClient>>
    PROVE  /\ Wires'
           /\ \A d \in Conns : d # c => toServer'[d] = toServer[d]
           /\ [op |-> op, n |-> n + 1, id |-> i] \in Messages
           /\ toServer'[c] = IF fd[c] /\ ~eof[c]
                             THEN Append(toServer[c], [op |-> op, n |-> n + 1, id |-> i])
                             ELSE toServer[c]
<1>1. PICK m : m = [op |-> op, n |-> n + 1, id |-> i]
  OBVIOUS
<1>2. m \in Messages
  BY <1>1 DEF Lib, Messages
<1>3. toServer' = IF fd[c] /\ ~eof[c] THEN [toServer EXCEPT ![c] = Append(toServer[c], m)]
                                      ELSE toServer
  BY <1>1 DEF Put
<1>4. /\ toServer[c] \in Seq(Messages) /\ toServer \in [Conns -> Seq(Messages)]
      /\ Append(toServer[c], m) \in Seq(Messages)
  BY <1>2, Behind DEF Lib
<1>5. /\ \A d \in Conns : d # c => toServer'[d] = toServer[d]
      /\ toServer'[c] = IF fd[c] /\ ~eof[c] THEN Append(toServer[c], m) ELSE toServer[c]
      /\ toServer' \in [Conns -> Seq(Messages)]
  BY <1>3, <1>4
<1>6. Wires'
  BY <1>5 DEF Lib, Wires
<1> QED BY <1>1, <1>2, <1>5, <1>6

(* A connection is closed.                                                 *)
LEMMA CloseIs ==
    ASSUME Lib, NEW c \in Conns, Close(c), UNCHANGED <<eof, toServer>>
    PROVE  /\ Wires' /\ fd'[c] = FALSE
           /\ \A d \in Conns : d # c => /\ fd'[d] = fd[d] /\ toClient'[d] = toClient[d]
                                        /\ notify'[d] = notify[d]
  BY DEF Lib, Wires, Close

(* A line is taken.                                                        *)
LEMMA TakeIs ==
    ASSUME Lib, NEW c \in Conns, toClient[c] # <<>>,
           toClient' = [toClient EXCEPT ![c] = Tail(@)], UNCHANGED <<fd, eof, toServer, notify>>
    PROVE  /\ Wires' /\ toClient'[c] = Tail(toClient[c])
           /\ \A d \in Conns : d # c => toClient'[d] = toClient[d]
<1>1. toClient[c] \in Seq(Lines) /\ Tail(toClient[c]) \in Seq(Lines)
  BY Behead DEF Lib
<1>2. toClient' \in [Conns -> Seq(Lines)]
  BY <1>1 DEF Lib
<1> QED BY <1>1, <1>2 DEF Lib, Wires

(* A connection is opened, or not yet, or not at all.                      *)
LEMMA ConnectIs ==
    ASSUME Lib, NEW c \in Conns, NEW then, NEW else, Connect(c, then, else)
    PROVE  /\ Wires' /\ faults' \in Nat /\ faults <= faults'
           /\ \A d \in Conns : d # c => /\ fd'[d] = fd[d] /\ toClient'[d] = toClient[d]
                                        /\ notify'[d] = notify[d] /\ toServer'[d] = toServer[d]
                                        /\ eof'[d] = eof[d]
           /\ \/ /\ pc' = then /\ fd'[c] = TRUE /\ eof'[c] = FALSE /\ notify'[c] = FALSE
                 /\ toServer'[c] = <<>> /\ toClient'[c] = <<>>
              \/ /\ pc' \in {else, pc} /\ UNCHANGED <<fd, eof, toServer, toClient, notify>>
<1>1. <<>> \in Seq(Messages) /\ <<>> \in Seq(Lines)
  OBVIOUS
<1>2. CASE up
  <2>1. /\ fd' = [fd EXCEPT ![c] = TRUE] /\ eof' = [eof EXCEPT ![c] = FALSE]
        /\ toServer' = [toServer EXCEPT ![c] = <<>>]
        /\ toClient' = [toClient EXCEPT ![c] = <<>>]
        /\ notify' = [notify EXCEPT ![c] = FALSE] /\ pc' = then /\ faults' = faults
    BY <1>2 DEF Connect
  <2>2. toServer' \in [Conns -> Seq(Messages)] /\ toClient' \in [Conns -> Seq(Lines)]
    BY <1>1, <2>1 DEF Lib
  <2>3. /\ fd' \in [Conns -> BOOLEAN] /\ eof' \in [Conns -> BOOLEAN]
        /\ notify' \in [Conns -> BOOLEAN]
    BY <2>1 DEF Lib
  <2>4. /\ \A d \in Conns : d # c => /\ fd'[d] = fd[d] /\ toClient'[d] = toClient[d]
                                     /\ notify'[d] = notify[d] /\ toServer'[d] = toServer[d]
                                     /\ eof'[d] = eof[d]
        /\ fd'[c] = TRUE /\ eof'[c] = FALSE /\ notify'[c] = FALSE
        /\ toServer'[c] = <<>> /\ toClient'[c] = <<>>
    BY <2>1 DEF Lib
  <2>5. Wires'
    BY <2>2, <2>3, <2>4 DEF Lib, Wires, Conns
  <2> QED BY <2>1, <2>4, <2>5 DEF Lib
<1>3. CASE ~up
  BY <1>3 DEF Connect, Lib, Wires
<1> QED BY <1>2, <1>3

(* Notes are sent to the connections that asked for them.                  *)
LEMMA TellIs ==
    ASSUME Lib, NEW id \in Int, Tell(id), UNCHANGED <<fd, eof, notify, toServer>>
    PROVE  /\ Wires' /\ [k |-> "@", n |-> id] \in Lines
           /\ \A c \in Conns : toClient'[c] = IF notify[c] /\ fd[c] /\ ~eof[c]
                                              THEN Append(toClient[c], [k |-> "@", n |-> id])
                                              ELSE toClient[c]
<1>1. PICK l : l = [k |-> "@", n |-> id]
  OBVIOUS
<1>2. l \in Lines
  BY <1>1 DEF Lines, Kinds
<1>3. toClient' = [c \in Conns |-> IF notify[c] /\ fd[c] /\ ~eof[c] THEN Append(toClient[c], l)
                                                                    ELSE toClient[c]]
  BY <1>1 DEF Tell
<1>4. \A c \in Conns : toClient[c] \in Seq(Lines) /\ Append(toClient[c], l) \in Seq(Lines)
  BY <1>2, Behind DEF Lib
<1>5. toClient' \in [Conns -> Seq(Lines)]
  BY <1>3, <1>4
<1>6. Wires'
  BY <1>3, <1>5 DEF Lib, Wires
<1> QED BY <1>1, <1>2, <1>3, <1>6

(* The server takes a message and answers it.                              *)
LEMMA ServeIs ==
    ASSUME Lib, NEW c \in Conns, Serve(c)
    PROVE  /\ Wires' /\ toServer[c] # <<>> /\ ~eof[c] /\ (fd[c] \/ c = "flow")
           /\ toServer'[c] = Tail(toServer[c])
           /\ \A d \in Conns : d # c => /\ toClient'[d] = toClient[d] /\ notify'[d] = notify[d]
                                        /\ toServer'[d] = toServer[d]
           /\ \E lines \in Replies(c, toServer[c][1]) :
                /\ toClient'[c] = IF fd[c] THEN toClient[c] \o lines ELSE toClient[c]
                /\ entry' = IF toServer[c][1].op \in {"play", "flow"} /\ lines[1].k = "+"
                            THEN [entry EXCEPT ![toServer[c][1].id] =
                                     IF toServer[c][1].op = "flow" THEN "flow" ELSE "playing"]
                            ELSE entry
                /\ notify'[c] = IF toServer[c][1].op = "notify" THEN TRUE
                                ELSE IF toServer[c][1].op = "none" THEN FALSE ELSE notify[c]
<1>1. toServer[c] # <<>> /\ ~eof[c] /\ (fd[c] \/ c = "flow")
  BY DEF Serve
<1>2. PICK m : m = toServer[c][1]
  OBVIOUS
<1>3. Head(toServer[c]) = m /\ m \in Messages /\ Tail(toServer[c]) \in Seq(Messages)
  BY <1>1, <1>2, Behead DEF Lib
<1>4. PICK lines \in Replies(c, m) :
        /\ toClient' = [toClient EXCEPT ![c] = IF fd[c] THEN @ \o lines ELSE @]
        /\ entry' = IF m.op \in {"play", "flow"} /\ lines[1].k = "+"
                    THEN [entry EXCEPT ![m.id] = IF m.op = "flow" THEN "flow" ELSE "playing"]
                    ELSE entry
        /\ notify' = [notify EXCEPT ![c] = IF m.op = "notify" THEN TRUE
                                           ELSE IF m.op = "none" THEN FALSE ELSE @]
  BY <1>3 DEF Serve
<1>5. lines \in Seq(Lines)
  BY <1>3, RepliesAre
<1>6. toClient[c] \in Seq(Lines) /\ toClient[c] \o lines \in Seq(Lines)
  BY <1>5, Joined DEF Lib
<1>7. /\ toServer' = [toServer EXCEPT ![c] = Tail(toServer[c])] /\ fd' = fd /\ eof' = eof
  BY DEF Serve, client
<1>8. /\ toClient' \in [Conns -> Seq(Lines)] /\ toServer' \in [Conns -> Seq(Messages)]
      /\ notify' \in [Conns -> BOOLEAN]
  BY <1>3, <1>4, <1>6, <1>7 DEF Lib
<1>9. /\ \A d \in Conns : d # c => /\ toClient'[d] = toClient[d] /\ notify'[d] = notify[d]
                                   /\ toServer'[d] = toServer[d]
      /\ toServer'[c] = Tail(toServer[c])
      /\ toClient'[c] = IF fd[c] THEN toClient[c] \o lines ELSE toClient[c]
      /\ notify'[c] = IF m.op = "notify" THEN TRUE ELSE IF m.op = "none" THEN FALSE ELSE notify[c]
  BY <1>4, <1>7 DEF Lib
<1>10. Wires'
  BY <1>1, <1>7, <1>8, <1>9 DEF Lib, Wires, Conns
<1> QED BY <1>1, <1>2, <1>4, <1>9, <1>10

(* The server closes a connection; the server ends.                        *)
LEMMA BreakIs ==
    ASSUME Lib, NEW c \in Conns, Break(c)
    PROVE  /\ Wires' /\ fd[c] /\ ~eof[c] /\ eof'[c] /\ toServer'[c] = <<>>
           /\ [k |-> "!", n |-> 0] \in Lines
           /\ \A d \in Conns : d # c => /\ toClient'[d] = toClient[d] /\ eof'[d] = eof[d]
                                        /\ toServer'[d] = toServer[d]
           /\ toClient'[c] \in {toClient[c], Append(toClient[c], [k |-> "!", n |-> 0])}
<1>1. PICK l : l = [k |-> "!", n |-> 0]
  OBVIOUS
<1>2. l \in Lines
  BY <1>1 DEF Lines, Kinds
<1>3. /\ fd[c] /\ ~eof[c] /\ eof' = [eof EXCEPT ![c] = TRUE]
      /\ toServer' = [toServer EXCEPT ![c] = <<>>]
      /\ \/ toClient' = [toClient EXCEPT ![c] = Append(toClient[c], l)]
         \/ toClient' = toClient
      /\ fd' = fd /\ notify' = notify
  BY <1>1 DEF Break, client
<1>4. toClient[c] \in Seq(Lines) /\ Append(toClient[c], l) \in Seq(Lines) /\ <<>> \in Seq(Messages)
  BY <1>2, Behind DEF Lib
<1>5. /\ toServer' \in [Conns -> Seq(Messages)] /\ toClient' \in [Conns -> Seq(Lines)]
      /\ eof' \in [Conns -> BOOLEAN]
  BY <1>3, <1>4 DEF Lib
<1>6. /\ eof'[c] /\ toServer'[c] = <<>>
      /\ \A d \in Conns : d # c => /\ toClient'[d] = toClient[d] /\ eof'[d] = eof[d]
                                   /\ toServer'[d] = toServer[d]
      /\ toClient'[c] \in {toClient[c], Append(toClient[c], l)}
  BY <1>3 DEF Lib
<1>7. Wires'
  BY <1>3, <1>5, <1>6 DEF Lib, Wires, Conns
<1> QED BY <1>1, <1>2, <1>3, <1>6, <1>7

(* When the server dies, nothing is on the way to it and every connection  *)
(* is at its end.                                                          *)
LEMMA DiesIs ==
    ASSUME Lib, ServerDies
    PROVE  /\ Wires' /\ UNCHANGED <<toClient, fd, notify>>
           /\ \A c \in Conns : eof'[c] /\ toServer'[c] = <<>>
<1>1. <<>> \in Seq(Messages)
  OBVIOUS
<1> QED BY <1>1 DEF Lib, Wires, ServerDies, client

-----------------------------------------------------------------------------
(* Lib holds in every state.                                               *)

(* The connections are well typed at the start.                            *)
LEMMA LibInit == Init => Lib
<1>1. <<>> \in Seq(Messages) /\ <<>> \in Seq(Lines)
  OBVIOUS
<1>2. Init => /\ fd \in [Conns -> BOOLEAN] /\ eof \in [Conns -> BOOLEAN]
              /\ notify \in [Conns -> BOOLEAN] /\ toServer \in [Conns -> Seq(Messages)]
              /\ toClient \in [Conns -> Seq(Lines)]
              /\ \A c \in Conns : toClient[c] = <<>> /\ ~notify[c] /\ toServer[c] = <<>>
  BY <1>1 DEF Init
<1>3. Init => Scalars
  BY DEF Init, Scalars
<1> QED BY <1>2, <1>3 DEF Lib, Scalars, Conns

(* Lib is its two halves: the connections and the scalars.                 *)
LEMMA LibFrom == Wires' /\ Scalars' => Lib'
  BY DEF Wires, Scalars, Lib

(* The steps of rptp and of its user keep Lib.                             *)
LEMMA RptpLib ==
    ASSUME Lib,
           \/ RptpOpen \/ do_application \/ Answer \/ ListLine \/ GetData \/ PutData \/ MonitorData
           \/ RptpFails \/ (\E t \in Typed : Type(t) \/ TypeLocal(t))
    PROVE  Lib'
<1> USE DEF rptpOnly
<1>0. "ctl" \in Conns
  BY DEF Conns
<1>a. Size \in Nat
  BY BoundAssumption
<1>b. Scalars
  BY DEF Lib, Scalars
<1>1. CASE RptpOpen
  <2>1. Wires' /\ faults' \in Nat
    BY <1>0, <1>1, ConnectIs DEF RptpOpen
  <2>2. Scalars'
    BY <1>1, <1>b, <2>1 DEF RptpOpen, Scalars
  <2> QED BY <2>1, <2>2, LibFrom
<1>2. ASSUME NEW t \in Ops, NEW then, Sends(t, then), prog' = prog
      PROVE  Lib'
  <2>1. Line(t) \in Ops
    BY DEF Line, HasEquals, Ops
  <2>2. Wires'
    BY <1>0, <1>2, <2>1, PutIs DEF Sends
  <2>3. Scalars'
    BY <1>2, <1>b, <2>1 DEF Sends, Scalars
  <2> QED BY <2>2, <2>3, LibFrom
<1>3. CASE do_application
  BY <1>2, <1>3 DEF do_application, Sends, Ops
<1>4. ASSUME NEW t \in Typed, Type(t) PROVE Lib'
  <2>1. t \in Ops
    BY TypedAssumption DEF Ops
  <2> QED BY <1>2, <1>4, <2>1 DEF Type, Sends
<1>5. CASE Answer
  <2>1. toClient["ctl"] # <<>>
    BY <1>5 DEF Answer, HasLine
  <2>2. \/ Close("ctl") /\ UNCHANGED <<eof, toServer>>
        \/ /\ toClient' = [toClient EXCEPT !["ctl"] = Tail(@)]
           /\ UNCHANGED <<fd, eof, toServer, notify>>
    BY <1>5 DEF Answer
  <2>3. Wires'
    BY <1>0, <2>1, <2>2, CloseIs, TakeIs
  <2>4. i' \in Int /\ faults' = faults /\ prog' = prog /\ n' = n /\ command' = command
        /\ entry' = entry
    BY <1>5, <1>a DEF Answer, Lib
  <2>5. Scalars'
    BY <1>b, <2>4 DEF Scalars
  <2> QED BY <2>3, <2>5, LibFrom
<1>6. CASE ListLine \/ GetData \/ MonitorData
  <2>1. /\ toClient["ctl"] # <<>> /\ toClient' = [toClient EXCEPT !["ctl"] = Tail(@)]
        /\ UNCHANGED <<fd, eof, toServer, notify>>
    BY <1>6 DEF ListLine, GetData, MonitorData, HasLine, Take
  <2>2. Wires'
    BY <1>0, <2>1, TakeIs
  <2>3. Scalars'
    BY <1>b, <1>6 DEF Scalars, ListLine, GetData, MonitorData
  <2> QED BY <2>2, <2>3, LibFrom
<1>7. CASE PutData
  <2>1. PICK m : m = [op |-> "data", n |-> n, id |-> 0]
    OBVIOUS
  <2>2. m \in Messages
    BY <2>1 DEF Messages, Ops, Lib
  <2>3. /\ toServer' = [toServer EXCEPT !["ctl"] = Append(toServer["ctl"], m)] /\ ~eof["ctl"]
        /\ UNCHANGED <<fd, eof, toClient, notify>>
    BY <1>7, <2>1 DEF PutData
  <2>4. Append(toServer["ctl"], m) \in Seq(Messages)
    BY <1>0, <2>2, Behind DEF Lib
  <2>5. toServer' \in [Conns -> Seq(Messages)]
    BY <2>3, <2>4 DEF Lib
  <2>6. Wires'
    BY <2>3, <2>5 DEF Lib, Wires
  <2>7. Scalars'
    BY <1>b, <1>7 DEF Scalars, PutData
  <2> QED BY <2>6, <2>7, LibFrom
<1>8. CASE RptpFails \/ \E t \in Typed : TypeLocal(t)
  <2>1. /\ UNCHANGED <<eof, toServer>>
        /\ Close("ctl") \/ UNCHANGED <<fd, toClient, notify>>
    BY <1>8 DEF RptpFails, TypeLocal
  <2>2. Wires'
    <3>1. CASE Close("ctl")
      BY <1>0, <2>1, <3>1, CloseIs
    <3>2. CASE UNCHANGED <<fd, toClient, notify>>
      BY <2>1, <3>2 DEF Lib, Wires
    <3> QED BY <2>1, <3>1, <3>2
  <2>3. Scalars'
    BY <1>b, <1>8 DEF Scalars, RptpFails, TypeLocal
  <2> QED BY <2>2, <2>3, LibFrom
<1> QED BY <1>1, <1>3, <1>4, <1>5, <1>6, <1>7, <1>8

(* The steps of rplay keep Lib.                                            *)
LEMMA RplayLib ==
    ASSUME Lib,
           \/ RplayOpen \/ AskInfo \/ Info \/ Udp \/ Reopen \/ Unopened \/ FlowOpen \/ Refused
           \/ play_with_play \/ play_with_flow \/ RplayAnswer \/ FlowData \/ AwaitDone \/ EatNotes
           \/ Interrupt
    PROVE  Lib'
<1> USE DEF rplayOnly
<1>0. "ctl" \in Conns /\ "flow" \in Conns
  BY DEF Conns
<1>a. Scalars /\ Wires
  BY DEF Lib, Scalars, Wires
<1>1. CASE RplayOpen \/ Reopen \/ FlowOpen
  <2>1. /\ \E c \in Conns, then, else \in {"info", "udp", "play", "unopened", "flow", "refused"} :
              Connect(c, then, else)
    BY <1>0, <1>1 DEF RplayOpen, Reopen, FlowOpen
  <2>2. Wires' /\ faults' \in Nat
    BY <2>1, ConnectIs
  <2>3. Scalars'
    BY <1>1, <1>a, <2>2 DEF RplayOpen, Reopen, FlowOpen, Scalars
  <2> QED BY <2>2, <2>3, LibFrom
<1>2. CASE AskInfo \/ play_with_play \/ play_with_flow
  <2>1. /\ \E c \in Conns, op \in Ops : Put(c, op)
        /\ UNCHANGED <<fd, eof, notify, toClient>>
    BY <1>0, <1>2 DEF AskInfo, play_with_play, play_with_flow, Step, Ops
  <2>2. Wires'
    BY <2>1, PutIs
  <2>3. n' = n + 1 /\ UNCHANGED <<prog, i, faults, command, entry>>
    BY <1>2 DEF AskInfo, play_with_play, play_with_flow, Step
  <2>4. Scalars'
    BY <1>a, <2>3 DEF Scalars
  <2> QED BY <2>2, <2>4, LibFrom
<1>3. ASSUME NEW c \in Conns, HasLine(c),
             toClient' = [toClient EXCEPT ![c] = Tail(@)], UNCHANGED <<fd, eof, toServer, notify>>
      PROVE  Wires'
  BY <1>3, TakeIs DEF HasLine
<1>4. ASSUME Close("ctl") \/ UNCHANGED <<fd, toClient, notify>>, UNCHANGED <<eof, toServer>>
      PROVE  Wires'
  <2>1. CASE Close("ctl")
    BY <1>0, <1>4, <2>1, CloseIs
  <2>2. CASE UNCHANGED <<fd, toClient, notify>>
    BY <1>a, <1>4, <2>2 DEF Wires
  <2> QED BY <1>4, <2>1, <2>2
<1>5. CASE Info
  <2>1. UNCHANGED <<fd, eof, toServer, notify>>
    BY <1>5 DEF Info
  <2>2. \/ HasLine("ctl") /\ toClient' = [toClient EXCEPT !["ctl"] = Tail(@)]
        \/ UNCHANGED toClient
    BY <1>5 DEF Info, Take
  <2>3. Wires'
    BY <1>0, <1>3, <1>4, <2>1, <2>2
  <2>4. i' \in Int /\ UNCHANGED <<prog, n, faults, command, entry>>
    <3>1. i' \in {i, i + 1, 1}
      BY <1>5 DEF Info, NextInfo
    <3> QED BY <1>5, <1>a, <3>1 DEF Info, Scalars
  <2>5. Scalars'
    BY <1>a, <2>4 DEF Scalars
  <2> QED BY <2>3, <2>5, LibFrom
<1>6. CASE Udp \/ Unopened \/ Refused
  <2>1. /\ Close("ctl") \/ UNCHANGED <<fd, toClient, notify>>
        /\ UNCHANGED <<eof, toServer>>
    BY <1>6 DEF Udp, Unopened, Refused, NextSound
  <2>2. i' \in {i, i + 1} /\ UNCHANGED <<prog, n, faults, command, entry>>
    BY <1>6 DEF Udp, Unopened, Refused, NextSound
  <2>3. Scalars'
    BY <1>a, <2>2 DEF Scalars
  <2> QED BY <1>4, <2>1, <2>3, LibFrom
<1>7. CASE RplayAnswer
  <2>1. PICK c \in Conns : c = Awaits(pc)
    BY <1>0 DEF Awaits
  <2>2. /\ \/ HasLine(c) /\ toClient' = [toClient EXCEPT ![c] = Tail(@)]
                        /\ UNCHANGED <<fd, notify>>
           \/ toClient' = [toClient EXCEPT ![c] = @] /\ UNCHANGED <<fd, notify>>
           \/ Close("ctl") 
           \/ UNCHANGED <<fd, toClient, notify>>
        /\ UNCHANGED <<eof, toServer>>
    BY <1>7, <2>1 DEF RplayAnswer, NextSound
  <2>3. toClient' = [toClient EXCEPT ![c] = @] => toClient' = toClient
    BY <1>a DEF Wires
  <2>4. Wires'
    BY <1>3, <1>4, <2>2, <2>3
  <2>5. i' \in {i, i + 1} /\ UNCHANGED <<prog, n, faults, command, entry>>
    BY <1>7 DEF RplayAnswer, NextSound
  <2>6. Scalars'
    BY <1>a, <2>5 DEF Scalars
  <2> QED BY <2>4, <2>6, LibFrom
<1>8. CASE FlowData
  <2>1. PICK m : m = [op |-> "data", n |-> n, id |-> i]
    OBVIOUS
  <2>2. m \in Messages
    BY <2>1 DEF Messages, Ops, Lib
  <2>3. PICK p : p = IF eof["flow"] THEN toServer["flow"] ELSE Append(toServer["flow"], m)
    OBVIOUS
  <2>4. toServer["flow"] \in Seq(Messages) /\ p \in Seq(Messages)
    BY <1>0, <2>2, <2>3, Behind DEF Lib
  <2>5. toServer' = [toServer EXCEPT !["flow"] = p] /\ Close("flow") /\ eof' = eof
    BY <1>8, <2>1, <2>3 DEF FlowData
  <2>6. toServer' \in [Conns -> Seq(Messages)]
    BY <2>4, <2>5 DEF Lib
  <2>7. eof["flow"] => toServer'["flow"] = <<>>
    BY <1>0, <2>3, <2>5 DEF Lib
  <2>8. toServer'["ctl"] = toServer["ctl"]
    BY <1>0, <2>5 DEF Lib
  <2>9. /\ fd' \in [Conns -> BOOLEAN] /\ notify' \in [Conns -> BOOLEAN]
        /\ toClient' \in [Conns -> Seq(Lines)] /\ toClient'["flow"] = <<>>
        /\ toClient'["ctl"] = toClient["ctl"] /\ fd'["ctl"] = fd["ctl"]
        /\ notify'["ctl"] = notify["ctl"]
    <3>1. <<>> \in Seq(Lines)
      OBVIOUS
    <3> QED BY <1>0, <2>5, <3>1 DEF Lib, Close
  <2>10. Wires'
    BY <2>5, <2>6, <2>7, <2>8, <2>9 DEF Lib, Wires, Conns
  <2>11. Scalars'
    BY <1>8, <1>a DEF FlowData, Scalars
  <2> QED BY <2>10, <2>11, LibFrom
<1>9. CASE AwaitDone \/ EatNotes
  <2>1. /\ \/ /\ HasLine("ctl") /\ toClient' = [toClient EXCEPT !["ctl"] = Tail(@)]
              /\ UNCHANGED <<fd, notify>>
           \/ Close("ctl")
           \/ UNCHANGED <<fd, toClient, notify>>
        /\ UNCHANGED <<eof, toServer>>
    BY <1>9 DEF AwaitDone, EatNotes, NextSound, Take
  <2>2. Wires'
    BY <1>0, <1>3, <1>4, <2>1
  <2>3. i' \in {i, i + 1} /\ UNCHANGED <<prog, n, faults, command, entry>>
    BY <1>9 DEF AwaitDone, EatNotes, NextSound
  <2>4. Scalars'
    BY <1>a, <2>3 DEF Scalars
  <2> QED BY <2>2, <2>4, LibFrom
<1>10. CASE Interrupt
  <2>1. Scalars'
    BY <1>10, <1>a DEF Interrupt, Scalars
  <2>2. Wires'
    BY <1>10, <1>a DEF Interrupt, Wires, lib
  <2> QED BY <2>1, <2>2, LibFrom
<1> QED BY <1>1, <1>2, <1>5, <1>6, <1>7, <1>8, <1>9, <1>10

(* The steps of the server and the faults keep Lib.                        *)
LEMMA ServerLib ==
    ASSUME Lib, Server \/ Faults \/ UNCHANGED vars
    PROVE  Lib'
<1> USE DEF client
<1>a. Scalars /\ Wires
  BY DEF Lib, Scalars, Wires
<1>1. ASSUME NEW c \in Conns, Serve(c) PROVE Lib'
  <2>1. Wires'
    BY <1>1, ServeIs
  <2>2. \/ entry' = entry
        \/ \E id, st : st \in {"flow", "playing"} /\ entry' = [entry EXCEPT ![id] = st]
    BY <1>1, ServeIs
  <2>3. entry' \in [Sounds -> {"none", "playing", "flow", "done"}]
    BY <1>a, <2>2 DEF Scalars
  <2>4. Scalars'
    BY <1>1, <1>a, <2>3 DEF Serve, Scalars
  <2> QED BY <2>1, <2>4, LibFrom
<1>2. ASSUME NEW s \in Sounds, Done(s) PROVE Lib'
  <2>1. s \in Int
    BY BoundAssumption DEF Sounds
  <2>2. Tell(s) /\ UNCHANGED <<fd, eof, notify, toServer>>
    BY <1>2 DEF Done
  <2>3. Wires'
    BY <2>1, <2>2, TellIs
  <2>4. entry' = [entry EXCEPT ![s] = "done"] /\ UNCHANGED <<prog, n, i, faults, command>>
    BY <1>2 DEF Done
  <2>5. Scalars'
    BY <1>a, <2>4 DEF Scalars
  <2> QED BY <2>3, <2>5, LibFrom
<1>3. CASE OtherDone
  <2>1. PICK id \in Int : id = 0 /\ Tell(id) /\ UNCHANGED <<fd, eof, notify, toServer>>
    BY <1>3 DEF OtherDone
  <2>2. Wires'
    BY <2>1, TellIs
  <2>3. Scalars'
    BY <1>a, <1>3 DEF Scalars, OtherDone
  <2> QED BY <2>2, <2>3, LibFrom
<1>4. CASE ServerDies
  <2>1. Wires'
    BY <1>4, DiesIs
  <2>2. Scalars'
    BY <1>a, <1>4 DEF Scalars, ServerDies
  <2> QED BY <2>1, <2>2, LibFrom
<1>5. ASSUME NEW c \in Conns, Break(c) PROVE Lib'
  <2>1. Wires'
    BY <1>5, BreakIs
  <2>2. Scalars'
    BY <1>a, <1>5 DEF Scalars, Break
  <2> QED BY <2>1, <2>2, LibFrom
<1>6. CASE UNCHANGED vars
  BY <1>6 DEF vars, lib, Lib
<1> QED BY <1>1, <1>2, <1>3, <1>4, <1>5, <1>6 DEF Server, Faults

(* Every step keeps Lib.                                                   *)
LEMMA LibNext == Lib /\ [Next]_vars => Lib'
  BY RptpLib, RplayLib, ServerLib DEF Next, Client, User

-----------------------------------------------------------------------------
(* rptp.  What is on its way, at each place of the program: e, the server  *)
(* has closed the connection; asked, it is to get notes; num, the number of*)
(* the last command; left, what is left to read.  p is on its way to the   *)
(* server, q to the program.                                               *)

(* The d lines of q, and if the server has closed, maybe a last one.       *)
Rest(e, q, d) == \/ Len(q) = d
                 \/ e = TRUE /\ Len(q) = d + 1 /\ q[d + 1].k = "!"
OnlyData(p) == \A j \in 1..Len(p) : p[j].op = "data"

(* The answer to the command is not there yet.                             *)
Fits(at, op) == \/ op = at
                \/ at \in {"application?", "skip"} /\ op \in {"application", "skip"}
Pending(at, e, asked, num, p, q) ==
    /\ Rest(e, q, 0) /\ asked = FALSE
    /\ \/ e = TRUE
       \/ /\ Len(p) > 0 /\ p[Len(p)].n = num /\ Fits(at, p[Len(p)].op)
          /\ \A j \in 1..(Len(p) - 1) : p[j].op = "data"

(* The dot that ends a list.                                               *)
Dot(e, q, from) == \E d \in from..Len(q) : /\ q[d].k = "." /\ Rest(e, q, d)
                                           /\ \A j \in from..(d - 1) : q[j].k # "."

(* The answer is there, and what belongs to it.                            *)
Replied(at, e, num, p, q) ==
    /\ OnlyData(p) /\ Len(q) > 0 /\ q[1].n = num /\ q[1].k \in {"+", "-"}
    /\ \/ q[1].k = "+" /\ at = "list" /\ Dot(e, q, 2)
       \/ q[1].k = "+" /\ at = "get" /\ Rest(e, q, Size + 1)
       \/ q[1].k = "+" /\ at = "monitor"
       \/ at = "notify"
       \/ (q[1].k = "-" \/ at \notin {"list", "get"}) /\ Rest(e, q, 1)

Asks == {"generic", "list", "get", "put", "notify", "skip", "monitor", "application?"}
Reads(at, e, asked, num, left, p, q) ==
    \/ at \in {"application", "prompt", "puting"} /\ OnlyData(p) /\ Rest(e, q, 0)
    \/ at \in Asks /\ (Pending(at, e, asked, num, p, q) \/ Replied(at, e, num, p, q))
    \/ at = "listing" /\ OnlyData(p) /\ Dot(e, q, 1)
    \/ at = "geting" /\ OnlyData(p) /\ left > 0 /\ Rest(e, q, left)
    \/ at = "monitoring" /\ OnlyData(p)

(* rptp's inductive invariant: it plays nothing, and unless it is skewed,  *)
(* what is on its way is what the place it has come to will read.          *)
NoSounds ==
    /\ \A s \in Sounds : entry[s] = "none"
    /\ ~fd["flow"] /\ toServer["flow"] = <<>>
    /\ \A j \in 1..Len(toServer["ctl"]) : toServer["ctl"][j].op \notin {"play", "flow"}
    /\ command \notin {"play", "flow"}
InStep ==
    /\ ~fd["ctl"] => pc \in {"open", "prompt", "exit"}
    /\ fd["ctl"] =>
          /\ Reads(pc, eof["ctl"], notify["ctl"], n, i, toServer["ctl"], toClient["ctl"])
          /\ notify["ctl"] => pc = "notify"
          /\ command = "notify" => pc \in {"notify", "application"}
RptpInv == prog = "rptp" => NoSounds /\ (~skewed => InStep)

(* A line is read.                                                         *)
LEMMA RestTail ==
    ASSUME NEW q \in Seq(Lines), q # <<>>, NEW e, NEW d \in Int, d > 0, Rest(e, q, d)
    PROVE  Rest(e, Tail(q), d - 1)
<1>1. PICK r : r = Tail(q)
  OBVIOUS
<1>2. /\ r \in Seq(Lines) /\ Len(q) \in Nat /\ Len(r) = Len(q) - 1
      /\ \A j \in 1..(Len(q) - 1) : r[j] = q[j + 1]
  BY <1>1, Behead
<1>3. CASE Len(q) = d
  BY <1>1, <1>2, <1>3 DEF Rest
<1>4. CASE e = TRUE /\ Len(q) = d + 1 /\ q[d + 1].k = "!"
  BY <1>1, <1>2, <1>4 DEF Rest
<1> QED BY <1>3, <1>4 DEF Rest

(* Reading a line of a list that is not the last leaves the dot ahead.     *)
LEMMA DotTail ==
    ASSUME NEW q \in Seq(Lines), q # <<>>, NEW e, NEW from \in {1, 2}, Dot(e, q, from),
           from = 1 => q[1].k # "."
    PROVE  Dot(e, Tail(q), 1)
<1>1. PICK r : r = Tail(q)
  OBVIOUS
<1>2. /\ r \in Seq(Lines) /\ Len(q) \in Nat /\ Len(r) = Len(q) - 1
      /\ \A j \in 1..(Len(q) - 1) : r[j] = q[j + 1]
  BY <1>1, Behead
<1>3. PICK d \in from..Len(q) : /\ q[d].k = "." /\ Rest(e, q, d)
                                /\ \A j \in from..(d - 1) : q[j].k # "."
  BY DEF Dot
<1>4. d \in Int /\ d > 1 /\ d - 1 \in 1..Len(r) /\ r[d - 1] = q[d]
  BY <1>2, <1>3
<1>5. Rest(e, r, d - 1)
  BY <1>1, <1>3, <1>4, RestTail
<1>6. ASSUME NEW j \in 1..((d - 1) - 1) PROVE r[j].k # "."
  <2>1. j + 1 \in from..(d - 1) /\ r[j] = q[j + 1]
    BY <1>2, <1>3, <1>4
  <2> QED BY <1>3, <2>1
<1> QED BY <1>1, <1>3, <1>4, <1>5, <1>6 DEF Dot

(* A break leaves what rptp has still to read as it was, but for the       *)
(* farewell.                                                               *)
LEMMA ReadsBreak ==
    ASSUME NEW p \in Seq(Messages), NEW q \in Seq(Lines), NEW l \in Lines, l.k = "!",
           NEW e, e = FALSE, NEW f, f = TRUE, NEW none, none = <<>>, NEW at, NEW asked, NEW num, NEW left \in Int,
           Reads(at, e, asked, num, left, p, q)
    PROVE  /\ Reads(at, f, asked, num, left, none, q)
           /\ Reads(at, f, asked, num, left, none, Append(q, l))
<1>1. OnlyData(none)
  BY DEF OnlyData
<1>2. Size \in Nat
  BY BoundAssumption
<1>3. PICK r : r = Append(q, l)
  OBVIOUS
<1>4. /\ Len(q) \in Nat /\ Len(r) = Len(q) + 1 /\ r[Len(q) + 1].k = "!"
      /\ \A j \in 1..Len(q) : r[j] = q[j]
  BY <1>3, Behind, Nothing
<1>5. ASSUME NEW from \in {1, 2}, Dot(e, q, from) PROVE Dot(f, q, from) /\ Dot(f, r, from)
  <2>1. PICK d \in from..Len(q) : /\ q[d].k = "." /\ Rest(e, q, d)
                                  /\ \A j \in from..(d - 1) : q[j].k # "."
    BY <1>5 DEF Dot
  <2>2. Rest(f, q, d) /\ Rest(f, r, d)
    BY <1>4, <2>1 DEF Rest
  <2>3. Dot(f, q, from)
    BY <2>1, <2>2 DEF Dot
  <2>4. d \in from..Len(r) /\ r[d] = q[d] /\ \A j \in from..(d - 1) : r[j].k # "."
    BY <1>4, <2>1
  <2>5. Dot(f, r, from)
    BY <2>1, <2>2, <2>4 DEF Dot
  <2> QED BY <2>3, <2>5
<1>6. Len(q) > 0 => r[1] = q[1]
  BY <1>4
<1>7. ASSUME Pending(at, e, asked, num, p, q)
      PROVE  /\ Pending(at, f, asked, num, none, q)
             /\ Pending(at, f, asked, num, none, r)
  BY <1>4, <1>6, <1>7 DEF Pending, Rest
<1>8. ASSUME Replied(at, e, num, p, q)
      PROVE  /\ Replied(at, f, num, none, q)
             /\ Replied(at, f, num, none, r)
  <2>1. /\ Rest(e, q, Size + 1) => Rest(f, q, Size + 1) /\ Rest(f, r, Size + 1)
        /\ Rest(e, q, 1) => Rest(f, q, 1) /\ Rest(f, r, 1)
        /\ Dot(e, q, 2) => Dot(f, q, 2) /\ Dot(f, r, 2)
    BY <1>2, <1>4, <1>5 DEF Rest
  <2>2. Len(r) > 0 /\ r[1] = q[1]
    BY <1>4, <1>6, <1>8 DEF Replied
  <2> QED BY <1>1, <1>8, <2>1, <2>2 DEF Replied, Rest
<1>9. /\ Rest(e, q, 0) => Rest(f, q, 0) /\ Rest(f, r, 0)
      /\ Rest(e, q, left) => Rest(f, q, left) /\ Rest(f, r, left)
      /\ Dot(e, q, 1) => Dot(f, q, 1) /\ Dot(f, r, 1)
  BY <1>4, <1>5 DEF Rest
<1> QED BY <1>1, <1>3, <1>7, <1>8, <1>9 DEF Reads

(* The server answers.                                                     *)
LEMMA ReadsServe ==
    ASSUME Lib, InStep, fd["ctl"], Serve("ctl")
    PROVE  /\ Reads(pc, eof'["ctl"], notify'["ctl"], n, i, toServer'["ctl"], toClient'["ctl"])
           /\ notify'["ctl"] = TRUE => pc = "notify"
<1>a. PICK c, p, q, e, asked, at, num, left :
        /\ c = "ctl" /\ p = toServer[c] /\ q = toClient[c] /\ e = eof[c] /\ asked = notify[c]
        /\ at = pc /\ num = n /\ left = i
  OBVIOUS
<1>0. c \in Conns /\ p \in Seq(Messages) /\ q \in Seq(Lines)
  BY <1>a DEF Lib, Conns
<1>b. PICK r, t, now : r = toServer'[c] /\ t = toClient'[c] /\ now = notify'[c]
  OBVIOUS
<1>c. Reads(at, e, asked, num, left, p, q) /\ (asked = TRUE => at = "notify")
  BY <1>a DEF InStep
<1>d. p # <<>> /\ e = FALSE /\ eof'[c] = e /\ asked \in BOOLEAN
  BY <1>a DEF Serve, Lib, Conns
<1>e. PICK m : m = p[1]
  OBVIOUS
<1>f. PICK lines \in Replies(c, m) :
        /\ r = Tail(p) /\ t = q \o lines
        /\ now = IF m.op = "notify" THEN TRUE ELSE IF m.op = "none" THEN FALSE ELSE asked
  BY <1>0, <1>a, <1>b, <1>e, ServeIs
<1>g. SUFFICES Reads(at, e, now, num, left, r, t) /\ (now = TRUE => at = "notify")
  BY <1>a, <1>b, <1>d
<1>2. /\ r \in Seq(Messages) /\ Len(p) \in Nat /\ Len(p) > 0 /\ Len(r) = Len(p) - 1
      /\ \A j \in 1..(Len(p) - 1) : r[j] = p[j + 1]
  BY <1>0, <1>d, <1>f, Behead
<1>3. m \in Messages
  BY <1>0, <1>d, <1>e, Behead
<1>4. OnlyData(p) => OnlyData(r)
  <2> SUFFICES ASSUME OnlyData(p), NEW j \in 1..Len(r) PROVE r[j].op = "data"
    BY DEF OnlyData
  <2>1. r[j] = p[j + 1] /\ j + 1 \in 1..Len(p)
    BY <1>2
  <2> QED BY <2>1 DEF OnlyData
<1>5. CASE m.op = "data"
  <2>1. t = q /\ now = asked
    <3>1. lines \in Seq(Lines) /\ lines = <<>>
      BY <1>0, <1>3, <1>5, RepliesAre
    <3> QED BY <1>0, <1>5, <1>f, <3>1, Joined
  <2>2. ASSUME Pending(at, e, asked, num, p, q), at \in Asks
        PROVE  Pending(at, e, now, num, r, t)
    <3>1. /\ p[Len(p)].n = num /\ Fits(at, p[Len(p)].op)
          /\ \A j \in 1..(Len(p) - 1) : p[j].op = "data"
      BY <1>d, <2>2 DEF Pending
    <3>2. Len(p) # 1
      BY <1>5, <1>e, <2>2, <3>1 DEF Fits, Asks
    <3>3. Len(r) > 0 /\ r[Len(r)] = p[Len(p)]
      BY <1>2, <3>2
    <3>4. \A j \in 1..(Len(r) - 1) : r[j].op = "data"
      <4> TAKE j \in 1..(Len(r) - 1)
      <4>1. r[j] = p[j + 1] /\ j + 1 \in 1..(Len(p) - 1)
        BY <1>2
      <4> QED BY <3>1, <4>1
    <3> QED BY <2>1, <2>2, <3>1, <3>3, <3>4 DEF Pending
  <2>3. Replied(at, e, num, p, q) => Replied(at, e, num, r, t)
    BY <1>4, <2>1 DEF Replied
  <2>4. Reads(at, e, now, num, left, r, t)
    BY <1>4, <1>c, <2>1, <2>2, <2>3 DEF Reads
  <2> QED BY <1>c, <2>1, <2>4
<1>6. CASE m.op # "data"
  <2>1. ~OnlyData(p)
    BY <1>2, <1>6, <1>e DEF OnlyData
  <2>2. at \in Asks /\ Pending(at, e, asked, num, p, q)
    BY <1>c, <2>1 DEF Reads, Replied
  <2>3. Len(p) = 1 /\ m.n = num /\ Fits(at, m.op) /\ asked = FALSE /\ Len(q) = 0
    <3>1. /\ Len(p) > 0 /\ p[Len(p)].n = num /\ Fits(at, p[Len(p)].op) /\ asked = FALSE
          /\ Rest(e, q, 0) /\ \A j \in 1..(Len(p) - 1) : p[j].op = "data"
      BY <1>d, <2>2 DEF Pending
    <3>2. Len(p) = 1
      BY <1>2, <1>6, <1>e, <3>1
    <3> QED BY <1>d, <1>e, <3>1, <3>2 DEF Rest
  <2>4. q = <<>>
    BY <1>0, <2>3, Nothing
  <2>5. lines \in Seq(Lines)
    BY <1>0, <1>3, RepliesAre
  <2>6. t = lines
    BY <1>0, <1>f, <2>4, <2>5, Joined
  <2>7. /\ lines # <<>> /\ lines[1].n = num /\ lines[1].k \in {"+", "-"}
        /\ lines[1].k = "-" => Len(lines) = 1
        /\ m.op = "list" /\ lines[1].k = "+" =>
              /\ Len(lines) = Size + 2 /\ lines[Size + 2].k = "."
              /\ \A j \in 2..(Size + 1) : lines[j].k # "."
        /\ m.op = "get" /\ lines[1].k = "+" => Len(lines) = Size + 1
        /\ m.op \notin {"list", "get", "monitor", "data"} => Len(lines) = 1
        /\ m.op = "monitor" => lines[1].k = "+"
    BY <1>0, <1>3, <1>6, <2>3, RepliesAre
  <2>8. now = TRUE => at = "notify"
    BY <1>f, <2>3 DEF Fits
  <2>9. Len(lines) \in Nat /\ Len(lines) > 0
    BY <2>5, <2>7, Nothing
  <2>10. OnlyData(r)
    BY <1>2, <2>3 DEF OnlyData
  <2>11. Size \in Nat
    BY BoundAssumption
  <2>12. Replied(at, e, num, r, t)
    <3>1. CASE at = "list"
      <4>1. m.op = "list"
        BY <2>3, <3>1 DEF Fits
      <4>2. CASE lines[1].k = "+"
        <5>1. Size + 2 \in 2..Len(lines) /\ Rest(e, lines, Size + 2)
          BY <2>7, <2>11, <4>1, <4>2 DEF Rest
        <5>2. \A j \in 2..((Size + 2) - 1) : lines[j].k # "."
          BY <2>7, <2>11, <4>1, <4>2
        <5>3. Dot(e, lines, 2)
          BY <2>7, <4>1, <4>2, <5>1, <5>2 DEF Dot
        <5> QED BY <2>6, <2>7, <2>9, <2>10, <3>1, <4>2, <5>3 DEF Replied
      <4>3. CASE lines[1].k = "-"
        BY <2>6, <2>7, <2>9, <2>10, <4>3 DEF Replied, Rest
      <4> QED BY <2>7, <4>2, <4>3
    <3>2. CASE at = "get"
      <4>1. m.op = "get"
        BY <2>3, <3>2 DEF Fits
      <4> QED BY <2>6, <2>7, <2>9, <2>10, <3>2, <4>1 DEF Replied, Rest
    <3>3. CASE at = "monitor"
      <4>1. m.op = "monitor"
        BY <2>3, <3>3 DEF Fits
      <4> QED BY <2>6, <2>7, <2>9, <2>10, <3>3, <4>1 DEF Replied
    <3>4. CASE at \notin {"list", "get", "monitor"}
      <4>1. m.op \notin {"list", "get", "monitor", "data"}
        BY <1>6, <2>3, <3>4 DEF Fits
      <4> QED BY <2>6, <2>7, <2>9, <2>10, <3>4, <4>1 DEF Replied, Rest
    <3> QED BY <3>1, <3>2, <3>3, <3>4
  <2> QED BY <2>2, <2>8, <2>12 DEF Reads
<1> QED BY <1>5, <1>6

(* A command is written.                                                   *)
LEMMA ReadsAsk ==
    ASSUME NEW p \in Seq(Messages), NEW q \in Seq(Lines), NEW e \in BOOLEAN, NEW at \in Asks,
           NEW left, NEW num, NEW asked, asked = FALSE, OnlyData(p), Rest(e, q, 0),
           NEW m \in Messages, m.n = num, Fits(at, m.op),
           NEW r, r = IF e = TRUE THEN p ELSE Append(p, m)
    PROVE  Reads(at, e, asked, num, left, r, q)
<1>1. CASE e = TRUE
  BY <1>1 DEF Reads, Pending
<1>2. CASE e # TRUE
  <2>1. /\ Len(p) \in Nat /\ Len(r) = Len(p) + 1 /\ r[Len(p) + 1] = m
        /\ \A j \in 1..Len(p) : r[j] = p[j]
    <3>1. r = Append(p, m)
      BY <1>2
    <3> QED BY <3>1, Sent
  <2>2. /\ Len(r) > 0 /\ r[Len(r)] = m
        /\ \A j \in 1..(Len(r) - 1) : r[j].op = "data"
    BY <2>1 DEF OnlyData
  <2> QED BY <2>2 DEF Reads, Pending
<1> QED BY <1>1, <1>2

(* rptp plays nothing.                                                     *)
LEMMA RptpPlaysNothing ==
    ASSUME Lib, prog = "rptp", NoSounds, [Next]_vars
    PROVE  NoSounds'
<1>0. "ctl" \in Conns /\ "flow" \in Conns
  BY DEF Conns
<1>a. /\ toServer["ctl"] \in Seq(Messages) /\ Len(toServer["ctl"]) \in Nat
      /\ \A j \in 1..Len(toServer["ctl"]) : toServer["ctl"][j].op \notin {"play", "flow"}
      /\ \A s \in Sounds : entry[s] = "none"
      /\ ~fd["flow"] /\ toServer["flow"] = <<>> /\ command \notin {"play", "flow"}
  BY <1>0, Nothing DEF Lib, NoSounds
<1>b. ASSUME entry' = entry, command' \notin {"play", "flow"}, fd'["flow"] = fd["flow"],
             toServer'["flow"] = <<>>,
             \A j \in 1..Len(toServer'["ctl"]) : toServer'["ctl"][j].op \notin {"play", "flow"}
      PROVE  NoSounds'
  BY <1>a, <1>b DEF NoSounds
<1>c. ASSUME NEW m \in Messages, m.op \notin {"play", "flow"},
             toServer'["ctl"] \in {toServer["ctl"], Append(toServer["ctl"], m)}
      PROVE  \A j \in 1..Len(toServer'["ctl"]) : toServer'["ctl"][j].op \notin {"play", "flow"}
  <2>1. CASE toServer'["ctl"] = toServer["ctl"]
    BY <1>a, <2>1
  <2>2. CASE toServer'["ctl"] = Append(toServer["ctl"], m)
    <3>1. PICK r : r = toServer'["ctl"]
      OBVIOUS
    <3>2. /\ Len(r) = Len(toServer["ctl"]) + 1 /\ r[Len(toServer["ctl"]) + 1] = m
          /\ \A j \in 1..Len(toServer["ctl"]) : r[j] = toServer["ctl"][j]
      BY <1>a, <2>2, <3>1, Behind
    <3>3. \A j \in 1..Len(r) : r[j].op \notin {"play", "flow"}
      BY <1>a, <1>c, <3>2
    <3> QED BY <3>1, <3>3
  <2> QED BY <1>c, <2>1, <2>2
<1>1. CASE RptpOpen
  <2>1. Connect("ctl", "application", "prompt") /\ entry' = entry /\ command' = command
    BY <1>1 DEF RptpOpen, rptpOnly
  <2>2. /\ fd'["flow"] = fd["flow"] /\ toServer'["flow"] = toServer["flow"]
        /\ toServer'["ctl"] = <<>> \/ toServer' = toServer
    BY <1>0, <2>1, ConnectIs
  <2>3. \A j \in 1..Len(toServer'["ctl"]) : toServer'["ctl"][j].op \notin {"play", "flow"}
    BY <1>a, <2>2
  <2> QED BY <1>a, <1>b, <2>1, <2>2, <2>3
<1>2. ASSUME NEW t \in Ops, NEW then, Sends(t, then), t \notin {"play", "flow"} PROVE NoSounds'
  <2>1. Line(t) \in Ops /\ Line(t) \notin {"play", "flow"}
    BY <1>2 DEF Line, HasEquals, Ops
  <2>2. Put("ctl", Line(t)) /\ UNCHANGED <<fd, eof, notify, toClient, entry>>
        /\ command' \in {command, Line(t)}
    BY <1>2 DEF Sends, rptpOnly
  <2>3. PICK m : m = [op |-> Line(t), n |-> n + 1, id |-> i]
    OBVIOUS
  <2>4. m \in Messages /\ m.op = Line(t)
    BY <2>1, <2>3 DEF Messages, Lib
  <2>5. /\ toServer'["flow"] = toServer["flow"]
        /\ toServer'["ctl"] \in {toServer["ctl"], Append(toServer["ctl"], m)}
    BY <1>0, <2>1, <2>2, <2>3, PutIs
  <2> QED BY <1>a, <1>b, <1>c, <2>1, <2>2, <2>4, <2>5
<1>3. CASE do_application
  <2>1. Sends("application", "application?") /\ "application" \in Ops
    BY <1>3 DEF do_application, Ops
  <2> QED BY <1>2, <2>1
<1>4. ASSUME NEW t \in Typed, Type(t) PROVE NoSounds'
  <2>1. t \in Ops /\ t \notin {"play", "flow"}
    BY TypedAssumption DEF Ops
  <2> QED BY <1>2, <1>4, <2>1 DEF Type
<1>5. CASE PutData
  <2>1. PICK m : m = [op |-> "data", n |-> n, id |-> 0]
    OBVIOUS
  <2>2. m \in Messages /\ m.op = "data"
    BY <2>1 DEF Messages, Ops, Lib
  <2>3. /\ toServer' = [toServer EXCEPT !["ctl"] = Append(toServer["ctl"], m)]
        /\ fd' = fd /\ entry' = entry /\ command' = command
    BY <1>5, <2>1 DEF PutData, rptpOnly
  <2>4. toServer'["ctl"] = Append(toServer["ctl"], m) /\ toServer'["flow"] = toServer["flow"]
    BY <1>0, <2>3 DEF Lib
  <2> QED BY <1>a, <1>b, <1>c, <2>2, <2>3, <2>4
<1>6. CASE \/ Answer \/ ListLine \/ GetData \/ MonitorData \/ RptpFails
           \/ \E t \in Typed : TypeLocal(t)
  <2>1. /\ UNCHANGED <<toServer, entry, command>>
        /\ Close("ctl") \/ UNCHANGED fd
    BY <1>6 DEF Answer, ListLine, GetData, MonitorData, RptpFails, TypeLocal, rptpOnly
  <2>2. fd'["flow"] = fd["flow"]
    BY <1>0, <2>1 DEF Close, Lib
  <2> QED BY <1>a, <1>b, <2>1, <2>2
<1>7. ASSUME NEW c \in Conns, Serve(c) PROVE NoSounds'
  <2>1. c = "ctl"
    BY <1>7, <1>a, ServeIs DEF Conns
  <2>2. /\ toServer["ctl"] # <<>> /\ toServer'["ctl"] = Tail(toServer["ctl"])
        /\ toServer'["flow"] = toServer["flow"]
        /\ toServer["ctl"][1].op \notin {"play", "flow"} => entry' = entry
    BY <1>0, <1>7, <2>1, ServeIs
  <2>3. PICK r : r = toServer'["ctl"]
    OBVIOUS
  <2>4. /\ Len(toServer["ctl"]) > 0 /\ Len(r) = Len(toServer["ctl"]) - 1
        /\ \A j \in 1..(Len(toServer["ctl"]) - 1) : r[j] = toServer["ctl"][j + 1]
    BY <1>a, <2>2, <2>3, Behead
  <2>5. toServer["ctl"][1].op \notin {"play", "flow"}
    BY <1>a, <2>4
  <2>6. \A j \in 1..Len(r) : r[j].op \notin {"play", "flow"}
    <3> TAKE j \in 1..Len(r)
    <3>1. r[j] = toServer["ctl"][j + 1] /\ j + 1 \in 1..Len(toServer["ctl"])
      BY <1>a, <2>4
    <3> QED BY <1>a, <3>1
  <2>7. fd' = fd /\ command' = command
    BY <1>7 DEF Serve, client
  <2> QED BY <1>a, <1>b, <2>2, <2>3, <2>5, <2>6, <2>7
<1>8. ASSUME NEW s \in Sounds, Done(s) PROVE FALSE
  BY <1>8, <1>a DEF Done
<1>9. CASE OtherDone
  <2>1. UNCHANGED <<fd, toServer, entry, command>>
    BY <1>9 DEF OtherDone, client
  <2> QED BY <1>a, <1>b, <2>1
<1>10. CASE ServerDies
  <2>1. /\ \A c \in Conns : toServer'[c] = <<>>
        /\ \A s \in Sounds : entry'[s] = "none"
        /\ fd' = fd /\ command' = command
    BY <1>10, <1>a DEF ServerDies, client
  <2> QED BY <1>0, <1>a, <2>1 DEF NoSounds
<1>11. ASSUME NEW c \in Conns, Break(c) PROVE NoSounds'
  <2>1. c = "ctl"
    BY <1>11, <1>a DEF Break, Conns
  <2>2. toServer'["ctl"] = <<>> /\ toServer'["flow"] = toServer["flow"]
    BY <1>0, <1>11, <2>1, BreakIs
  <2>3. fd' = fd /\ command' = command /\ entry' = entry
    BY <1>11 DEF Break, client
  <2> QED BY <1>a, <1>b, <2>2, <2>3
<1>12. CASE UNCHANGED vars
  BY <1>12 DEF vars, lib, NoSounds
<1>13. CASE \/ RplayOpen \/ AskInfo \/ Info \/ Udp \/ Reopen \/ Unopened \/ FlowOpen \/ Refused
            \/ play_with_play \/ play_with_flow \/ RplayAnswer \/ FlowData \/ AwaitDone
            \/ EatNotes \/ Interrupt
  BY <1>13 DEF RplayOpen, AskInfo, Info, Udp, Reopen, Unopened, FlowOpen, Refused, play_with_play,
       play_with_flow, Step, RplayAnswer, FlowData, AwaitDone, EatNotes, Interrupt
<1> QED BY <1>1, <1>3, <1>4, <1>5, <1>6, <1>7, <1>8, <1>9, <1>10, <1>11, <1>12, <1>13
        DEF Next, Client, User, Server, Faults

(* What rptp does keeps it in step.                                        *)
LEMMA RptpActs ==
    ASSUME Lib, Lib', prog = "rptp", ~skewed => InStep, ~skewed',
           \/ RptpOpen \/ do_application \/ Answer \/ ListLine \/ GetData \/ PutData \/ MonitorData
           \/ RptpFails \/ (\E t \in Typed : Type(t) \/ TypeLocal(t))
    PROVE  InStep'
<1>0. "ctl" \in Conns
  BY DEF Conns
<1>a. Size \in Nat /\ Size > 0
  BY BoundAssumption
<1>b. PICK p \in Seq(Messages), q \in Seq(Lines), e \in BOOLEAN, asked \in BOOLEAN :
        p = toServer["ctl"] /\ q = toClient["ctl"] /\ e = eof["ctl"] /\ asked = notify["ctl"]
  BY <1>0 DEF Lib
<1>c. PICK pp \in Seq(Messages), qq \in Seq(Lines), ee \in BOOLEAN, nasked \in BOOLEAN :
        pp = toServer'["ctl"] /\ qq = toClient'["ctl"] /\ ee = eof'["ctl"] /\ nasked = notify'["ctl"]
  BY <1>0 DEF Lib
<1>d. n \in Int /\ i \in Int /\ n' \in Int /\ i' \in Int
  BY DEF Lib
<1>e. ASSUME ~fd'["ctl"], pc' \in {"open", "prompt", "exit"}
      PROVE  InStep'
  BY <1>e DEF InStep
<1>f. ASSUME fd'["ctl"], Reads(pc', ee, nasked, n', i', pp, qq), nasked = TRUE => pc' = "notify",
             command' = "notify" => pc' \in {"notify", "application"}
      PROVE  InStep'
  BY <1>c, <1>f DEF InStep
<1>g. ASSUME InStep
      PROVE  /\ ~fd["ctl"] => pc \in {"open", "prompt", "exit"}
             /\ fd["ctl"] => /\ Reads(pc, e, asked, n, i, p, q)
                             /\ asked = TRUE => pc = "notify"
                             /\ command = "notify" => pc \in {"notify", "application"}
  BY <1>b, <1>g DEF InStep
<1>h. /\ Len(p) \in Nat /\ (Len(p) = 0 <=> p = <<>>) /\ Len(q) \in Nat /\ (Len(q) = 0 <=> q = <<>>)
  BY Nothing
<1>1. CASE RptpOpen
  <2>1. pc = "open" /\ Connect("ctl", "application", "prompt") /\ ~skewed
    BY <1>1 DEF RptpOpen
  <2>2. ~fd["ctl"]
    BY <1>g, <2>1 DEF Reads, Asks
  <2>3. CASE fd'["ctl"]
    <3>1. pc' = "application" /\ nasked = FALSE /\ pp = <<>> /\ qq = <<>>
      BY <1>0, <1>c, <2>1, <2>2, <2>3, ConnectIs
    <3>2. Reads(pc', ee, nasked, n', i', pp, qq)
      BY <3>1 DEF Reads, OnlyData, Rest
    <3> QED BY <1>f, <2>3, <3>1, <3>2
  <2>4. CASE ~fd'["ctl"]
    <3>1. pc' \in {"open", "prompt"}
      BY <1>0, <2>1, <2>4, ConnectIs
    <3> QED BY <1>e, <2>4, <3>1
  <2> QED BY <2>3, <2>4
<1>2. ASSUME NEW t \in Ops, NEW then \in Asks, Sends(t, then), fd["ctl"], ~skewed, asked = FALSE,
             OnlyData(p), Rest(e, q, 0),
             \/ t = "application" /\ then = "application?"
             \/ t = then /\ t # "application" /\ command # "notify"
      PROVE  InStep'
  <2>1. Line(t) \in Ops /\ Fits(then, Line(t)) /\ (Line(t) = "notify" => then = "notify")
    BY <1>2 DEF Line, HasEquals, Ops, Fits
  <2>2. /\ Put("ctl", Line(t)) /\ UNCHANGED <<fd, eof, notify, toClient, i>> /\ n' = n + 1
        /\ pc' = then /\ command' = IF t \in {"get", "put"} THEN command ELSE Line(t)
    BY <1>2 DEF Sends
  <2>3. PICK m : m = [op |-> Line(t), n |-> n + 1, id |-> i]
    OBVIOUS
  <2>4. m \in Messages /\ m.op = Line(t) /\ m.n = n'
    BY <1>d, <2>1, <2>2, <2>3 DEF Messages
  <2>5. pp = IF e = TRUE THEN p ELSE Append(p, m)
    BY <1>0, <1>2, <1>b, <1>c, <2>1, <2>2, <2>3, PutIs
  <2>6. qq = q /\ ee = e /\ nasked = asked
    BY <1>b, <1>c, <2>2
  <2>7. Reads(then, e, asked, n', i', pp, q)
    BY <1>2, <2>1, <2>4, <2>5, ReadsAsk
  <2>8. command' = "notify" => then = "notify"
    BY <1>2, <2>1, <2>2
  <2> QED BY <1>2, <1>f, <2>2, <2>6, <2>7, <2>8
<1>3. CASE do_application
  <2>1. pc = "application" /\ Sends("application", "application?") /\ skewed' = skewed
    BY <1>3 DEF do_application, Sends
  <2>2. fd["ctl"] /\ OnlyData(p) /\ Rest(e, q, 0) /\ asked = FALSE
    BY <1>g, <2>1 DEF Reads, Asks
  <2>3. "application" \in Ops /\ "application?" \in Asks
    BY DEF Ops, Asks
  <2> QED BY <1>2, <2>1, <2>2, <2>3
<1>4. ASSUME NEW t \in Typed, Type(t) PROVE InStep'
  <2>1. /\ pc = "prompt" /\ fd["ctl"] /\ Sends(t, t) /\ t \notin {"open", "close", "quit"}
        /\ skewed' = skewed
    BY <1>4 DEF Type, Sends
  <2>2. OnlyData(p) /\ Rest(e, q, 0) /\ asked = FALSE /\ command # "notify"
    BY <1>g, <2>1 DEF Reads, Asks
  <2>3. t \in Ops /\ t \in Asks /\ t # "application"
    BY <2>1, TypedAssumption DEF Ops, Asks
  <2> QED BY <1>2, <2>1, <2>2, <2>3
<1>5. CASE Answer
  <2>1. /\ pc \in Typed \cup {"application?"} /\ fd["ctl"] /\ q # <<>> /\ eof' = eof
        /\ toServer' = toServer /\ response' = Head(q) /\ n' = n /\ command' = command
    BY <1>5, <1>b DEF Answer, HasLine
  <2>2. ~skewed
    BY <1>5 DEF Answer
  <2>3. Head(q) = q[1] /\ Len(q) > 0
    BY <2>1, Behead
  <2>4. pc \in Asks /\ (Pending(pc, e, asked, n, p, q) \/ Replied(pc, e, n, p, q))
    BY <1>g, <2>1, <2>2, TypedAssumption DEF Reads, Asks
  <2>5. CASE q[1].k \notin {"+", "-"}
    <3>1. q[1].k = "!"
      <4>1. Rest(e, q, 0)
        BY <2>4, <2>5 DEF Pending, Replied
      <4> QED BY <2>3, <4>1 DEF Rest
    <3>2. Close("ctl") /\ pc' = "prompt"
      BY <1>5, <2>1, <2>3, <3>1 DEF Answer, rptp_command
    <3>3. ~fd'["ctl"]
      BY <1>0, <3>2 DEF Close, Lib
    <3> QED BY <1>e, <3>2, <3>3
  <2>6. CASE q[1].k \in {"+", "-"}
    <3>1. Replied(pc, e, n, p, q)
      BY <2>4, <2>3, <2>6 DEF Pending, Rest
    <3>2. /\ toClient' = [toClient EXCEPT !["ctl"] = Tail(@)] /\ UNCHANGED <<fd, notify>>
          /\ \/ /\ q[1].k = "+" /\ pc \in {"list", "get", "put", "monitor"}
                /\ pc' = Reading(pc) /\ i' = Size
             \/ /\ q[1].k = "-" \/ pc \notin {"list", "get", "put", "monitor"}
                /\ pc' = "prompt" /\ pc # "notify"
      <4>1. rptp_command(response') = IF q[1].k = "-" THEN 1 ELSE 0
        BY <2>1, <2>3, <2>6 DEF rptp_command
      <4>2. PICK rr : rr = rptp_command(response')
        OBVIOUS
      <4>3. /\ toClient' = [toClient EXCEPT !["ctl"] = Tail(@)] /\ UNCHANGED <<fd, notify>>
            /\ \/ /\ rr = 0 /\ pc \in {"list", "get", "put", "monitor"}
                  /\ pc' = Reading(pc) /\ i' = Size
               \/ rr = 0 /\ pc = "get" /\ skewed' = TRUE
               \/ /\ rr = 1 \/ pc \notin {"list", "get", "put", "monitor"}
                  /\ pc' = "prompt"
                  /\ skewed' = (skewed \/ pc = "notify")
        BY <1>5, <2>6, <4>1, <4>2 DEF Answer
      <4>4. skewed' # TRUE
        BY Zenon
      <4>5. skewed' = (skewed \/ pc = "notify") => pc # "notify"
        BY Zenon
      <4> QED BY <2>6, <4>1, <4>2, <4>3, <4>4, <4>5
    <3>3. qq = Tail(q) /\ ee = e /\ nasked = asked /\ pp = p /\ fd'["ctl"]
      BY <1>0, <1>b, <1>c, <2>1, <3>2 DEF Lib
    <3>4. asked = FALSE /\ command # "notify"
      BY <1>g, <2>1, <2>2, <2>4, <3>2 DEF Asks
    <3>5. OnlyData(p)
      BY <3>1 DEF Replied
    <3>6. CASE q[1].k = "+" /\ pc = "list"
      <4>1. Dot(e, q, 2)
        BY <3>1, <3>6 DEF Replied
      <4>2. Dot(e, qq, 1)
        BY <2>1, <3>3, <4>1, DotTail
      <4>3. pc' = "listing"
        BY <3>2, <3>6 DEF Reading
      <4> QED BY <1>f, <2>1, <3>3, <3>4, <3>5, <4>2, <4>3 DEF Reads
    <3>7. CASE q[1].k = "+" /\ pc = "get"
      <4>1. Rest(e, q, Size + 1)
        BY <3>1, <3>7 DEF Replied
      <4>2. Size + 1 \in Int /\ Size + 1 > 0 /\ (Size + 1) - 1 = Size
        BY <1>a
      <4>3. Rest(e, qq, Size)
        BY <2>1, <3>3, <4>1, <4>2, RestTail
      <4>4. pc' = "geting" /\ i' = Size
        BY <3>2, <3>7 DEF Reading
      <4>5. Reads(pc', e, asked, n, Size, p, qq)
        BY <1>a, <3>5, <4>3, <4>4 DEF Reads
      <4> QED BY <1>f, <2>1, <3>3, <3>4, <4>4, <4>5
    <3>8. CASE q[1].k = "+" /\ pc = "monitor"
      <4>1. pc' = "monitoring"
        BY <3>2, <3>8 DEF Reading
      <4> QED BY <1>f, <2>1, <3>3, <3>4, <3>5, <4>1 DEF Reads
    <3>9. CASE q[1].k = "-" \/ pc \notin {"list", "get", "monitor"}
      <4>1. pc' \in {"prompt", "puting"} /\ pc # "notify"
        BY <3>2, <3>9 DEF Reading
      <4>2. Rest(e, q, 1)
        BY <3>1, <3>9, <4>1 DEF Replied
      <4>3. Rest(e, qq, 0)
        <5>1. 1 \in Int /\ 1 > 0 /\ 1 - 1 = 0
          OBVIOUS
        <5> QED BY <2>1, <3>3, <4>2, <5>1, RestTail
      <4>4. Reads(pc', e, asked, n, i', p, qq)
        BY <3>5, <4>1, <4>3 DEF Reads
      <4> QED BY <1>f, <2>1, <3>3, <3>4, <4>4
    <3> QED BY <2>6, <3>6, <3>7, <3>8, <3>9
  <2> QED BY <2>5, <2>6
<1>6. ASSUME fd["ctl"], pc \in {"listing", "geting", "monitoring"}, InStep
      PROVE  asked = FALSE /\ command # "notify" /\ OnlyData(p) /\ Reads(pc, e, asked, n, i, p, q)
  BY <1>6, <1>g DEF Reads, Asks
<1>7. CASE ListLine
  <2>1. /\ pc = "listing" /\ fd["ctl"] /\ q # <<>> /\ ~skewed
        /\ toClient' = [toClient EXCEPT !["ctl"] = Tail(@)]
        /\ pc' = IF Head(q).k = "." THEN "prompt" ELSE "listing"
        /\ UNCHANGED <<fd, eof, toServer, notify, n, command>>
    BY <1>7, <1>b DEF ListLine, HasLine, Take
  <2>2. qq = Tail(q) /\ ee = e /\ nasked = asked /\ pp = p /\ Head(q) = q[1] /\ Len(q) > 0
    BY <1>0, <1>b, <1>c, <2>1, Behead DEF Lib
  <2>3. asked = FALSE /\ command # "notify" /\ OnlyData(p) /\ Dot(e, q, 1)
    BY <1>6, <2>1 DEF Reads, Asks
  <2>4. CASE q[1].k = "."
    <3>1. PICK d \in 1..Len(q) : /\ q[d].k = "." /\ Rest(e, q, d)
                                 /\ \A j \in 1..(d - 1) : q[j].k # "."
      BY <2>3 DEF Dot
    <3>2. d = 1
      BY <1>h, <2>2, <2>4, <3>1
    <3>3. Rest(e, qq, 0)
      <4>1. d \in Int /\ d > 0 /\ d - 1 = 0
        BY <3>2
      <4> QED BY <2>1, <2>2, <3>1, <4>1, RestTail
    <3>4. Reads(pc', e, asked, n, i', p, qq)
      BY <2>1, <2>2, <2>3, <2>4, <3>3 DEF Reads
    <3> QED BY <1>f, <2>1, <2>2, <2>3, <3>4
  <2>5. CASE q[1].k # "."
    <3>1. Dot(e, qq, 1)
      BY <2>1, <2>2, <2>3, <2>5, DotTail
    <3>2. Reads(pc', e, asked, n, i', p, qq)
      BY <2>1, <2>2, <2>3, <2>5, <3>1 DEF Reads
    <3> QED BY <1>f, <2>1, <2>2, <2>3, <3>2
  <2> QED BY <2>4, <2>5
<1>8. CASE GetData
  <2>1. /\ pc = "geting" /\ fd["ctl"] /\ q # <<>> /\ ~skewed
        /\ toClient' = [toClient EXCEPT !["ctl"] = Tail(@)]
        /\ i' = i - 1 /\ pc' = IF i = 1 THEN "prompt" ELSE pc
        /\ UNCHANGED <<fd, eof, toServer, notify, n, command>>
    BY <1>8, <1>b DEF GetData, HasLine
  <2>2. qq = Tail(q) /\ ee = e /\ nasked = asked /\ pp = p
    BY <1>0, <1>b, <1>c, <2>1 DEF Lib
  <2>3. asked = FALSE /\ command # "notify" /\ OnlyData(p) /\ i > 0 /\ Rest(e, q, i)
    BY <1>6, <2>1 DEF Reads, Asks
  <2>4. Rest(e, qq, i - 1)
    BY <1>d, <2>1, <2>2, <2>3, RestTail
  <2>5. Reads(pc', e, asked, n, i', p, qq)
    <3>1. CASE i = 1
      <4>1. Rest(e, qq, 0) /\ pc' = "prompt"
        <5>1. i - 1 = 0
          BY <3>1
        <5> QED BY <2>1, <2>4, <3>1, <5>1
      <4> QED BY <2>3, <4>1 DEF Reads
    <3>2. CASE i # 1
      BY <1>d, <2>1, <2>3, <2>4, <3>2 DEF Reads
    <3> QED BY <3>1, <3>2
  <2> QED BY <1>f, <2>1, <2>2, <2>3, <2>5
<1>9. CASE MonitorData
  <2>1. /\ pc = "monitoring" /\ pc' = pc /\ fd["ctl"] /\ ~skewed
        /\ UNCHANGED <<fd, eof, toServer, notify, n, command>>
    BY <1>9, <1>b DEF MonitorData, HasLine
  <2>2. ee = e /\ nasked = asked /\ pp = p
    BY <1>b, <1>c, <2>1
  <2>3. asked = FALSE /\ command # "notify" /\ OnlyData(p)
    BY <1>6, <2>1
  <2>4. Reads(pc', ee, nasked, n', i', pp, qq)
    BY <2>1, <2>2, <2>3 DEF Reads
  <2> QED BY <1>f, <2>1, <2>2, <2>3, <2>4
<1>10. CASE PutData
  <2>1. PICK m : m = [op |-> "data", n |-> n, id |-> 0]
    OBVIOUS
  <2>2. m \in Messages /\ m.op = "data"
    BY <2>1 DEF Messages, Ops, Lib
  <2>3. /\ toServer' = [toServer EXCEPT !["ctl"] = Append(toServer["ctl"], m)]
        /\ pc = "puting" /\ pc' \in {"prompt", "puting"} /\ ~skewed
        /\ UNCHANGED <<fd, eof, toClient, notify, n, command>>
    BY <1>10, <2>1 DEF PutData
  <2>4. pp = Append(p, m) /\ qq = q /\ ee = e /\ nasked = asked
    BY <1>0, <1>b, <1>c, <2>3 DEF Lib
  <2>5. fd["ctl"] /\ OnlyData(p) /\ Rest(e, q, 0) /\ asked = FALSE /\ command # "notify"
    BY <1>g, <2>3 DEF Reads, Asks
  <2>6. OnlyData(pp)
    <3>1. /\ Len(pp) = Len(p) + 1 /\ pp[Len(p) + 1] = m /\ \A j \in 1..Len(p) : pp[j] = p[j]
      BY <2>2, <2>4, Sent
    <3>2. \A j \in 1..Len(p) : p[j].op = "data"
      BY <2>5 DEF OnlyData
    <3>3. ASSUME NEW j \in 1..Len(pp) PROVE pp[j].op = "data"
      <4>1. CASE j \in 1..Len(p)
        BY <3>1, <3>2, <4>1
      <4>2. CASE j = Len(p) + 1
        BY <2>2, <3>1, <4>2
      <4> QED BY <1>h, <3>1, <4>1, <4>2
    <3> QED BY <3>3 DEF OnlyData
  <2>7. Reads(pc', ee, nasked, n', i', pp, qq)
    BY <2>3, <2>4, <2>5, <2>6 DEF Reads
  <2> QED BY <1>f, <2>3, <2>4, <2>5, <2>7
<1>11. CASE RptpFails
  <2>1. CASE pc \in {"geting", "monitoring"}
    <3>1. /\ pc' = "prompt" /\ q = <<>> /\ ~skewed
          /\ UNCHANGED <<fd, eof, toServer, toClient, notify, n, i, command>>
      BY <1>11, <1>b, <2>1 DEF RptpFails, NoMore
    <3>2. CASE fd["ctl"]
      <4>1. asked = FALSE /\ command # "notify" /\ OnlyData(p)
        BY <1>6, <2>1, <3>1, <3>2
      <4>2. ee = e /\ nasked = asked /\ pp = p /\ qq = q /\ Rest(e, q, 0)
        BY <1>b, <1>c, <1>h, <3>1 DEF Rest
      <4>3. Reads(pc', ee, nasked, n', i', pp, qq)
        BY <3>1, <4>1, <4>2 DEF Reads
      <4> QED BY <1>f, <3>1, <3>2, <4>1, <4>2, <4>3
    <3>3. CASE ~fd["ctl"]
      BY <1>e, <3>1, <3>3
    <3> QED BY <3>2, <3>3
  <2>2. CASE pc \notin {"geting", "monitoring"}
    <3>1. Close("ctl") /\ pc' \in {"prompt", "exit"}
      BY <1>11, <2>2 DEF RptpFails
    <3>2. ~fd'["ctl"]
      BY <1>0, <3>1 DEF Close, Lib
    <3> QED BY <1>e, <3>1, <3>2
  <2> QED BY <2>1, <2>2
<1>12. ASSUME NEW t \in Typed, TypeLocal(t) PROVE InStep'
  <2>1. CASE Close("ctl") /\ pc' \in {"prompt", "exit"}
    <3>1. ~fd'["ctl"]
      BY <1>0, <2>1 DEF Close, Lib
    <3> QED BY <1>e, <2>1, <3>1
  <2>2. CASE ~fd["ctl"] /\ fd' = fd /\ pc' = "open"
    BY <1>e, <2>2
  <2> QED BY <1>12, <2>1, <2>2 DEF TypeLocal
<1> QED BY <1>1, <1>3, <1>4, <1>5, <1>7, <1>8, <1>9, <1>10, <1>11, <1>12

(* What the server does, and what befalls the connection, keeps rptp in    *)
(* step.                                                                   *)
LEMMA RptpServed ==
    ASSUME Lib, Lib', prog = "rptp", NoSounds, InStep, Server \/ Faults
    PROVE  InStep'
<1>0. "ctl" \in Conns
  BY DEF Conns
<1>a. PICK p \in Seq(Messages), q \in Seq(Lines), e \in BOOLEAN, asked \in BOOLEAN :
        p = toServer["ctl"] /\ q = toClient["ctl"] /\ e = eof["ctl"] /\ asked = notify["ctl"]
  BY <1>0 DEF Lib
<1>b. PICK pp \in Seq(Messages), qq \in Seq(Lines), ee \in BOOLEAN, nasked \in BOOLEAN :
        pp = toServer'["ctl"] /\ qq = toClient'["ctl"] /\ ee = eof'["ctl"] /\ nasked = notify'["ctl"]
  BY <1>0 DEF Lib
<1>c. n \in Int /\ i \in Int
  BY DEF Lib
<1>d. UNCHANGED <<pc, fd, i, n, command>>
  BY DEF Server, Faults, Serve, Done, OtherDone, ServerDies, Break, client
<1>e. /\ ~fd["ctl"] => pc \in {"open", "prompt", "exit"}
      /\ fd["ctl"] => /\ Reads(pc, e, asked, n, i, p, q)
                      /\ asked = TRUE => pc = "notify"
                      /\ command = "notify" => pc \in {"notify", "application"}
  BY <1>a DEF InStep
<1>f. SUFFICES ASSUME fd["ctl"]
               PROVE  Reads(pc, ee, nasked, n, i, pp, qq) /\ (nasked = TRUE => pc = "notify")
  BY <1>b, <1>d, <1>e DEF InStep
<1>1. ASSUME NEW c \in Conns, Serve(c)
      PROVE  Reads(pc, ee, nasked, n, i, pp, qq) /\ (nasked = TRUE => pc = "notify")
  <2>1. toServer[c] # <<>> /\ ~eof[c]
    BY <1>1, ServeIs
  <2>2. c = "ctl"
    BY <2>1 DEF Conns, NoSounds
  <2> QED BY <1>1, <1>b, <1>f, <2>2, ReadsServe
<1>2. ASSUME NEW s \in Sounds, Done(s) PROVE FALSE
  BY <1>2 DEF Done, NoSounds
<1>3. CASE OtherDone
  <2>1. PICK id \in Int : id = 0 /\ Tell(id) /\ UNCHANGED <<fd, eof, notify, toServer>>
    BY <1>3 DEF OtherDone, client
  <2>2. pp = p /\ ee = e /\ nasked = asked
    BY <1>a, <1>b, <2>1
  <2>3. PICK l \in Lines : l = [k |-> "@", n |-> id]
    BY <2>1, TellIs
  <2>4. toClient'["ctl"] = IF notify["ctl"] /\ fd["ctl"] /\ ~eof["ctl"]
                           THEN Append(toClient["ctl"], l) ELSE toClient["ctl"]
    BY <1>0, <2>1, <2>3, TellIs
  <2>5. CASE asked = TRUE /\ e = FALSE
    <3>1. qq = Append(q, l) /\ pc = "notify"
      BY <1>a, <1>b, <1>e, <1>f, <2>4, <2>5
    <3>2. Replied(pc, e, n, p, q)
      BY <1>e, <1>f, <2>5, <3>1 DEF Reads, Pending
    <3>3. Len(q) \in Nat /\ Len(qq) = Len(q) + 1 /\ (Len(q) > 0 => qq[1] = q[1])
      BY <3>1, Behind, Nothing
    <3>4. Replied(pc, e, n, p, qq)
      BY <3>1, <3>2, <3>3 DEF Replied
    <3> QED BY <2>2, <3>1, <3>4 DEF Reads, Asks
  <2>6. CASE ~(asked = TRUE /\ e = FALSE)
    <3>1. qq = q
      BY <1>a, <1>b, <2>4, <2>6
    <3> QED BY <1>e, <1>f, <2>2, <3>1
  <2> QED BY <2>5, <2>6
<1>4. CASE ServerDies
  <2>1. pp = <<>> /\ qq = q /\ ee = TRUE /\ nasked = asked
    BY <1>0, <1>4, <1>a, <1>b, DiesIs
  <2>2. PICK l \in Lines : l.k = "!"
    <3>1. [k |-> "!", n |-> 0] \in Lines
      BY DEF Lines, Kinds
    <3> QED BY <3>1
  <2>3. CASE e = FALSE
    BY <1>c, <1>e, <1>f, <2>1, <2>2, <2>3, ReadsBreak
  <2>4. CASE e = TRUE
    <3>1. p = pp
      BY <1>0, <1>a, <2>1, <2>4 DEF Lib
    <3> QED BY <1>e, <1>f, <2>1, <2>4, <3>1
  <2> QED BY <2>3, <2>4
<1>5. ASSUME NEW c \in Conns, Break(c)
      PROVE  Reads(pc, ee, nasked, n, i, pp, qq) /\ (nasked = TRUE => pc = "notify")
  <2>1. c = "ctl"
    BY <1>5, BreakIs DEF Conns, NoSounds
  <2>2. PICK l \in Lines : l = [k |-> "!", n |-> 0]
    BY <1>5, BreakIs
  <2>3. /\ e = FALSE /\ ee = TRUE /\ pp = <<>> /\ qq \in {q, Append(q, l)}
    BY <1>5, <1>a, <1>b, <2>1, <2>2, BreakIs
  <2>4. nasked = asked
    BY <1>5, <1>a, <1>b DEF Break
  <2>5. l.k = "!"
    BY <2>2
  <2>6. Reads(pc, ee, nasked, n, i, pp, q) /\ Reads(pc, ee, nasked, n, i, pp, Append(q, l))
    BY <1>c, <1>e, <1>f, <2>3, <2>4, <2>5, ReadsBreak
  <2> QED BY <1>e, <1>f, <2>3, <2>4, <2>6
<1> QED BY <1>1, <1>2, <1>3, <1>4, <1>5 DEF Server, Faults

(* rptp starts in step.                                                    *)
LEMMA RptpInit == Init => RptpInv
<1> SUFFICES ASSUME Init PROVE RptpInv
  OBVIOUS
<1>1. /\ \A s \in Sounds : entry[s] = "none"
      /\ ~fd["ctl"] /\ ~fd["flow"] /\ toServer["flow"] = <<>> /\ toServer["ctl"] = <<>>
      /\ command = "empty" /\ pc = "open"
  BY DEF Init, Conns
<1>2. NoSounds
  BY <1>1 DEF NoSounds
<1>3. InStep
  BY <1>1 DEF InStep
<1> QED BY <1>2, <1>3 DEF RptpInv

(* Every step keeps rptp in step with its server.                          *)
LEMMA RptpNext ==
    ASSUME Lib, RptpInv, [Next]_vars
    PROVE  RptpInv'
<1> SUFFICES ASSUME prog' = "rptp" PROVE NoSounds' /\ (~skewed' => InStep')
  BY DEF RptpInv
<1>1. prog = "rptp"
  BY DEF Next, Client, User, Server, Faults, RptpOpen, do_application, Sends, Answer, ListLine,
         GetData, PutData, MonitorData, RptpFails, RplayOpen, AskInfo, Info, Udp, Reopen, Unopened,
         FlowOpen, Refused, play_with_play, play_with_flow, Step, RplayAnswer, FlowData, AwaitDone,
         EatNotes, Interrupt, Type, TypeLocal, Serve, Done, OtherDone, ServerDies, Break, client,
         rptpOnly, rplayOnly, vars
<1>2. NoSounds /\ (~skewed => InStep)
  BY <1>1 DEF RptpInv
<1>3. NoSounds'
  BY <1>1, <1>2, RptpPlaysNothing
<1>4. Lib'
  BY LibNext
<1>5. ASSUME ~skewed' PROVE InStep'
  <2>1. CASE \/ RptpOpen \/ do_application \/ Answer \/ ListLine \/ GetData \/ PutData \/ MonitorData
             \/ RptpFails \/ (\E t \in Typed : Type(t) \/ TypeLocal(t))
    BY <1>1, <1>2, <1>4, <1>5, <2>1, RptpActs
  <2>2. CASE Server \/ Faults
    <3>1. ~skewed
      BY <1>5, <2>2 DEF Server, Faults, Serve, Done, OtherDone, ServerDies, Break, client
    <3> QED BY <1>1, <1>2, <1>4, <2>2, <3>1, RptpServed
  <2>3. CASE UNCHANGED vars
    BY <1>2, <1>5, <2>3 DEF vars, lib, InStep
  <2>4. CASE \/ RplayOpen \/ AskInfo \/ Info \/ Udp \/ Reopen \/ Unopened \/ FlowOpen \/ Refused
             \/ play_with_play \/ play_with_flow \/ RplayAnswer \/ FlowData \/ AwaitDone
             \/ EatNotes \/ Interrupt
    BY <1>1, <2>4 DEF RplayOpen, AskInfo, Info, Udp, Reopen, Unopened, FlowOpen, Refused,
         play_with_play, play_with_flow, Step, RplayAnswer, FlowData, AwaitDone, EatNotes, Interrupt
  <2> QED BY <2>1, <2>2, <2>3, <2>4 DEF Next, Client, User
<1> QED BY <1>3, <1>5

(* AnswersMatch, for all commands that are typed and all faults: unless the*)
(* user asked for notes or a sound stayed unread, the line that rptp takes *)
(* for the answer to its command is the answer to it, or the last line of a*)
(* connection that the server closes.                                      *)
THEOREM AnswersTaken == Spec => []AnswersMatch
<1>1. Lib /\ RptpInv => AnswersMatch
  <2> SUFFICES ASSUME Lib, RptpInv, prog = "rptp", ~skewed
               PROVE  /\ pc = "prompt" /\ fd["ctl"] /\ ~eof["ctl"] => toClient["ctl"] = <<>>
                      /\ pc \in Typed \cup {"application?"} /\ toClient["ctl"] # <<>> =>
                            Head(toClient["ctl"]).n = n \/ Head(toClient["ctl"]).k = "!"
    BY DEF AnswersMatch
  <2>1. PICK p \in Seq(Messages), q \in Seq(Lines), e \in BOOLEAN, asked \in BOOLEAN :
          p = toServer["ctl"] /\ q = toClient["ctl"] /\ e = eof["ctl"] /\ asked = notify["ctl"]
    BY DEF Lib, Conns
  <2>2. fd["ctl"] => Reads(pc, e, asked, n, i, p, q)
    BY <2>1 DEF RptpInv, InStep
  <2>3. Len(q) \in Nat /\ (Len(q) = 0 <=> q = <<>>)
    BY Nothing
  <2>4. ASSUME pc = "prompt", fd["ctl"], e = FALSE PROVE q = <<>>
    BY <2>2, <2>3, <2>4 DEF Reads, Asks, Rest
  <2>5. ASSUME pc \in Typed \cup {"application?"}, q # <<>>
        PROVE  Head(q).n = n \/ Head(q).k = "!"
    <3>1. fd["ctl"]
      BY <2>1, <2>5 DEF Lib, Conns
    <3>2. Pending(pc, e, asked, n, p, q) \/ Replied(pc, e, n, p, q)
      BY <2>2, <2>5, <3>1, TypedAssumption DEF Reads, Asks
    <3>3. Head(q) = q[1]
      BY <2>5, Behead
    <3> QED BY <2>3, <2>5, <3>2, <3>3 DEF Pending, Replied, Rest
  <2> QED BY <2>1, <2>4, <2>5
<1>2. Lib /\ RptpInv /\ [Next]_vars => (Lib /\ RptpInv)'
  BY LibNext, RptpNext
<1> QED BY <1>1, <1>2, LibInit, RptpInit, PTL DEF Spec

-----------------------------------------------------------------------------
(* rplay, as long as nothing breaks and no note is taken for an answer.    *)
Calm == prog = "rplay" /\ ~broken /\ ~skewed /\ faults = 0

Asking == {"open", "info", "info2", "info?", "info2?", "udp"}

(* One message is on its way, about the sound id; all of q are notes, from *)
(* the j-th on, and one about the sound id only if its entry, in state st, *)
(* is done.                                                                *)
One(p, op, id) == Len(p) = 1 /\ p[1].op = op /\ p[1].id = id
Note(l, id, st) == l.k = "@" /\ (l.n = id => st = "done")
Notes(q, from, id, st) == \A j \in from..Len(q) : Note(q[j], id, st)
NotesBut(q, d, id, st) == \A j \in 1..Len(q) : j # d => Note(q[j], id, st)

(* The entry of rplay's sound, at each place of the program.               *)
At(at, st) ==
    /\ at \in Asking \cup {"play", "unopened", "refused", "flow", "notify?", "sound", "flowplay"} =>
          st = "none"
    /\ at \in {"put", "put?", "data"} => st = "flow"
    /\ at \in {"none", "none?"} => st = "done"
    /\ at = "exit" => st \in {"none", "done"}
    /\ at = "done?" => st \in {"playing", "flow", "done"}

(* Its connection for commands and notes.                                  *)
Ctl(at, f, asked, id, st, p, q) ==
    \/ at \in {"open", "udp"} /\ asked = FALSE /\ (f = TRUE => p = <<>> /\ q = <<>>)
    \/ at \in {"info", "info2", "flow"} /\ f = TRUE /\ asked = FALSE /\ p = <<>> /\ q = <<>>
    \/ /\ at \in {"info?", "info2?"} /\ f = TRUE /\ asked = FALSE
       /\ \/ One(p, "info", id) /\ q = <<>>
          \/ p = <<>> /\ Len(q) = 1 /\ q[1].k \in {"+", "-"}
    \/ at \in {"play", "refused"} /\ asked = FALSE /\ (f = TRUE => p = <<>> /\ q = <<>>)
    \/ at = "unopened" /\ f = FALSE /\ asked = FALSE
    \/ /\ at = "notify?" /\ f = TRUE
       /\ \/ One(p, "notify", id) /\ q = <<>> /\ asked = FALSE
          \/ p = <<>> /\ Len(q) > 0 /\ Notes(q, 2, id, st)
    \/ /\ at \in {"sound", "flowplay", "flowplay?", "put", "put?", "data", "done?", "none"}
       /\ f = TRUE /\ p = <<>> /\ Notes(q, 1, id, st)
    \/ /\ at = "sound?" /\ f = TRUE
       /\ \/ One(p, "play", id) /\ Notes(q, 1, id, st) /\ st = "none"
          \/ /\ p = <<>>
             /\ \E d \in 1..Len(q) : /\ NotesBut(q, d, id, st)
                                     /\ \/ q[d].k = "+" /\ st \in {"playing", "done"}
                                        \/ q[d].k = "-" /\ st = "none"
    \/ /\ at = "none?" /\ f = TRUE
       /\ \/ One(p, "none", id) /\ Notes(q, 1, id, st)
          \/ /\ p = <<>> /\ asked = FALSE /\ Len(q) > 0 /\ q[Len(q)].k = "+"
             /\ NotesBut(q, Len(q), id, st)
    \/ at = "exit" /\ (f = TRUE => p = <<>>)

(* Its connection for a flow; how is what play_table says of the sound.    *)
Flo(at, f, how, id, st, p, q) ==
    \/ /\ at \in Asking \cup {"play", "unopened", "refused", "sound", "sound?", "none", "none?", "exit"}
       /\ p = <<>>
    \/ at = "notify?" /\ p = <<>> /\ (how = "flow" => f = TRUE /\ q = <<>>)
    \/ at \in {"flow", "flowplay", "put", "data"} /\ f = TRUE /\ p = <<>> /\ q = <<>>
    \/ /\ at = "flowplay?" /\ f = TRUE
       /\ \/ One(p, "flow", id) /\ q = <<>> /\ st = "none"
          \/ /\ p = <<>> /\ Len(q) = 1
             /\ \/ q[1].k = "+" /\ st = "flow"
                \/ q[1].k = "-" /\ st = "none"
    \/ /\ at = "put?" /\ f = TRUE
       /\ \/ One(p, "put", id) /\ q = <<>>
          \/ p = <<>> /\ Len(q) = 1 /\ q[1].k = "+"
    \/ at = "done?" /\ (p = <<>> \/ (st = "flow" /\ OnlyData(p)))

(* rplay's inductive invariant: only the entry of its sound can be playing.*)
Walk == \A s \in Sounds : /\ s < i => entry[s] \in {"none", "done"}
                          /\ s > i => entry[s] = "none"
Frame ==
    /\ interrupted = FALSE /\ eof["ctl"] = FALSE /\ eof["flow"] = FALSE /\ notify["flow"] = FALSE
    /\ i \in Sounds /\ table \in [Sounds -> {"play", "flow"}]
    /\ Walk /\ (pc \in Asking => \A s \in Sounds : entry[s] = "none")
CalmInv ==
    /\ Frame /\ At(pc, entry[i])
    /\ Ctl(pc, fd["ctl"], notify["ctl"], i, entry[i], toServer["ctl"], toClient["ctl"])
    /\ Flo(pc, fd["flow"], table[i], i, entry[i], toServer["flow"], toClient["flow"])
RplayInv == Calm => CalmInv

(* Reading a line leaves the notes behind it.                              *)
LEMMA NotesTail ==
    ASSUME NEW q \in Seq(Lines), q # <<>>, NEW id, NEW st
    PROVE  /\ Notes(q, 1, id, st) => Notes(Tail(q), 1, id, st)
           /\ Notes(q, 2, id, st) => Notes(Tail(q), 1, id, st)
<1>1. PICK r : r = Tail(q)
  OBVIOUS
<1>2. /\ Len(q) \in Nat /\ Len(r) = Len(q) - 1 /\ \A j \in 1..(Len(q) - 1) : r[j] = q[j + 1]
  BY <1>1, Behead
<1>3. Notes(q, 1, id, st) \/ Notes(q, 2, id, st) => Notes(r, 1, id, st)
  <2> SUFFICES ASSUME Notes(q, 1, id, st) \/ Notes(q, 2, id, st), NEW j \in 1..Len(r)
               PROVE  Note(r[j], id, st)
    BY DEF Notes
  <2>1. r[j] = q[j + 1] /\ j + 1 \in 1..Len(q) /\ j + 1 \in 2..Len(q)
    BY <1>2
  <2> QED BY <2>1 DEF Notes
<1> QED BY <1>1, <1>3

(* The parts of rplay's invariant, and the entry of its sound.             *)
LEMMA CalmIs ==
    ASSUME Lib, CalmInv
    PROVE  /\ i \in Int /\ i \in Sounds /\ i # 0 /\ i >= 1 /\ NSounds \in Nat
           /\ entry[i] \in {"none", "playing", "flow", "done"}
           /\ \A s \in Sounds : s # i => entry[s] \in {"none", "done"}
           /\ toServer["ctl"] \in Seq(Messages) /\ toClient["ctl"] \in Seq(Lines)
           /\ toServer["flow"] \in Seq(Messages) /\ toClient["flow"] \in Seq(Lines)
           /\ fd["ctl"] \in BOOLEAN /\ fd["flow"] \in BOOLEAN /\ notify["ctl"] \in BOOLEAN
<1>1. NSounds \in Nat
  BY BoundAssumption
<1>2. i \in Sounds /\ Walk
  BY DEF CalmInv, Frame
<1>3. i \in Int /\ i >= 1 /\ \A s \in Sounds : s \in Int
  BY <1>1, <1>2 DEF Sounds
<1>4. \A s \in Sounds : s # i => s < i \/ s > i
  BY <1>3
<1>5. \A s \in Sounds : s # i => entry[s] \in {"none", "done"}
  BY <1>2, <1>4 DEF Walk
<1> QED BY <1>1, <1>2, <1>3, <1>5 DEF Lib, Conns

(* The server tells of a sound that is done: rplay's, or another's.        *)
LEMMA RplayTold ==
    ASSUME Lib, Lib', CalmInv, NEW id \in Int, Tell(id),
           UNCHANGED <<pc, fd, eof, notify, toServer, table, i, interrupted>>,
           \/ entry' = entry /\ id = 0
           \/ /\ id = i /\ entry' = [entry EXCEPT ![i] = "done"]
              /\ \/ entry[i] = "playing"
                 \/ entry[i] = "flow" /\ ~fd["flow"] /\ toServer["flow"] = <<>>
    PROVE  CalmInv'
<1>0. "ctl" \in Conns /\ "flow" \in Conns
  BY DEF Conns
<1>1. PICK f, asked, me, st, p, q, g, how, fp, fq :
        /\ f = fd["ctl"] /\ asked = notify["ctl"] /\ me = i /\ st = entry[i]
        /\ p = toServer["ctl"] /\ q = toClient["ctl"]
        /\ g = fd["flow"] /\ how = table[i] /\ fp = toServer["flow"] /\ fq = toClient["flow"]
  OBVIOUS
<1>2. /\ Frame /\ At(pc, st) /\ Ctl(pc, f, asked, me, st, p, q) /\ Flo(pc, g, how, me, st, fp, fq)
      /\ eof["ctl"] = FALSE /\ notify["flow"] = FALSE /\ i \in Sounds
      /\ asked \in BOOLEAN /\ f \in BOOLEAN /\ g \in BOOLEAN
      /\ st \in {"none", "playing", "flow", "done"} /\ q \in Seq(Lines) /\ me \in Int /\ me # 0
      /\ Len(q) \in Nat
  BY <1>1, CalmIs, Nothing DEF CalmInv, Frame
<1>3. PICK l \in Lines : l = [k |-> "@", n |-> id]
  BY TellIs
<1>4. PICK qq, nst : qq = toClient'["ctl"] /\ nst = entry'[i]
  OBVIOUS
<1>5. /\ qq = IF asked = TRUE /\ f = TRUE THEN Append(q, l) ELSE q
      /\ toClient'["flow"] = fq
  <2>1. /\ toClient'["ctl"] = IF notify["ctl"] /\ fd["ctl"] /\ ~eof["ctl"]
                              THEN Append(toClient["ctl"], l) ELSE toClient["ctl"]
        /\ toClient'["flow"] = IF notify["flow"] /\ fd["flow"] /\ ~eof["flow"]
                               THEN Append(toClient["flow"], l) ELSE toClient["flow"]
    BY <1>0, <1>3, TellIs
  <2> QED BY <1>1, <1>2, <1>4, <2>1
<1>6. /\ nst = st \/ (nst = "done" /\ st \in {"playing", "flow"})
      /\ nst # st => pc \in {"sound?", "done?"} /\ (st = "flow" => pc = "done?" /\ fp = <<>>)
      /\ \A s \in Sounds : s # i => entry'[s] = entry[s]
      /\ Note(l, me, nst)
  <2>1. CASE entry' = entry /\ id = 0
    BY <1>1, <1>2, <1>3, <1>4, <2>1 DEF Note
  <2>2. CASE /\ id = i /\ entry' = [entry EXCEPT ![i] = "done"]
             /\ \/ entry[i] = "playing"
                \/ entry[i] = "flow" /\ ~fd["flow"] /\ toServer["flow"] = <<>>
    <3>1. nst = "done" /\ \A s \in Sounds : s # i => entry'[s] = entry[s]
      BY <1>2, <1>4, <2>2 DEF Lib
    <3>2. st = "playing" \/ (st = "flow" /\ g = FALSE /\ fp = <<>>)
      BY <1>1, <1>2, <2>2
    <3>3. pc \in {"sound?", "done?"} /\ (st = "flow" => pc = "done?" /\ fp = <<>>)
      <4>1. CASE st = "playing"
        BY <1>2, <4>1 DEF At, Ctl, Flo, Asking
      <4>2. CASE st = "flow" /\ g = FALSE /\ fp = <<>>
        BY <1>2, <4>2 DEF At, Ctl, Flo, Asking
      <4> QED BY <3>2, <4>1, <4>2
    <3> QED BY <1>1, <1>3, <2>2, <3>1, <3>2, <3>3 DEF Note
  <2> QED BY <2>1, <2>2
<1>7. /\ Len(qq) \in Nat /\ Len(q) <= Len(qq) /\ \A j \in 1..Len(q) : qq[j] = q[j]
      /\ \A j \in 1..Len(qq) : j > Len(q) => qq[j] = l
      /\ asked = FALSE => qq = q
      /\ f = FALSE => qq = q
  <2>1. CASE asked = TRUE /\ f = TRUE
    <3>1. qq = Append(q, l)
      BY <1>5, <2>1
    <3>2. /\ Len(qq) = Len(q) + 1 /\ qq[Len(q) + 1] = l /\ \A j \in 1..Len(q) : qq[j] = q[j]
      BY <1>2, <3>1, Behind
    <3> QED BY <1>2, <2>1, <3>2
  <2>2. CASE ~(asked = TRUE /\ f = TRUE)
    <3>1. qq = q
      BY <1>5, <2>2
    <3> QED BY <1>2, <2>2, <3>1
  <2> QED BY <2>1, <2>2
<1>8. \A x : Note(x, me, st) => Note(x, me, nst)
  BY <1>6 DEF Note
<1>9. /\ Notes(q, 1, me, st) => Notes(qq, 1, me, nst)
      /\ Len(q) > 0 /\ Notes(q, 2, me, st) => Notes(qq, 2, me, nst)
      /\ \A d \in 1..Len(q) : NotesBut(q, d, me, st) => NotesBut(qq, d, me, nst)
  <2>1. ASSUME NEW j \in 1..Len(qq), j <= Len(q) => Note(q[j], me, st)
        PROVE  Note(qq[j], me, nst)
    <3>1. CASE j <= Len(q)
      BY <1>2, <1>7, <1>8, <2>1, <3>1
    <3>2. CASE j > Len(q)
      BY <1>6, <1>7, <3>2
    <3> QED BY <1>2, <1>7, <3>1, <3>2
  <2>2. Notes(q, 1, me, st) => Notes(qq, 1, me, nst)
    BY <1>2, <1>7, <2>1 DEF Notes
  <2>3. Len(q) > 0 /\ Notes(q, 2, me, st) => Notes(qq, 2, me, nst)
    BY <1>2, <1>7, <2>1 DEF Notes
  <2>4. \A d \in 1..Len(q) : NotesBut(q, d, me, st) => NotesBut(qq, d, me, nst)
    BY <1>2, <1>7, <2>1 DEF NotesBut
  <2> QED BY <2>2, <2>3, <2>4
<1>10. Ctl(pc, f, asked, me, nst, p, qq)
  <2>1. CASE pc = "sound?"
    <3>1. CASE One(p, "play", me) /\ Notes(q, 1, me, st) /\ st = "none" /\ f = TRUE
      BY <1>6, <1>9, <2>1, <3>1 DEF Ctl
    <3>2. CASE /\ p = <<>> /\ f = TRUE
               /\ \E d \in 1..Len(q) : /\ NotesBut(q, d, me, st)
                                       /\ \/ q[d].k = "+" /\ st \in {"playing", "done"}
                                          \/ q[d].k = "-" /\ st = "none"
      <4>1. PICK d \in 1..Len(q) : /\ NotesBut(q, d, me, st)
                                   /\ \/ q[d].k = "+" /\ st \in {"playing", "done"}
                                      \/ q[d].k = "-" /\ st = "none"
        BY <3>2
      <4>2. d \in 1..Len(qq) /\ NotesBut(qq, d, me, nst) /\ qq[d] = q[d]
        BY <1>2, <1>7, <1>9, <4>1
      <4>3. \/ qq[d].k = "+" /\ nst \in {"playing", "done"}
            \/ qq[d].k = "-" /\ nst = "none"
        BY <1>6, <4>1, <4>2
      <4> QED BY <2>1, <3>2, <4>2, <4>3 DEF Ctl
    <3> QED BY <1>2, <2>1, <3>1, <3>2 DEF Ctl
  <2>2. CASE pc = "none?"
    <3>1. CASE One(p, "none", me) /\ Notes(q, 1, me, st) /\ f = TRUE
      BY <1>9, <2>2, <3>1 DEF Ctl
    <3>2. CASE /\ p = <<>> /\ asked = FALSE /\ Len(q) > 0 /\ q[Len(q)].k = "+" /\ f = TRUE
               /\ NotesBut(q, Len(q), me, st)
      <4>1. qq = q /\ nst = st
        BY <1>6, <1>7, <2>2, <3>2
      <4> QED BY <2>2, <3>2, <4>1 DEF Ctl
    <3> QED BY <1>2, <2>2, <3>1, <3>2 DEF Ctl
  <2>3. CASE pc = "notify?"
    <3>1. CASE One(p, "notify", me) /\ q = <<>> /\ asked = FALSE /\ f = TRUE
      BY <1>7, <2>3, <3>1 DEF Ctl
    <3>2. CASE p = <<>> /\ Len(q) > 0 /\ Notes(q, 2, me, st) /\ f = TRUE
      <4>1. Len(qq) > 0
        BY <1>2, <1>7, <3>2
      <4> QED BY <1>9, <2>3, <3>2, <4>1 DEF Ctl
    <3> QED BY <1>2, <2>3, <3>1, <3>2 DEF Ctl
  <2>4. CASE pc \in {"sound", "flowplay", "flowplay?", "put", "put?", "data", "done?", "none"}
    BY <1>2, <1>9, <2>4 DEF Ctl
  <2>5. CASE pc \notin {"sound?", "none?", "notify?", "sound", "flowplay", "flowplay?", "put",
                        "put?", "data", "done?", "none"}
    <3>1. nst = st
      BY <1>6, <2>5
    <3>2. pc # "exit" => qq = q
      BY <1>2, <1>7, <2>5 DEF Ctl
    <3>3. CASE pc = "exit"
      BY <1>2, <3>3 DEF Ctl
    <3>4. CASE pc # "exit"
      BY <1>2, <3>1, <3>2, <3>4
    <3> QED BY <3>3, <3>4
  <2> QED BY <2>1, <2>2, <2>3, <2>4, <2>5
<1>11. At(pc, nst) /\ Flo(pc, g, how, me, nst, fp, fq)
  <2>1. CASE nst = st
    BY <1>2, <2>1
  <2>2. CASE nst # st
    <3>1. nst = "done" /\ pc \in {"sound?", "done?"} /\ fp = <<>>
      BY <1>2, <1>6, <2>2 DEF Flo, Asking
    <3> QED BY <3>1 DEF At, Flo, Asking
  <2> QED BY <2>1, <2>2
<1>12. Frame'
  <2>1. \A s \in Sounds : s < i \/ s > i => s # i
    BY <1>1, <1>2, BoundAssumption DEF Sounds
  <2>2. Walk'
    BY <1>2, <1>6, <2>1 DEF Walk, Frame
  <2>3. pc \in Asking => \A s \in Sounds : entry'[s] = "none"
    <3>1. pc \in Asking => nst = st
      BY <1>6 DEF Asking
    <3> QED BY <1>1, <1>2, <1>4, <1>6, <3>1 DEF Frame
  <2> QED BY <1>2, <2>2, <2>3 DEF Frame
<1> QED BY <1>1, <1>4, <1>5, <1>10, <1>11, <1>12 DEF CalmInv

(* The server answers a command of rplay.                                  *)
LEMMA RplayAnswered ==
    ASSUME Lib, Lib', CalmInv, Serve("ctl")
    PROVE  CalmInv'
<1>0. "ctl" \in Conns /\ "flow" \in Conns
  BY DEF Conns
<1>1. PICK f, asked, me, st, p, q, g, how, fp, fq :
        /\ f = fd["ctl"] /\ asked = notify["ctl"] /\ me = i /\ st = entry[i]
        /\ p = toServer["ctl"] /\ q = toClient["ctl"]
        /\ g = fd["flow"] /\ how = table[i] /\ fp = toServer["flow"] /\ fq = toClient["flow"]
  OBVIOUS
<1>2. /\ Frame /\ At(pc, st) /\ Ctl(pc, f, asked, me, st, p, q) /\ Flo(pc, g, how, me, st, fp, fq)
      /\ i \in Sounds /\ p \in Seq(Messages) /\ q \in Seq(Lines) /\ Len(q) \in Nat
  BY <1>1, CalmIs, Nothing DEF CalmInv
<1>3. UNCHANGED <<pc, fd, eof, table, i, interrupted>>
  BY DEF Serve, client
<1>4. PICK m : m = p[1]
  OBVIOUS
<1>5. p # <<>> /\ f = TRUE /\ UNCHANGED <<toServer["flow"], toClient["flow"], notify["flow"]>>
  <2>1. p # <<>> /\ fd["ctl"]
    BY <1>0, <1>1, ServeIs
  <2>2. UNCHANGED <<toServer["flow"], toClient["flow"], notify["flow"]>>
    BY <1>0, ServeIs
  <2> QED BY <1>1, <2>1, <2>2, CalmIs
<1>6. m \in Messages
  BY <1>2, <1>4, <1>5, Behead
<1>7. PICK lines \in Replies("ctl", m) :
        /\ toServer'["ctl"] = Tail(p) /\ toClient'["ctl"] = q \o lines
        /\ entry' = IF m.op \in {"play", "flow"} /\ lines[1].k = "+"
                    THEN [entry EXCEPT ![m.id] = IF m.op = "flow" THEN "flow" ELSE "playing"]
                    ELSE entry
        /\ notify'["ctl"] = IF m.op = "notify" THEN TRUE
                            ELSE IF m.op = "none" THEN FALSE ELSE notify["ctl"]
  BY <1>0, <1>1, <1>4, <1>5, ServeIs
<1>8. PICK r, qq, nst, nasked :
        /\ r = Tail(p) /\ qq = toClient'["ctl"] /\ nst = entry'[i] /\ nasked = notify'["ctl"]
  OBVIOUS
<1>9. /\ m.id = me /\ m.op \in {"info", "notify", "play", "none"} /\ Len(p) = 1
      /\ m.op = "info" => pc \in {"info?", "info2?"} /\ q = <<>> /\ asked = FALSE
      /\ m.op = "notify" => pc = "notify?" /\ q = <<>>
      /\ m.op = "play" => pc = "sound?" /\ Notes(q, 1, me, st) /\ st = "none"
      /\ m.op = "none" => pc = "none?" /\ Notes(q, 1, me, st)
  BY <1>2, <1>4, <1>5 DEF Ctl, One
<1>10. /\ lines \in Seq(Lines) /\ Len(lines) = 1 /\ lines[1].k \in {"+", "-"}
       /\ m.op \in {"notify", "none"} => lines[1].k = "+"
  BY <1>0, <1>6, <1>9, RepliesAre
<1>11. r = <<>>
  <2>1. r \in Seq(Messages) /\ Len(r) = 0
    BY <1>2, <1>5, <1>8, <1>9, Behead
  <2> QED BY <2>1, Nothing
<1>12. /\ Len(qq) = Len(q) + 1 /\ qq[Len(q) + 1] = lines[1] /\ \A j \in 1..Len(q) : qq[j] = q[j]
  <2>1. /\ Len(qq) = Len(q) + Len(lines) /\ \A j \in 1..Len(q) : qq[j] = q[j]
        /\ \A j \in 1..Len(lines) : qq[Len(q) + j] = lines[j]
    BY <1>2, <1>7, <1>8, <1>10, Joined
  <2> QED BY <1>10, <2>1
<1>13. /\ \A s \in Sounds : s # i => entry'[s] = entry[s]
       /\ nst = IF m.op = "play" /\ lines[1].k = "+" THEN "playing" ELSE st
  <2>1. CASE m.op = "play" /\ lines[1].k = "+"
    <3>1. entry' = [entry EXCEPT ![i] = "playing"]
      BY <1>1, <1>7, <1>9, <2>1
    <3> QED BY <1>2, <1>8, <2>1, <3>1 DEF Lib
  <2>2. CASE ~(m.op = "play" /\ lines[1].k = "+")
    <3>1. entry' = entry
      BY <1>7, <1>9, <2>2
    <3> QED BY <1>1, <1>8, <2>2, <3>1
  <2> QED BY <2>1, <2>2
<1>14. Ctl(pc, f, nasked, me, nst, r, qq)
  <2>1. CASE m.op = "info"
    <3>1. Len(qq) = 1 /\ qq[1].k \in {"+", "-"} /\ nasked = FALSE
      <4>1. Len(q) = 0
        BY <1>9, <2>1
      <4>2. Len(qq) = 1 /\ qq[1] = lines[1]
        BY <1>12, <4>1
      <4>3. nasked = asked
        BY <1>1, <1>7, <1>8, <2>1
      <4> QED BY <1>9, <1>10, <2>1, <4>2, <4>3
    <3> QED BY <1>5, <1>9, <1>11, <2>1, <3>1 DEF Ctl
  <2>2. CASE m.op = "notify"
    <3>1. Len(qq) = 1
      BY <1>9, <1>12, <2>2
    <3>2. Len(qq) > 0 /\ Notes(qq, 2, me, nst)
      BY <3>1 DEF Notes
    <3> QED BY <1>5, <1>9, <1>11, <2>2, <3>2 DEF Ctl
  <2>3. CASE m.op = "play"
    <3>1. PICK d : d = Len(q) + 1
      OBVIOUS
    <3>2. d \in 1..Len(qq) /\ qq[d] = lines[1]
      BY <1>2, <1>12, <3>1
    <3>3. NotesBut(qq, d, me, nst)
      <4> SUFFICES ASSUME NEW j \in 1..Len(qq), j # d PROVE Note(qq[j], me, nst)
        BY DEF NotesBut
      <4>1. j \in 1..Len(q) /\ qq[j] = q[j]
        BY <1>2, <1>12, <3>1
      <4> QED BY <1>9, <2>3, <4>1 DEF Notes, Note
    <3>4. \/ qq[d].k = "+" /\ nst \in {"playing", "done"}
          \/ qq[d].k = "-" /\ nst = "none"
      BY <1>9, <1>10, <1>13, <2>3, <3>2
    <3> QED BY <1>5, <1>9, <1>11, <2>3, <3>2, <3>3, <3>4 DEF Ctl
  <2>4. CASE m.op = "none"
    <3>1. nasked = FALSE /\ nst = st
      BY <1>7, <1>8, <1>13, <2>4
    <3>2. Len(qq) > 0 /\ qq[Len(qq)].k = "+"
      BY <1>2, <1>10, <1>12, <2>4
    <3>3. NotesBut(qq, Len(qq), me, nst)
      <4> SUFFICES ASSUME NEW j \in 1..Len(qq), j # Len(qq) PROVE Note(qq[j], me, nst)
        BY DEF NotesBut
      <4>1. j \in 1..Len(q) /\ qq[j] = q[j]
        BY <1>2, <1>12
      <4> QED BY <1>9, <2>4, <3>1, <4>1 DEF Notes
    <3> QED BY <1>5, <1>9, <1>11, <2>4, <3>1, <3>2, <3>3 DEF Ctl
  <2> QED BY <1>9, <2>1, <2>2, <2>3, <2>4
<1>15. At(pc, nst) /\ Flo(pc, g, how, me, nst, fp, fq)
  <2>1. CASE nst = st
    BY <1>2, <2>1
  <2>2. CASE nst # st
    <3>1. pc = "sound?"
      BY <1>9, <1>13, <2>2
    <3> QED BY <1>2, <3>1 DEF At, Flo, Asking
  <2> QED BY <2>1, <2>2
<1>16. Frame'
  <2>1. \A s \in Sounds : s < i \/ s > i => s # i
    BY <1>2, BoundAssumption DEF Sounds
  <2>2. Walk'
    BY <1>2, <1>3, <1>13, <2>1 DEF Walk, Frame
  <2>3. pc \in Asking => \A s \in Sounds : entry'[s] = "none"
    <3>1. pc \in Asking => nst = st
      BY <1>9, <1>13 DEF Asking
    <3> QED BY <1>1, <1>2, <1>8, <1>13, <3>1 DEF Frame
  <2> QED BY <1>2, <1>3, <1>5, <2>2, <2>3 DEF Frame
<1> QED BY <1>1, <1>3, <1>5, <1>7, <1>8, <1>14, <1>15, <1>16 DEF CalmInv

(* The server answers on the connection of a flow, or reads its data.      *)
LEMMA RplayFlowed ==
    ASSUME Lib, Lib', CalmInv, Serve("flow")
    PROVE  CalmInv'
<1>0. "ctl" \in Conns /\ "flow" \in Conns
  BY DEF Conns
<1>1. PICK f, asked, me, st, p, q, g, how, fp, fq :
        /\ f = fd["ctl"] /\ asked = notify["ctl"] /\ me = i /\ st = entry[i]
        /\ p = toServer["ctl"] /\ q = toClient["ctl"]
        /\ g = fd["flow"] /\ how = table[i] /\ fp = toServer["flow"] /\ fq = toClient["flow"]
  OBVIOUS
<1>2. /\ Frame /\ At(pc, st) /\ Ctl(pc, f, asked, me, st, p, q) /\ Flo(pc, g, how, me, st, fp, fq)
      /\ i \in Sounds /\ fp \in Seq(Messages) /\ fq \in Seq(Lines) /\ g \in BOOLEAN
      /\ Len(fq) \in Nat /\ notify["flow"] = FALSE
  BY <1>1, CalmIs, Nothing DEF CalmInv, Frame
<1>3. UNCHANGED <<pc, fd, eof, table, i, interrupted>>
  BY DEF Serve, client
<1>4. PICK m : m = fp[1]
  OBVIOUS
<1>5. fp # <<>> /\ UNCHANGED <<toServer["ctl"], toClient["ctl"], notify["ctl"]>>
  BY <1>0, <1>1, ServeIs
<1>6. m \in Messages
  BY <1>2, <1>4, <1>5, Behead
<1>7. PICK lines \in Replies("flow", m) :
        /\ toServer'["flow"] = Tail(fp)
        /\ toClient'["flow"] = IF g = TRUE THEN fq \o lines ELSE fq
        /\ entry' = IF m.op \in {"play", "flow"} /\ lines[1].k = "+"
                    THEN [entry EXCEPT ![m.id] = IF m.op = "flow" THEN "flow" ELSE "playing"]
                    ELSE entry
        /\ notify'["flow"] = IF m.op = "notify" THEN TRUE
                             ELSE IF m.op = "none" THEN FALSE ELSE notify["flow"]
  BY <1>0, <1>1, <1>2, <1>4, <1>5, ServeIs
<1>8. PICK r, qq, nst : r = Tail(fp) /\ qq = toClient'["flow"] /\ nst = entry'[i]
  OBVIOUS
<1>9. /\ m.op \in {"flow", "put", "data"}
      /\ m.op = "flow" => /\ pc = "flowplay?" /\ fq = <<>> /\ st = "none" /\ g = TRUE
                          /\ Len(fp) = 1 /\ m.id = me
      /\ m.op = "put" => pc = "put?" /\ fq = <<>> /\ g = TRUE /\ Len(fp) = 1 /\ m.id = me
      /\ m.op = "data" => pc = "done?" /\ st = "flow" /\ OnlyData(fp)
  <2>1. Len(fp) \in Nat /\ Len(fp) > 0
    BY <1>2, <1>5, Nothing
  <2> QED BY <1>2, <1>4, <1>5, <2>1 DEF Flo, One, OnlyData
<1>10. notify'["flow"] = FALSE
  BY <1>2, <1>7, <1>9
<1>11. /\ r \in Seq(Messages) /\ Len(fp) \in Nat /\ Len(r) = Len(fp) - 1
       /\ \A j \in 1..(Len(fp) - 1) : r[j] = fp[j + 1]
       /\ Len(fp) = 1 => r = <<>>
  <2>1. /\ r \in Seq(Messages) /\ Len(fp) \in Nat /\ Len(r) = Len(fp) - 1
        /\ \A j \in 1..(Len(fp) - 1) : r[j] = fp[j + 1]
    BY <1>2, <1>5, <1>8, Behead
  <2>2. Len(fp) = 1 => r = <<>>
    BY <2>1, Nothing
  <2> QED BY <2>1, <2>2
<1>12. /\ \A s \in Sounds : s # i => entry'[s] = entry[s]
       /\ nst = IF m.op = "flow" /\ lines[1].k = "+" THEN "flow" ELSE st
  <2>1. CASE m.op = "flow" /\ lines[1].k = "+"
    <3>1. entry' = [entry EXCEPT ![i] = "flow"]
      BY <1>1, <1>7, <1>9, <2>1
    <3> QED BY <1>2, <1>8, <2>1, <3>1 DEF Lib
  <2>2. CASE ~(m.op = "flow" /\ lines[1].k = "+")
    <3>1. entry' = entry
      BY <1>7, <1>9, <2>2
    <3> QED BY <1>1, <1>8, <2>2, <3>1
  <2> QED BY <2>1, <2>2
<1>13. m.op \in {"flow", "put"} => qq = lines
  <2>1. lines \in Seq(Lines)
    BY <1>0, <1>6, RepliesAre
  <2> QED BY <1>2, <1>7, <1>8, <1>9, <2>1, Joined
<1>14. m.op \in {"flow", "put"} => /\ Len(lines) = 1 /\ lines[1].k \in {"+", "-"}
                                   /\ m.op = "put" => lines[1].k = "+"
  <2>1. m.op = "put" => entry[m.id] = "flow"
    BY <1>1, <1>2, <1>9 DEF At
  <2> QED BY <1>0, <1>6, <2>1, RepliesAre
<1>15. Flo(pc, g, how, me, nst, r, qq)
  <2>1. CASE m.op = "flow"
    <3>1. r = <<>> /\ Len(qq) = 1 /\ qq[1].k \in {"+", "-"} /\ g = TRUE /\ pc = "flowplay?"
      BY <1>9, <1>11, <1>13, <1>14, <2>1
    <3>2. (qq[1].k = "+" /\ nst = "flow") \/ (qq[1].k = "-" /\ nst = "none")
      BY <1>9, <1>12, <1>13, <2>1, <3>1
    <3> QED BY <3>1, <3>2 DEF Flo
  <2>2. CASE m.op = "put"
    <3>1. r = <<>> /\ Len(qq) = 1 /\ qq[1].k = "+" /\ g = TRUE /\ pc = "put?"
      BY <1>9, <1>11, <1>13, <1>14, <2>2
    <3> QED BY <3>1 DEF Flo
  <2>3. CASE m.op = "data"
    <3>1. OnlyData(r)
      <4> SUFFICES ASSUME NEW j \in 1..Len(r) PROVE r[j].op = "data"
        BY DEF OnlyData
      <4>1. r[j] = fp[j + 1] /\ j + 1 \in 1..Len(fp)
        BY <1>11
      <4> QED BY <1>9, <2>3, <4>1 DEF OnlyData
    <3>2. pc = "done?" /\ nst = "flow"
      BY <1>9, <1>12, <2>3
    <3> QED BY <3>1, <3>2 DEF Flo
  <2> QED BY <1>9, <2>1, <2>2, <2>3
<1>16. At(pc, nst) /\ Ctl(pc, f, asked, me, nst, p, q)
  <2>1. CASE nst = st
    BY <1>2, <2>1
  <2>2. CASE nst # st
    <3>1. pc = "flowplay?" /\ nst = "flow" /\ st = "none"
      BY <1>9, <1>12, <2>2
    <3>2. f = TRUE /\ p = <<>> /\ Notes(q, 1, me, st)
      BY <1>2, <3>1 DEF Ctl
    <3>3. Notes(q, 1, me, nst)
      BY <3>1, <3>2 DEF Notes, Note
    <3> QED BY <3>1, <3>2, <3>3 DEF At, Ctl, Asking
  <2> QED BY <2>1, <2>2
<1>17. Frame'
  <2>1. \A s \in Sounds : s < i \/ s > i => s # i
    BY <1>2, BoundAssumption DEF Sounds
  <2>2. Walk'
    BY <1>2, <1>3, <1>12, <2>1 DEF Walk, Frame
  <2>3. pc \in Asking => \A s \in Sounds : entry'[s] = "none"
    BY <1>9 DEF Asking
  <2> QED BY <1>2, <1>3, <1>10, <2>2, <2>3 DEF Frame
<1> QED BY <1>1, <1>3, <1>5, <1>7, <1>8, <1>15, <1>16, <1>17 DEF CalmInv

(* rplay goes on with the same sound.                                      *)
LEMMA RplayStays ==
    ASSUME CalmInv, UNCHANGED <<entry, table, i>>, interrupted' = FALSE,
           eof'["ctl"] = FALSE, eof'["flow"] = FALSE, notify'["flow"] = FALSE,
           pc' \in Asking => pc \in Asking, At(pc', entry[i]),
           Ctl(pc', fd'["ctl"], notify'["ctl"], i, entry[i], toServer'["ctl"], toClient'["ctl"]),
           Flo(pc', fd'["flow"], table[i], i, entry[i], toServer'["flow"], toClient'["flow"])
    PROVE  CalmInv'
<1>1. Walk'
  BY DEF CalmInv, Frame, Walk
<1>2. Frame'
  BY <1>1 DEF CalmInv, Frame
<1> QED BY <1>2 DEF CalmInv

(* rplay goes on to the next sound, or exits.                              *)
LEMMA RplayGoesOn ==
    ASSUME Lib, CalmInv, UNCHANGED <<entry, table, eof, toServer>>, interrupted' = FALSE,
           notify'["flow"] = FALSE, notify'["ctl"] = FALSE,
           IF i = NSounds THEN pc' = "exit" /\ UNCHANGED i ELSE pc' = "play" /\ i' = i + 1,
           entry[i] \in {"none", "done"}, toServer["flow"] = <<>>,
           fd'["ctl"] = TRUE => toServer["ctl"] = <<>> /\ toClient'["ctl"] = <<>>
    PROVE  CalmInv'
<1>1. /\ i \in Int /\ i \in Sounds /\ NSounds \in Nat
      /\ \A s \in Sounds : s # i => entry[s] \in {"none", "done"}
  BY CalmIs
<1>2. Frame /\ Walk
  BY DEF CalmInv, Frame
<1>3. CASE i = NSounds
  <2>1. pc' = "exit" /\ i' = i
    BY <1>3
  <2>2. /\ At(pc', entry[i])
        /\ Ctl(pc', fd'["ctl"], notify'["ctl"], i, entry[i], toServer'["ctl"], toClient'["ctl"])
        /\ Flo(pc', fd'["flow"], table[i], i, entry[i], toServer'["flow"], toClient'["flow"])
    BY <2>1 DEF At, Ctl, Flo, Asking
  <2>3. pc' \notin Asking
    BY <2>1 DEF Asking
  <2>4. Walk'
    BY <1>2, <2>1 DEF Walk
  <2>5. Frame'
    BY <1>2, <2>1, <2>3, <2>4 DEF Frame
  <2> QED BY <2>1, <2>2, <2>5 DEF CalmInv
<1>4. CASE i # NSounds
  <2>1. pc' = "play" /\ i' = i + 1
    BY <1>4
  <2>2. i' \in Sounds /\ entry[i'] = "none"
    <3>1. i' \in Sounds /\ i' > i
      BY <1>1, <1>4, <2>1 DEF Sounds
    <3> QED BY <1>2, <3>1 DEF Walk
  <2>3. /\ At(pc', entry[i'])
        /\ Ctl(pc', fd'["ctl"], notify'["ctl"], i', entry[i'], toServer'["ctl"], toClient'["ctl"])
        /\ Flo(pc', fd'["flow"], table[i'], i', entry[i'], toServer'["flow"], toClient'["flow"])
    BY <2>1, <2>2 DEF At, Ctl, Flo, Asking
  <2>4. Walk'
    <3> SUFFICES ASSUME NEW s \in Sounds
                 PROVE  /\ s < i + 1 => entry[s] \in {"none", "done"}
                        /\ s > i + 1 => entry[s] = "none"
      BY <2>1 DEF Walk
    <3>1. s \in Int
      BY <1>1 DEF Sounds
    <3>2. /\ s < i + 1 => s = i \/ s < i
          /\ s > i + 1 => s > i
      BY <1>1, <3>1
    <3> QED BY <1>2, <3>2 DEF Walk
  <2>5. pc' \notin Asking
    BY <2>1 DEF Asking
  <2>6. Frame'
    BY <1>2, <2>1, <2>2, <2>4, <2>5 DEF Frame
  <2> QED BY <2>1, <2>3, <2>6 DEF CalmInv
<1> QED BY <1>3, <1>4

(* rplay writes a line to a connection on which nothing is on its way.     *)
LEMMA RplayWrites ==
    ASSUME Lib, CalmInv, NEW c \in Conns, NEW op \in Ops, Put(c, op), fd[c], toServer[c] = <<>>,
           UNCHANGED <<fd, eof, notify, toClient>>
    PROVE  /\ One(toServer'[c], op, i)
           /\ \A d \in Conns : d # c => toServer'[d] = toServer[d]
<1>1. ~eof[c]
  BY DEF CalmInv, Frame, Conns
<1>2. PICK m : m = [op |-> op, n |-> n + 1, id |-> i]
  OBVIOUS
<1>3. m.op = op /\ m.id = i
  BY <1>2
<1>4. /\ toServer'[c] = Append(<<>>, m) /\ m \in Messages
      /\ \A d \in Conns : d # c => toServer'[d] = toServer[d]
  BY <1>1, <1>2, PutIs
<1>5. PICK r : r = Append(<<>>, m)
  OBVIOUS
<1>6. Len(r) = 1 /\ r[1] = m
  BY <1>4, <1>5
<1> QED BY <1>3, <1>4, <1>5, <1>6 DEF One

(* rplay asks which sounds the server has.                                 *)
LEMMA RplayAsks ==
    ASSUME Lib, Lib', CalmInv, faults' = 0, RplayOpen \/ AskInfo \/ Info \/ Udp
    PROVE  CalmInv'
<1>0. "ctl" \in Conns /\ "flow" \in Conns
  BY DEF Conns
<1>1. /\ Frame /\ At(pc, entry[i])
      /\ Ctl(pc, fd["ctl"], notify["ctl"], i, entry[i], toServer["ctl"], toClient["ctl"])
      /\ Flo(pc, fd["flow"], table[i], i, entry[i], toServer["flow"], toClient["flow"])
  BY DEF CalmInv
<1>2. /\ interrupted = FALSE /\ eof["ctl"] = FALSE /\ eof["flow"] = FALSE /\ notify["flow"] = FALSE
  BY <1>1 DEF Frame
<1>3. pc \in Asking
  BY DEF RplayOpen, AskInfo, Info, Udp, Asking
<1>4. toServer["flow"] = <<>> /\ entry[i] = "none" /\ \A s \in Sounds : entry[s] = "none"
  BY <1>1, <1>3 DEF Flo, At, Frame, Asking
<1>5. CASE RplayOpen
  <2>1. /\ pc = "open" /\ Connect("ctl", "info", "udp")
        /\ UNCHANGED <<entry, table, i, interrupted>>
    BY <1>5 DEF RplayOpen
  <2>2. /\ eof'["flow"] = FALSE /\ notify'["flow"] = FALSE /\ toServer'["flow"] = <<>>
        /\ \/ /\ pc' = "info" /\ fd'["ctl"] = TRUE /\ eof'["ctl"] = FALSE /\ notify'["ctl"] = FALSE
              /\ toServer'["ctl"] = <<>> /\ toClient'["ctl"] = <<>>
           \/ pc' \in {"udp", "open"} /\ UNCHANGED <<fd, eof, toServer, toClient, notify>>
    BY <1>0, <1>2, <1>4, <2>1, ConnectIs
  <2>3. pc' \in Asking /\ pc' \in {"info", "udp", "open"}
    BY <2>2 DEF Asking
  <2>4. Ctl(pc', fd'["ctl"], notify'["ctl"], i, entry[i], toServer'["ctl"], toClient'["ctl"])
    <3>1. CASE pc' = "info"
      BY <2>2, <3>1 DEF Ctl
    <3>2. CASE pc' \in {"udp", "open"} /\ UNCHANGED <<fd, eof, toServer, toClient, notify>>
      <4>1. /\ notify["ctl"] = FALSE
            /\ fd["ctl"] = TRUE => toServer["ctl"] = <<>> /\ toClient["ctl"] = <<>>
        BY <1>1, <2>1 DEF Ctl
      <4> QED BY <3>2, <4>1 DEF Ctl
    <3> QED BY <2>2, <3>1, <3>2
  <2>5. /\ At(pc', entry[i])
        /\ Flo(pc', fd'["flow"], table[i], i, entry[i], toServer'["flow"], toClient'["flow"])
    BY <1>4, <2>2, <2>3 DEF At, Flo, Asking
  <2>6. eof'["ctl"] = FALSE
    BY <1>2, <2>2
  <2> QED BY <1>2, <1>3, <2>1, <2>2, <2>4, <2>5, <2>6, RplayStays
<1>6. CASE AskInfo
  <2>1. /\ pc \in {"info", "info2"} /\ Put("ctl", "info") /\ pc' \in {"info?", "info2?"}
        /\ UNCHANGED <<entry, table, i, interrupted, fd, eof, notify, toClient>> /\ "info" \in Ops
    BY <1>6 DEF AskInfo, Ops
  <2>2. fd["ctl"] = TRUE /\ notify["ctl"] = FALSE /\ toServer["ctl"] = <<>> /\ toClient["ctl"] = <<>>
    BY <1>1, <2>1 DEF Ctl
  <2>3. One(toServer'["ctl"], "info", i) /\ toServer'["flow"] = toServer["flow"]
    BY <1>0, <2>1, <2>2, RplayWrites
  <2>4. Ctl(pc', fd'["ctl"], notify'["ctl"], i, entry[i], toServer'["ctl"], toClient'["ctl"])
    BY <2>1, <2>2, <2>3 DEF Ctl
  <2>5. /\ At(pc', entry[i])
        /\ Flo(pc', fd'["flow"], table[i], i, entry[i], toServer'["flow"], toClient'["flow"])
    BY <1>4, <2>1, <2>3 DEF At, Flo, Asking
  <2> QED BY <1>2, <1>3, <2>1, <2>4, <2>5, RplayStays
<1>7. CASE Info
  <2>1. /\ pc \in {"info?", "info2?"}
        /\ UNCHANGED <<entry, interrupted, fd, eof, notify, toServer>>
    BY <1>7 DEF Info
  <2>2. /\ fd["ctl"] = TRUE /\ notify["ctl"] = FALSE
        /\ \/ Len(toServer["ctl"]) = 1 /\ toClient["ctl"] = <<>>
           \/ toServer["ctl"] = <<>> /\ Len(toClient["ctl"]) = 1
    BY <1>1, <2>1 DEF Ctl, One
  <2>3. /\ toClient["ctl"] # <<>> /\ toClient' = [toClient EXCEPT !["ctl"] = Tail(@)]
    BY <1>2, <1>7, <2>2 DEF Info, HasLine, NoMore, Take
  <2>4. toServer["ctl"] = <<>> /\ Len(toClient["ctl"]) = 1
    BY <2>2, <2>3
  <2>5. toClient'["ctl"] = Tail(toClient["ctl"])
    BY <1>0, <2>1, <2>3, TakeIs
  <2>6. toClient'["ctl"] = <<>>
    <3>1. toClient["ctl"] \in Seq(Lines)
      BY <1>0 DEF Lib
    <3> QED BY <2>4, <2>5, <3>1, LastTaken
  <2>7. CASE pc' = "info2" /\ UNCHANGED <<table, i>>
    <3>1. Ctl(pc', fd'["ctl"], notify'["ctl"], i, entry[i], toServer'["ctl"], toClient'["ctl"])
      BY <2>1, <2>2, <2>4, <2>6, <2>7 DEF Ctl
    <3>2. /\ At(pc', entry[i])
          /\ Flo(pc', fd'["flow"], table[i], i, entry[i], toServer'["flow"], toClient'["flow"])
      BY <1>4, <2>1, <2>7 DEF At, Flo, Asking
    <3> QED BY <1>2, <1>3, <2>1, <2>7, <3>1, <3>2, RplayStays
  <2>8. CASE \E found \in BOOLEAN : NextInfo(found)
    <3>1. /\ i' \in {i + 1, 1} /\ (i' = i + 1 => i < NSounds \/ i' = 1)
          /\ pc' \in {"info", "play", "udp"}
          /\ \E x \in {"flow", "play"} : table' = [table EXCEPT ![i] = x]
      BY <2>8 DEF NextInfo
    <3>2. table' \in [Sounds -> {"play", "flow"}]
      BY <1>1, <3>1 DEF Frame
    <3>3. i' \in Sounds
      BY <3>1, CalmIs, BoundAssumption DEF Sounds
    <3>4. entry'[i'] = "none" /\ \A s \in Sounds : entry'[s] = "none"
      BY <1>4, <2>1, <3>3
    <3>5. /\ At(pc', entry'[i'])
          /\ Ctl(pc', fd'["ctl"], notify'["ctl"], i', entry'[i'], toServer'["ctl"], toClient'["ctl"])
          /\ Flo(pc', fd'["flow"], table'[i'], i', entry'[i'], toServer'["flow"], toClient'["flow"])
      BY <1>4, <2>1, <2>2, <2>4, <2>6, <3>1, <3>4 DEF At, Ctl, Flo, Asking
    <3>6. Walk'
      BY <3>4 DEF Walk
    <3>7. Frame'
      BY <1>2, <2>1, <3>2, <3>3, <3>4, <3>6 DEF Frame
    <3> QED BY <3>5, <3>7 DEF CalmInv
  <2>9. (pc' = "info2" /\ UNCHANGED <<table, i>>) \/ (\E found \in BOOLEAN : NextInfo(found))
    BY <1>7 DEF Info
  <2> QED BY <2>7, <2>8, <2>9
<1>8. CASE Udp
  <2>1. /\ pc' = "exit" /\ Close("ctl")
        /\ UNCHANGED <<entry, table, i, interrupted, eof, toServer>>
    BY <1>8 DEF Udp
  <2>2. fd'["ctl"] = FALSE /\ notify'["flow"] = FALSE
    BY <1>0, <1>2, <2>1, CloseIs
  <2>3. /\ At(pc', entry[i])
        /\ Ctl(pc', fd'["ctl"], notify'["ctl"], i, entry[i], toServer'["ctl"], toClient'["ctl"])
        /\ Flo(pc', fd'["flow"], table[i], i, entry[i], toServer'["flow"], toClient'["flow"])
    BY <1>4, <2>1, <2>2 DEF At, Ctl, Flo, Asking
  <2> QED BY <1>2, <1>3, <2>1, <2>2, <2>3, RplayStays
<1> QED BY <1>5, <1>6, <1>7, <1>8

(* rplay plays a sound: what it opens and writes.                          *)
LEMMA RplayPlays ==
    ASSUME Lib, Lib', CalmInv, faults' = 0,
           Reopen \/ Unopened \/ FlowOpen \/ Refused \/ play_with_play \/ play_with_flow \/ FlowData
    PROVE  CalmInv'
<1>0. "ctl" \in Conns /\ "flow" \in Conns
  BY DEF Conns
<1>1. /\ Frame /\ At(pc, entry[i])
      /\ Ctl(pc, fd["ctl"], notify["ctl"], i, entry[i], toServer["ctl"], toClient["ctl"])
      /\ Flo(pc, fd["flow"], table[i], i, entry[i], toServer["flow"], toClient["flow"])
  BY DEF CalmInv
<1>2. /\ interrupted = FALSE /\ eof["ctl"] = FALSE /\ eof["flow"] = FALSE /\ notify["flow"] = FALSE
      /\ table[i] \in {"play", "flow"}
  BY <1>1 DEF Frame
<1>3. CASE Reopen
  <2>1. /\ pc = "play" /\ ~fd["ctl"] /\ Connect("ctl", "play", "unopened")
        /\ UNCHANGED <<entry, table, i, interrupted>>
    BY <1>3 DEF Reopen
  <2>2. entry[i] = "none" /\ toServer["flow"] = <<>> /\ notify["ctl"] = FALSE /\ fd["ctl"] = FALSE
    BY <1>0, <1>1, <2>1 DEF At, Flo, Ctl, Lib
  <2>3. /\ eof'["flow"] = FALSE /\ notify'["flow"] = FALSE /\ toServer'["flow"] = <<>>
        /\ \/ /\ pc' = "play" /\ fd'["ctl"] = TRUE /\ eof'["ctl"] = FALSE /\ notify'["ctl"] = FALSE
              /\ toServer'["ctl"] = <<>> /\ toClient'["ctl"] = <<>>
           \/ pc' \in {"unopened", "play"} /\ UNCHANGED <<fd, eof, toServer, toClient, notify>>
    BY <1>0, <1>2, <2>1, <2>2, ConnectIs
  <2>4. /\ eof'["ctl"] = FALSE /\ pc' \notin Asking
        /\ At(pc', entry[i])
        /\ Flo(pc', fd'["flow"], table[i], i, entry[i], toServer'["flow"], toClient'["flow"])
    BY <1>2, <2>2, <2>3 DEF At, Flo, Asking
  <2>5. Ctl(pc', fd'["ctl"], notify'["ctl"], i, entry[i], toServer'["ctl"], toClient'["ctl"])
    BY <2>2, <2>3 DEF Ctl
  <2> QED BY <1>2, <2>1, <2>3, <2>4, <2>5, RplayStays
<1>4. CASE Unopened
  <2>1. /\ pc = "unopened"
        /\ IF i = NSounds THEN pc' = "exit" /\ UNCHANGED i ELSE pc' = "play" /\ i' = i + 1
        /\ UNCHANGED <<entry, table, interrupted, eof, toServer, toClient, fd, notify>>
    BY <1>4 DEF Unopened, NextSound
  <2>2. /\ entry[i] = "none" /\ toServer["flow"] = <<>>
        /\ fd["ctl"] = FALSE /\ notify["ctl"] = FALSE
    BY <1>1, <2>1 DEF At, Flo, Ctl
  <2> QED BY <1>2, <2>1, <2>2, RplayGoesOn
<1>5. CASE Refused
  <2>1. /\ pc = "refused" /\ Close("ctl")
        /\ IF i = NSounds THEN pc' = "exit" /\ UNCHANGED i ELSE pc' = "play" /\ i' = i + 1
        /\ UNCHANGED <<entry, table, interrupted, eof, toServer>>
    BY <1>5 DEF Refused, NextSound
  <2>2. entry[i] = "none" /\ toServer["flow"] = <<>>
    BY <1>1, <2>1 DEF At, Flo
  <2>3. fd'["ctl"] = FALSE /\ notify'["ctl"] = FALSE /\ notify'["flow"] = FALSE
    BY <1>0, <1>2, <2>1, CloseIs DEF Close, Lib
  <2> QED BY <1>2, <2>1, <2>2, <2>3, RplayGoesOn
<1>6. CASE FlowOpen
  <2>1. /\ pc = "play" /\ fd["ctl"] /\ Connect("flow", "flow", "refused")
        /\ UNCHANGED <<entry, table, i, interrupted>>
    BY <1>6 DEF FlowOpen
  <2>2. /\ entry[i] = "none" /\ toServer["flow"] = <<>> /\ notify["ctl"] = FALSE
        /\ fd["ctl"] = TRUE /\ toServer["ctl"] = <<>> /\ toClient["ctl"] = <<>>
    BY <1>0, <1>1, <2>1 DEF At, Flo, Ctl, Lib
  <2>3. /\ eof'["ctl"] = FALSE /\ notify'["ctl"] = FALSE /\ toServer'["ctl"] = <<>>
        /\ toClient'["ctl"] = <<>> /\ fd'["ctl"] = TRUE
        /\ \/ /\ pc' = "flow" /\ fd'["flow"] = TRUE /\ eof'["flow"] = FALSE /\ notify'["flow"] = FALSE
              /\ toServer'["flow"] = <<>> /\ toClient'["flow"] = <<>>
           \/ pc' \in {"refused", "play"} /\ UNCHANGED <<fd, eof, toServer, toClient, notify>>
    BY <1>0, <1>2, <2>1, <2>2, ConnectIs
  <2>4. /\ eof'["flow"] = FALSE /\ notify'["flow"] = FALSE /\ pc' \notin Asking
        /\ At(pc', entry[i])
    BY <1>2, <2>2, <2>3 DEF At, Asking
  <2>5. Ctl(pc', fd'["ctl"], notify'["ctl"], i, entry[i], toServer'["ctl"], toClient'["ctl"])
    BY <2>2, <2>3 DEF Ctl
  <2>6. Flo(pc', fd'["flow"], table[i], i, entry[i], toServer'["flow"], toClient'["flow"])
    BY <2>2, <2>3 DEF Flo, Asking
  <2> QED BY <1>2, <2>1, <2>3, <2>4, <2>5, <2>6, RplayStays
<1>7. ASSUME NEW from, NEW c \in Conns, NEW op \in Ops, NEW then, Step(from, c, op, then),
             fd[c] = TRUE, toServer[c] = <<>>, then \notin Asking, At(then, entry[i]),
             One(toServer'[c], op, i) /\ (\A d \in Conns : d # c => toServer'[d] = toServer[d]) =>
                /\ Ctl(then, fd["ctl"], notify["ctl"], i, entry[i], toServer'["ctl"], toClient["ctl"])
                /\ Flo(then, fd["flow"], table[i], i, entry[i], toServer'["flow"], toClient["flow"])
      PROVE  CalmInv'
  <2>1. /\ Put(c, op) /\ pc' = then
        /\ UNCHANGED <<entry, table, i, interrupted, fd, eof, notify, toClient>>
    BY <1>7 DEF Step
  <2>2. One(toServer'[c], op, i) /\ (\A d \in Conns : d # c => toServer'[d] = toServer[d])
    BY <1>7, <2>1, RplayWrites
  <2> QED BY <1>2, <1>7, <2>1, <2>2, RplayStays
<1>8. CASE play_with_play
  <2>1. CASE /\ fd["ctl"] /\ table[i] = "play" /\ Step("play", "ctl", "notify", "notify?")
    <3>1. /\ entry[i] = "none" /\ toServer["flow"] = <<>> /\ notify["ctl"] = FALSE
          /\ fd["ctl"] = TRUE /\ toServer["ctl"] = <<>> /\ toClient["ctl"] = <<>>
      BY <1>0, <1>1, <2>1 DEF At, Flo, Ctl, Lib, Step
    <3>2. "notify" \in Ops /\ "notify?" \notin Asking /\ At("notify?", entry[i])
      BY <3>1 DEF Ops, Asking, At
    <3>3. ASSUME One(toServer'["ctl"], "notify", i), toServer'["flow"] = toServer["flow"]
          PROVE  /\ Ctl("notify?", fd["ctl"], notify["ctl"], i, entry[i], toServer'["ctl"],
                        toClient["ctl"])
                 /\ Flo("notify?", fd["flow"], table[i], i, entry[i], toServer'["flow"],
                        toClient["flow"])
      BY <2>1, <3>1, <3>3 DEF Ctl, Flo
    <3> QED BY <1>0, <1>7, <2>1, <3>1, <3>2, <3>3
  <2>2. CASE Step("sound", "ctl", "play", "sound?")
    <3>1. /\ entry[i] = "none" /\ toServer["flow"] = <<>> /\ Notes(toClient["ctl"], 1, i, entry[i])
          /\ fd["ctl"] = TRUE /\ toServer["ctl"] = <<>>
      BY <1>1, <2>2 DEF At, Flo, Ctl, Step
    <3>2. "play" \in Ops /\ "sound?" \notin Asking /\ At("sound?", entry[i])
      BY DEF Ops, Asking, At
    <3>3. ASSUME One(toServer'["ctl"], "play", i), toServer'["flow"] = toServer["flow"]
          PROVE  /\ Ctl("sound?", fd["ctl"], notify["ctl"], i, entry[i], toServer'["ctl"],
                        toClient["ctl"])
                 /\ Flo("sound?", fd["flow"], table[i], i, entry[i], toServer'["flow"],
                        toClient["flow"])
      BY <3>1, <3>3 DEF Ctl, Flo
    <3> QED BY <1>0, <1>7, <2>2, <3>1, <3>2, <3>3
  <2>3. CASE Step("none", "ctl", "none", "none?")
    <3>1. /\ entry[i] = "done" /\ toServer["flow"] = <<>> /\ Notes(toClient["ctl"], 1, i, entry[i])
          /\ fd["ctl"] = TRUE /\ toServer["ctl"] = <<>>
      BY <1>1, <2>3 DEF At, Flo, Ctl, Step
    <3>2. "none" \in Ops /\ "none?" \notin Asking /\ At("none?", entry[i])
      BY <3>1 DEF Ops, Asking, At
    <3>3. ASSUME One(toServer'["ctl"], "none", i), toServer'["flow"] = toServer["flow"]
          PROVE  /\ Ctl("none?", fd["ctl"], notify["ctl"], i, entry[i], toServer'["ctl"],
                        toClient["ctl"])
                 /\ Flo("none?", fd["flow"], table[i], i, entry[i], toServer'["flow"],
                        toClient["flow"])
      BY <3>1, <3>3 DEF Ctl, Flo
    <3> QED BY <1>0, <1>7, <2>3, <3>1, <3>2, <3>3
  <2> QED BY <1>8, <2>1, <2>2, <2>3 DEF play_with_play
<1>9. CASE play_with_flow
  <2>1. CASE Step("flow", "ctl", "notify", "notify?")
    <3>1. /\ entry[i] = "none" /\ toServer["flow"] = <<>> /\ notify["ctl"] = FALSE
          /\ fd["ctl"] = TRUE /\ toServer["ctl"] = <<>> /\ toClient["ctl"] = <<>>
          /\ fd["flow"] = TRUE /\ toClient["flow"] = <<>>
      BY <1>1, <2>1 DEF At, Flo, Ctl, Step, Asking
    <3>2. "notify" \in Ops /\ "notify?" \notin Asking /\ At("notify?", entry[i])
      BY <3>1 DEF Ops, Asking, At
    <3>3. ASSUME One(toServer'["ctl"], "notify", i), toServer'["flow"] = toServer["flow"]
          PROVE  /\ Ctl("notify?", fd["ctl"], notify["ctl"], i, entry[i], toServer'["ctl"],
                        toClient["ctl"])
                 /\ Flo("notify?", fd["flow"], table[i], i, entry[i], toServer'["flow"],
                        toClient["flow"])
      BY <3>1, <3>3 DEF Ctl, Flo
    <3> QED BY <1>0, <1>7, <2>1, <3>1, <3>2, <3>3
  <2>2. CASE Step("flowplay", "flow", "flow", "flowplay?")
    <3>1. /\ entry[i] = "none" /\ toServer["flow"] = <<>> /\ Notes(toClient["ctl"], 1, i, entry[i])
          /\ fd["ctl"] = TRUE /\ toServer["ctl"] = <<>>
          /\ fd["flow"] = TRUE /\ toClient["flow"] = <<>>
      BY <1>1, <2>2 DEF At, Flo, Ctl, Step, Asking
    <3>2. "flow" \in Ops /\ "flowplay?" \notin Asking /\ At("flowplay?", entry[i])
      BY DEF Ops, Asking, At
    <3>3. ASSUME One(toServer'["flow"], "flow", i), toServer'["ctl"] = toServer["ctl"]
          PROVE  /\ Ctl("flowplay?", fd["ctl"], notify["ctl"], i, entry[i], toServer'["ctl"],
                        toClient["ctl"])
                 /\ Flo("flowplay?", fd["flow"], table[i], i, entry[i], toServer'["flow"],
                        toClient["flow"])
      BY <3>1, <3>3 DEF Ctl, Flo
    <3> QED BY <1>0, <1>7, <2>2, <3>1, <3>2, <3>3
  <2>3. CASE Step("put", "flow", "put", "put?")
    <3>1. /\ entry[i] = "flow" /\ toServer["flow"] = <<>> /\ Notes(toClient["ctl"], 1, i, entry[i])
          /\ fd["ctl"] = TRUE /\ toServer["ctl"] = <<>>
          /\ fd["flow"] = TRUE /\ toClient["flow"] = <<>>
      BY <1>1, <2>3 DEF At, Flo, Ctl, Step
    <3>2. "put" \in Ops /\ "put?" \notin Asking /\ At("put?", entry[i])
      BY <3>1 DEF Ops, Asking, At
    <3>3. ASSUME One(toServer'["flow"], "put", i), toServer'["ctl"] = toServer["ctl"]
          PROVE  /\ Ctl("put?", fd["ctl"], notify["ctl"], i, entry[i], toServer'["ctl"],
                        toClient["ctl"])
                 /\ Flo("put?", fd["flow"], table[i], i, entry[i], toServer'["flow"],
                        toClient["flow"])
      BY <3>1, <3>3 DEF Ctl, Flo
    <3> QED BY <1>0, <1>7, <2>3, <3>1, <3>2, <3>3
  <2> QED BY <1>9, <2>1, <2>2, <2>3 DEF play_with_flow
<1>10. CASE FlowData
  <2>1. PICK m : m = [op |-> "data", n |-> n, id |-> i]
    OBVIOUS
  <2>2. m \in Messages /\ m.op = "data"
    BY <2>1 DEF Messages, Ops, Lib
  <2>3. /\ pc = "data" /\ pc' = "done?" /\ Close("flow")
        /\ toServer' = [toServer EXCEPT !["flow"] = Append(toServer["flow"], m)]
        /\ UNCHANGED <<entry, table, i, interrupted, eof>>
    BY <1>2, <1>10, <2>1 DEF FlowData
  <2>4. /\ entry[i] = "flow" /\ toServer["flow"] = <<>> /\ Notes(toClient["ctl"], 1, i, entry[i])
        /\ fd["ctl"] = TRUE /\ toServer["ctl"] = <<>>
    BY <1>1, <2>3 DEF At, Flo, Ctl
  <2>5. toServer'["flow"] = Append(<<>>, m) /\ toServer'["ctl"] = <<>>
    BY <1>0, <2>3, <2>4 DEF Lib
  <2>6. OnlyData(toServer'["flow"])
    <3>1. PICK r : r = Append(<<>>, m)
      OBVIOUS
    <3>2. Len(r) = 1 /\ r[1] = m
      BY <2>2, <3>1
    <3>3. OnlyData(r)
      BY <2>2, <3>2 DEF OnlyData
    <3> QED BY <2>5, <3>1, <3>3
  <2>7. /\ fd'["ctl"] = fd["ctl"] /\ toClient'["ctl"] = toClient["ctl"]
        /\ notify'["ctl"] = notify["ctl"] /\ notify'["flow"] = FALSE
    BY <1>0, <2>3 DEF Close, Lib
  <2>8. /\ At(pc', entry[i]) /\ pc' \notin Asking
        /\ Ctl(pc', fd'["ctl"], notify'["ctl"], i, entry[i], toServer'["ctl"], toClient'["ctl"])
        /\ Flo(pc', fd'["flow"], table[i], i, entry[i], toServer'["flow"], toClient'["flow"])
    BY <2>3, <2>4, <2>5, <2>6, <2>7 DEF At, Asking, Ctl, Flo
  <2> QED BY <1>2, <2>3, <2>7, <2>8, RplayStays
<1> QED BY <1>3, <1>4, <1>5, <1>6, <1>8, <1>9, <1>10

(* rplay plays a sound: what it reads.                                     *)
LEMMA RplayHears ==
    ASSUME Lib, Lib', CalmInv, ~skewed', RplayAnswer \/ AwaitDone \/ EatNotes
    PROVE  CalmInv'
<1>0. "ctl" \in Conns /\ "flow" \in Conns
  BY DEF Conns
<1>1. PICK f, asked, me, st, p, q, g, how, fp, fq :
        /\ f = fd["ctl"] /\ asked = notify["ctl"] /\ me = i /\ st = entry[i]
        /\ p = toServer["ctl"] /\ q = toClient["ctl"]
        /\ g = fd["flow"] /\ how = table[i] /\ fp = toServer["flow"] /\ fq = toClient["flow"]
  OBVIOUS
<1>2. /\ Frame /\ At(pc, st) /\ Ctl(pc, f, asked, me, st, p, q) /\ Flo(pc, g, how, me, st, fp, fq)
      /\ interrupted = FALSE /\ eof["ctl"] = FALSE /\ eof["flow"] = FALSE /\ notify["flow"] = FALSE
      /\ q \in Seq(Lines) /\ fq \in Seq(Lines) /\ Len(q) \in Nat /\ Len(fq) \in Nat
      /\ how \in {"play", "flow"}
  BY <1>1, CalmIs, Nothing DEF CalmInv, Frame
<1>3. /\ q # <<>> => Head(q) = q[1] /\ Len(q) > 0
      /\ fq # <<>> => Head(fq) = fq[1] /\ Len(fq) > 0
  BY <1>2, Behead
<1>4. UNCHANGED <<entry, table, eof, toServer>>
  BY DEF RplayAnswer, AwaitDone, EatNotes
<1>5. interrupted' = FALSE
  BY <1>2 DEF RplayAnswer, AwaitDone, EatNotes
(* A line is taken and the sound goes on.                                  *)
<1>6. ASSUME NEW c \in Conns, toClient[c] # <<>>, toClient' = [toClient EXCEPT ![c] = Tail(@)],
             UNCHANGED <<fd, notify, i>>, pc' \notin Asking, At(pc', st),
             Ctl(pc', f, asked, me, st, p, IF c = "ctl" THEN Tail(q) ELSE q),
             Flo(pc', g, how, me, st, fp, IF c = "flow" THEN Tail(fq) ELSE fq)
      PROVE  CalmInv'
  <2>1. /\ toClient'["ctl"] = IF c = "ctl" THEN Tail(q) ELSE q
        /\ toClient'["flow"] = IF c = "flow" THEN Tail(fq) ELSE fq
    BY <1>0, <1>1, <1>6 DEF Lib
  <2> QED BY <1>1, <1>2, <1>4, <1>5, <1>6, <2>1, RplayStays
(* The sound is given up.                                                  *)
<1>7. ASSUME NextSound(FALSE), st \in {"none", "done"}, fp = <<>>
      PROVE  CalmInv'
  <2>1. /\ Close("ctl")
        /\ IF i = NSounds THEN pc' = "exit" /\ UNCHANGED i ELSE pc' = "play" /\ i' = i + 1
    BY <1>7 DEF NextSound
  <2>2. fd'["ctl"] = FALSE /\ notify'["ctl"] = FALSE /\ notify'["flow"] = FALSE
    BY <1>0, <1>2, <2>1 DEF Close, Lib
  <2> QED BY <1>1, <1>4, <1>5, <1>7, <2>1, <2>2, RplayGoesOn
<1>8. CASE RplayAnswer
  <2>1. CASE pc \in {"notify?", "sound?"}
    <3>1. f = TRUE
      BY <1>2, <2>1 DEF Ctl
    <3>2. Awaits(pc) = "ctl" /\ ~NoMore("ctl")
      BY <1>1, <1>2, <2>1, <3>1 DEF Awaits, NoMore
    <3>3. /\ q # <<>> /\ HasLine("ctl")
          /\ IF q[1].k = "+" \/ pc = "notify?"
             THEN /\ pc' = After(pc) /\ UNCHANGED <<fd, i, notify>>
                  /\ toClient' = [toClient EXCEPT !["ctl"] = Tail(@)]
             ELSE NextSound(FALSE)
          /\ skewed' = (skewed \/ q[1].k = "@")
      BY <1>1, <1>3, <1>8, <3>2 DEF RplayAnswer, HasLine
    <3>4. q[1].k # "@"
      <4>1. skewed' = (skewed \/ q[1].k = "@")
        BY <3>3
      <4> QED BY <4>1, Zenon
    <3>5. CASE pc = "notify?"
      <4>1. Len(q) > 0 /\ p = <<>> /\ Notes(q, 2, me, st) /\ fp = <<>> /\ st = "none"
            /\ (how = "flow" => g = TRUE /\ fq = <<>>)
        BY <1>2, <3>3, <3>5 DEF Ctl, Flo, At, Asking
      <4>2. Notes(Tail(q), 1, me, st)
        BY <1>2, <3>3, <4>1, NotesTail
      <4>3. pc' = IF how = "flow" THEN "flowplay" ELSE "sound"
        BY <1>1, <3>3, <3>5 DEF After
      <4>4. pc' \notin Asking /\ At(pc', st) /\ Ctl(pc', f, asked, me, st, p, Tail(q))
        BY <3>1, <4>1, <4>2, <4>3 DEF At, Ctl, Asking
      <4>5. Flo(pc', g, how, me, st, fp, fq)
        BY <1>2, <4>1, <4>3 DEF Flo, Asking
      <4> QED BY <1>0, <1>1, <1>6, <3>3, <3>5, <4>4, <4>5
    <3>6. CASE pc = "sound?"
      <4>1. PICK d \in 1..Len(q) : /\ NotesBut(q, d, me, st)
                                   /\ \/ q[d].k = "+" /\ st \in {"playing", "done"}
                                      \/ q[d].k = "-" /\ st = "none"
        <5>1. ~Notes(q, 1, me, st)
          BY <1>2, <1>3, <3>3, <3>4 DEF Notes, Note
        <5> QED BY <1>2, <3>6, <5>1 DEF Ctl
      <4>2. d = 1
        BY <1>2, <1>3, <3>3, <3>4, <4>1 DEF NotesBut, Note
      <4>3. p = <<>> /\ fp = <<>>
        <5>1. ~Notes(q, 1, me, st)
          BY <1>2, <1>3, <3>3, <3>4 DEF Notes, Note
        <5> QED BY <1>2, <3>6, <5>1 DEF Ctl, Flo, Asking
      <4>4. CASE q[1].k = "+"
        <5>1. pc' = "done?" /\ st \in {"playing", "done"}
          BY <3>3, <3>6, <4>1, <4>2, <4>4 DEF After
        <5>2. Notes(q, 2, me, st)
          BY <1>2, <4>1, <4>2 DEF Notes, NotesBut
        <5>3. Notes(Tail(q), 1, me, st)
          BY <1>2, <3>3, <5>2, NotesTail
        <5>4. /\ pc' \notin Asking /\ At(pc', st) /\ Ctl(pc', f, asked, me, st, p, Tail(q))
              /\ Flo(pc', g, how, me, st, fp, fq)
          BY <3>1, <4>3, <5>1, <5>3 DEF At, Ctl, Flo, Asking
        <5> QED BY <1>0, <1>1, <1>6, <3>3, <4>4, <5>4
      <4>5. CASE q[1].k = "-"
        <5>1. NextSound(FALSE) /\ st = "none"
          BY <3>3, <3>6, <4>1, <4>2, <4>5
        <5> QED BY <1>7, <4>3, <5>1
      <4> QED BY <4>1, <4>2, <4>4, <4>5
    <3> QED BY <2>1, <3>5, <3>6
  <2>2. CASE pc \in {"flowplay?", "put?"}
    <3>1. g = TRUE
      BY <1>2, <2>2 DEF Flo, Asking
    <3>2. Awaits(pc) = "flow" /\ ~NoMore("flow")
      BY <1>1, <1>2, <2>2, <3>1 DEF Awaits, NoMore
    <3>3. /\ fq # <<>> /\ HasLine("flow")
          /\ IF fq[1].k = "+"
             THEN /\ pc' = After(pc) /\ UNCHANGED <<fd, i, notify>>
                  /\ toClient' = [toClient EXCEPT !["flow"] = Tail(@)]
             ELSE NextSound(FALSE)
      BY <1>1, <1>3, <1>8, <2>2, <3>2 DEF RplayAnswer, HasLine
    <3>4. /\ fp = <<>> /\ Len(fq) = 1
          /\ pc = "flowplay?" => \/ fq[1].k = "+" /\ st = "flow"
                                 \/ fq[1].k = "-" /\ st = "none"
          /\ pc = "put?" => fq[1].k = "+" /\ st = "flow"
      BY <1>2, <2>2, <3>3 DEF Flo, At, Asking
    <3>5. CASE fq[1].k = "+"
      <4>1. Tail(fq) = <<>>
        BY <1>2, <3>4, LastTaken
      <4>2. pc' \in {"put", "data"} /\ st = "flow"
        BY <2>2, <3>3, <3>4, <3>5 DEF After
      <4>3. Ctl(pc', f, asked, me, st, p, q)
        <5>1. f = TRUE /\ p = <<>> /\ Notes(q, 1, me, st)
          BY <1>2, <2>2 DEF Ctl
        <5> QED BY <4>2, <5>1 DEF Ctl
      <4>4. pc' \notin Asking /\ At(pc', st) /\ Flo(pc', g, how, me, st, fp, Tail(fq))
        BY <3>1, <3>4, <4>1, <4>2 DEF At, Flo, Asking
      <4> QED BY <1>0, <1>1, <1>6, <3>3, <3>5, <4>3, <4>4
    <3>6. CASE fq[1].k # "+"
      <4>1. NextSound(FALSE) /\ st = "none"
        BY <2>2, <3>3, <3>4, <3>6
      <4> QED BY <1>7, <3>4, <4>1
    <3> QED BY <3>5, <3>6
  <2> QED BY <1>8, <2>1, <2>2 DEF RplayAnswer
<1>9. CASE AwaitDone
  <2>1. pc = "done?"
    BY <1>9 DEF AwaitDone
  <2>2. f = TRUE /\ p = <<>> /\ Notes(q, 1, me, st)
    BY <1>2, <2>1 DEF Ctl
  <2>3. ~NoMore("ctl")
    BY <1>1, <1>2, <2>2 DEF NoMore
  <2>4. /\ q # <<>> /\ toClient' = [toClient EXCEPT !["ctl"] = Tail(@)] /\ UNCHANGED <<fd, notify, i>>
        /\ pc' = IF q[1].k # "@" \/ q[1].n = me THEN "none" ELSE pc
    BY <1>1, <1>2, <1>3, <1>9, <2>3 DEF AwaitDone, HasLine, Take
  <2>5. Notes(Tail(q), 1, me, st) /\ Note(q[1], me, st)
    <3>1. Notes(Tail(q), 1, me, st)
      BY <1>2, <2>2, <2>4, NotesTail
    <3>2. Note(q[1], me, st)
      BY <1>2, <1>3, <2>2, <2>4 DEF Notes
    <3> QED BY <3>1, <3>2
  <2>6. /\ pc' \in {"none", "done?"} /\ (pc' = "none" => st = "done")
        /\ st \in {"playing", "flow", "done"}
    BY <1>2, <2>1, <2>4, <2>5 DEF Note, At
  <2>7. fp = <<>> \/ (st = "flow" /\ OnlyData(fp))
    BY <1>2, <2>1 DEF Flo, Asking
  <2>8. /\ pc' \notin Asking /\ At(pc', st) /\ Ctl(pc', f, asked, me, st, p, Tail(q))
        /\ Flo(pc', g, how, me, st, fp, fq)
    BY <2>2, <2>5, <2>6, <2>7 DEF At, Ctl, Flo, Asking
  <2> QED BY <1>0, <1>1, <1>6, <2>4, <2>8
<1>10. CASE EatNotes
  <2>1. pc = "none?"
    BY <1>10 DEF EatNotes
  <2>2. /\ f = TRUE /\ st = "done" /\ fp = <<>>
        /\ \/ One(p, "none", me) /\ Notes(q, 1, me, st)
           \/ /\ p = <<>> /\ asked = FALSE /\ Len(q) > 0 /\ q[Len(q)].k = "+"
              /\ NotesBut(q, Len(q), me, st)
    BY <1>2, <2>1 DEF Ctl, Flo, At, Asking
  <2>3. ~NoMore("ctl")
    BY <1>1, <1>2, <2>2 DEF NoMore
  <2>4. /\ q # <<>> /\ toClient' = [toClient EXCEPT !["ctl"] = Tail(@)] /\ UNCHANGED <<fd, notify>>
        /\ IF q[1].k \notin {"+", "-"} THEN UNCHANGED <<pc, i>>
           ELSE IF i = NSounds THEN pc' = "exit" /\ UNCHANGED i
                ELSE pc' = "play" /\ i' = i + 1
    BY <1>1, <1>3, <1>10, <2>3 DEF EatNotes, HasLine
  <2>5. CASE q[1].k \notin {"+", "-"}
    <3>1. PICK r : r = Tail(q)
      OBVIOUS
    <3>2. /\ Len(q) > 0 /\ Len(r) = Len(q) - 1 /\ \A j \in 1..(Len(q) - 1) : r[j] = q[j + 1]
      BY <1>2, <2>4, <3>1, Behead
    <3>3. CASE One(p, "none", me) /\ Notes(q, 1, me, st)
      <4>1. Notes(r, 1, me, st)
        BY <1>2, <2>4, <3>1, <3>3, NotesTail
      <4> QED BY <1>0, <1>1, <1>2, <1>6, <2>1, <2>2, <2>4, <2>5, <3>1, <3>3, <4>1 DEF Ctl, Asking
    <3>4. CASE /\ p = <<>> /\ asked = FALSE /\ Len(q) > 0 /\ q[Len(q)].k = "+"
               /\ NotesBut(q, Len(q), me, st)
      <4>1. Len(q) # 1
        BY <2>5, <3>4
      <4>2. Len(r) > 0 /\ r[Len(r)].k = "+"
        BY <1>2, <3>2, <3>4, <4>1
      <4>3. NotesBut(r, Len(r), me, st)
        <5> SUFFICES ASSUME NEW j \in 1..Len(r), j # Len(r) PROVE Note(r[j], me, st)
          BY DEF NotesBut
        <5>1. j + 1 \in 1..Len(q) /\ j + 1 # Len(q) /\ r[j] = q[j + 1]
          BY <1>2, <3>2
        <5> QED BY <3>4, <5>1 DEF NotesBut
      <4>4. Ctl(pc, f, asked, me, st, p, r)
        BY <2>1, <2>2, <3>4, <4>2, <4>3 DEF Ctl
      <4>5. pc' = pc /\ i' = i
        BY <2>4, <2>5
      <4>6. pc' \notin Asking
        BY <2>1, <4>5 DEF Asking
      <4> QED BY <1>0, <1>1, <1>2, <1>6, <2>4, <3>1, <4>4, <4>5, <4>6
    <3> QED BY <2>2, <3>3, <3>4
  <2>6. CASE q[1].k \in {"+", "-"}
    <3>1. p = <<>> /\ asked = FALSE /\ Len(q) = 1
      <4>1. ~Note(q[1], me, st)
        BY <2>6 DEF Note
      <4>2. ~Notes(q, 1, me, st)
        BY <1>2, <1>3, <2>4, <4>1 DEF Notes
      <4>3. p = <<>> /\ asked = FALSE /\ NotesBut(q, Len(q), me, st)
        BY <2>2, <4>2
      <4>4. Len(q) \in Nat /\ Len(q) > 0
        BY <1>2, <1>3, <2>4
      <4>5. 1 \in 1..Len(q)
        BY <4>4
      <4>6. 1 # Len(q) => Note(q[1], me, st)
        BY <4>3, <4>5 DEF NotesBut
      <4> QED BY <4>1, <4>3, <4>6
    <3>2. Tail(q) = <<>>
      BY <1>2, <3>1, LastTaken
    <3>3. toClient'["ctl"] = <<>>
      BY <1>0, <1>1, <2>4, <3>2 DEF Lib
    <3> QED BY <1>1, <1>2, <1>4, <1>5, <2>2, <2>4, <2>6, <3>1, <3>3, RplayGoesOn
  <2> QED BY <2>5, <2>6
<1> QED BY <1>8, <1>9, <1>10

(* rplay starts with no sound played.                                      *)
LEMMA RplayInit == Init => RplayInv
<1> SUFFICES ASSUME Init PROVE CalmInv
  BY DEF RplayInv
<1>1. NSounds \in Nat /\ NSounds >= 1
  BY BoundAssumption
<1>2. i \in Sounds /\ i = 1 /\ pc = "open"
  BY <1>1 DEF Init, Sounds
<1>3. /\ interrupted = FALSE /\ eof["ctl"] = FALSE /\ eof["flow"] = FALSE
      /\ notify["ctl"] = FALSE /\ notify["flow"] = FALSE /\ fd["ctl"] = FALSE
      /\ toServer["flow"] = <<>> /\ table \in [Sounds -> {"play", "flow"}]
      /\ \A s \in Sounds : entry[s] = "none"
  BY DEF Init, Conns
<1>4. Walk
  BY <1>3 DEF Walk
<1>5. Frame
  BY <1>2, <1>3, <1>4 DEF Frame
<1>6. entry[i] = "none"
  BY <1>2, <1>3
<1>7. /\ At(pc, entry[i])
      /\ Ctl(pc, fd["ctl"], notify["ctl"], i, entry[i], toServer["ctl"], toClient["ctl"])
      /\ Flo(pc, fd["flow"], table[i], i, entry[i], toServer["flow"], toClient["flow"])
  BY <1>2, <1>3, <1>6 DEF At, Ctl, Flo, Asking
<1> QED BY <1>5, <1>7 DEF CalmInv

(* Every step of an undisturbed run keeps rplay and its server in step:    *)
(* one case per action.                                                    *)
LEMMA RplayNext ==
    ASSUME Lib, RplayInv, [Next]_vars
    PROVE  RplayInv'
<1> SUFFICES ASSUME Calm' PROVE CalmInv'
  BY DEF RplayInv
<1>0. Lib'
  BY LibNext
<1>1. prog' = "rplay" /\ ~broken' /\ ~skewed' /\ faults' = 0 /\ faults \in Nat
  BY DEF Calm, Lib
<1>2. CASE \/ RptpOpen \/ do_application \/ Answer \/ ListLine \/ GetData \/ PutData \/ MonitorData
           \/ RptpFails \/ (\E t \in Typed : Type(t) \/ TypeLocal(t))
  BY <1>1, <1>2 DEF RptpOpen, do_application, Sends, Answer, ListLine, GetData, PutData,
       MonitorData, RptpFails, Type, TypeLocal, rptpOnly
<1>3. ASSUME prog = "rplay", ~broken, ~skewed, faults = 0 PROVE CalmInv
  BY <1>3 DEF RplayInv, Calm
<1>4. CASE RplayOpen \/ Reopen \/ FlowOpen
  <2>1. \E c \in Conns, then, else \in {"info", "udp", "play", "unopened", "flow", "refused"} :
          Connect(c, then, else)
    BY <1>4 DEF RplayOpen, Reopen, FlowOpen, Conns
  <2>2. faults' \in Nat /\ faults <= faults'
    BY <2>1, ConnectIs
  <2>3. prog = "rplay" /\ ~broken /\ ~skewed
    BY <1>1, <1>4 DEF RplayOpen, Reopen, FlowOpen
  <2>4. CalmInv
    BY <1>1, <1>3, <2>2, <2>3
  <2> QED BY <1>0, <1>1, <1>4, <2>4, RplayAsks, RplayPlays
<1>5. CASE AskInfo \/ Info \/ Udp
  <2>1. CalmInv
    BY <1>1, <1>3, <1>5 DEF AskInfo, Info, Udp
  <2> QED BY <1>0, <1>1, <1>5, <2>1, RplayAsks
<1>6. CASE Unopened \/ Refused \/ play_with_play \/ play_with_flow \/ FlowData
  <2>1. CalmInv
    BY <1>1, <1>3, <1>6 DEF Unopened, Refused, play_with_play, play_with_flow, Step, FlowData
  <2> QED BY <1>0, <1>1, <1>6, <2>1, RplayPlays
<1>7. CASE RplayAnswer \/ AwaitDone \/ EatNotes
  <2>0. prog = "rplay" /\ broken' = broken /\ faults' = faults
    <3>1. CASE RplayAnswer
      BY <3>1 DEF RplayAnswer
    <3>2. CASE AwaitDone
      BY <3>2 DEF AwaitDone
    <3>3. CASE EatNotes
      BY <3>3 DEF EatNotes
    <3> QED BY <1>7, <3>1, <3>2, <3>3
  <2>1. prog = "rplay" /\ ~broken /\ faults = 0
    BY <1>1, <2>0
  <2>2. ~skewed
    <3>1. CASE RplayAnswer
      <4>1. PICK b : skewed' = (skewed \/ b)
        BY <3>1 DEF RplayAnswer
      <4> QED BY <1>1, <4>1, Zenon
    <3>2. CASE AwaitDone \/ EatNotes
      BY <1>1, <3>2 DEF AwaitDone, EatNotes
    <3> QED BY <1>7, <3>1, <3>2
  <2>3. CalmInv
    BY <1>3, <2>1, <2>2
  <2> QED BY <1>0, <1>1, <1>7, <2>3, RplayHears
<1>8. CASE Interrupt
  BY <1>1, <1>8 DEF Interrupt
<1>9. ASSUME NEW c \in Conns, Serve(c) PROVE CalmInv'
  <2>1. CalmInv
    BY <1>1, <1>3, <1>9 DEF Serve, client
  <2>2. c \in {"ctl", "flow"}
    BY DEF Conns
  <2> QED BY <1>0, <1>9, <2>1, <2>2, RplayAnswered, RplayFlowed
<1>10. ASSUME NEW s \in Sounds, Done(s) PROVE CalmInv'
  <2>1. CalmInv
    BY <1>1, <1>3, <1>10 DEF Done, client
  <2>2. /\ entry' = [entry EXCEPT ![s] = "done"] /\ Tell(s)
        /\ UNCHANGED <<pc, fd, eof, notify, toServer, table, i, interrupted>>
    BY <1>10 DEF Done, client
  <2>3. s = i /\ s \in Int
    BY <1>10, <2>1, CalmIs DEF Done, Sounds
  <2>4. \/ entry[i] = "playing"
        \/ entry[i] = "flow" /\ ~fd["flow"] /\ toServer["flow"] = <<>>
    BY <1>10, <2>1, <2>3 DEF Done, CalmInv, Frame
  <2> QED BY <1>0, <2>1, <2>2, <2>3, <2>4, RplayTold
<1>11. CASE OtherDone
  <2>1. CalmInv
    BY <1>1, <1>3, <1>11 DEF OtherDone, client
  <2>2. PICK id \in Int : /\ id = 0 /\ Tell(id) /\ entry' = entry
                          /\ UNCHANGED <<pc, fd, eof, notify, toServer, table, i, interrupted>>
    BY <1>11 DEF OtherDone, client
  <2> QED BY <1>0, <2>1, <2>2, RplayTold
<1>12. CASE ServerDies \/ \E c \in Conns : Break(c)
  BY <1>1, <1>12 DEF ServerDies, Break
<1>13. CASE UNCHANGED vars
  <2>1. CalmInv
    BY <1>1, <1>3, <1>13 DEF vars
  <2>2. Frame'
    BY <1>13, <2>1 DEF vars, lib, CalmInv, Frame, Walk
  <2> QED BY <1>13, <2>1, <2>2 DEF vars, lib, CalmInv
<1> QED BY <1>2, <1>4, <1>5, <1>6, <1>7, <1>8, <1>9, <1>10, <1>11, <1>12, <1>13
        DEF Next, Client, User, Server, Faults

(* OneAtATime, for every list of sounds and any number of notes about the  *)
(* sounds of others: the server plays at most one of rplay's sounds, unless*)
(* a connection breaks, the user interrupts rplay or a note comes before   *)
(* the answer to a play.                                                   *)
THEOREM OneAfterTheOther == Spec => []OneAtATime
<1>1. Lib /\ RptpInv /\ RplayInv => OneAtATime
  <2> SUFFICES ASSUME Lib, RptpInv, RplayInv, ~broken, ~skewed, faults = 0
               PROVE  Cardinality({s \in Sounds : entry[s] \in {"playing", "flow"}}) <= 1
    BY DEF OneAtATime
  <2>1. \E x : {s \in Sounds : entry[s] \in {"playing", "flow"}} \subseteq {x}
    <3>1. CASE prog = "rptp"
      BY <3>1 DEF RptpInv, NoSounds
    <3>2. CASE prog = "rplay"
      <4>1. CalmInv
        BY <3>2 DEF RplayInv, Calm
      <4>2. \A s \in Sounds : s # i => entry[s] \in {"none", "done"}
        BY <4>1, CalmIs
      <4>3. {s \in Sounds : entry[s] \in {"playing", "flow"}} \subseteq {i}
        BY <4>2
      <4> QED BY <4>3
    <3> QED BY <3>1, <3>2 DEF Lib
  <2>2. PICK x : {s \in Sounds : entry[s] \in {"playing", "flow"}} \subseteq {x}
    BY <2>1
  <2>3. IsFiniteSet({x}) /\ Cardinality({x}) = 1
    BY FS_Singleton
  <2>4. PICK T : T = {s \in Sounds : entry[s] \in {"playing", "flow"}}
    OBVIOUS
  <2>5. Cardinality(T) <= Cardinality({x})
    BY <2>2, <2>3, <2>4, FS_Subset
  <2> QED BY <2>3, <2>4, <2>5
<1>2. Lib /\ RptpInv /\ RplayInv /\ [Next]_vars => (Lib /\ RptpInv /\ RplayInv)'
  BY LibNext, RptpNext, RplayNext
<1> QED BY <1>1, <1>2, LibInit, RptpInit, RplayInit, PTL DEF Spec
====
