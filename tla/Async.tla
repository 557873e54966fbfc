------------------------------- MODULE Async -------------------------------
(***************************************************************************)
(* librplay's asynchronous RPTP connections (librplay/async.c): lines are  *)
(* queued and written when the socket allows, what comes is cut into lines *)
(* and given to the callback of the connection if its mask asks for that   *)
(* kind of line, all from rptp_main_loop.                                  *)
(*                                                                         *)
(* What is written or read is a sequence of characters; a character of a   *)
(* line tells which line it is part of, and the first one what kind of     *)
(* line it starts.                                                         *)
(*                                                                         *)
(* A definition D_Word next to D is D with a plausible mistake in it, which*)
(* no definition uses.                                                     *)
(***************************************************************************)
EXTENDS Integers, Sequences, FiniteSets

CONSTANTS
    Fds,
    Kinds,        \* kinds of lines: "+", "-", "!", "@done", ...
    Masks,        \* masks given to rptp_async_notify: sets of kinds, "close"
    Length,       \* characters of a line without its end
    Says,         \* of each connection: the kinds of lines the server sends
    MaxWrites     \* bound, of each connection: lines that are written

ASSUME LengthAssumption == Length \in Nat \ {0} /\ \A m \in Masks : m \subseteq Kinds \cup {"close"}
ASSUME SaysAssumption == \A c \in Fds : Says[c] \in Seq(Kinds)

VARIABLES
    olist, otail,   \* obufs to be written; is otail NULL, the last, or freed
    writing,        \* do_register was called
    wire,           \* characters the server has got
    stream,         \* characters on their way to the client
    eof,            \* the server has closed the connection
    rcallback, notify_mask,
    line,           \* the line that process_input is making, of all connections
    looping,
    asked, sent,    \* history: lines written, lines sent by the server
    told,           \* history: lines given to the callback
    called,         \* history: callbacks of obufs
    mixed, split    \* history: a connection was read while line held a part of
                    \* another one's; a CR was read without its LF

vars == <<olist, otail, writing, wire, stream, eof, rcallback, notify_mask, line, looping,
          asked, sent, told, called, mixed, split>>

CR == [k |-> "CR"]
LF == [k |-> "LF"]
Text(k, c, l) == [p \in 1..Length |-> [k |-> IF p = 1 THEN k ELSE "x", fd |-> c, l |-> l]]
WithEnd(text) == text \o <<CR, LF>>

-----------------------------------------------------------------------------
(* Writing.                                                                *)

(* rptp_async_putline and rptp_async_write; q, t: the queue and its tail.  *)
Queued(q, t, buf) == IF t = "null" THEN <<buf>> ELSE IF t = "last" THEN Append(q, buf) ELSE q
Buf(c, w, again) == [data |-> WithEnd(Text("w", c, w)), l |-> w, again |-> again]

rptp_async_putline(c, again) ==
    /\ looping /\ asked[c] < MaxWrites[c]
    /\ asked' = [asked EXCEPT ![c] = @ + 1]
    /\ olist' = [olist EXCEPT ![c] = Queued(@, otail[c], Buf(c, asked'[c], again))]
    /\ otail' = [otail EXCEPT ![c] = IF @ = "freed" THEN @ ELSE "last"]
    /\ writing' = [writing EXCEPT ![c] = TRUE]
    /\ UNCHANGED <<wire, stream, eof, rcallback, notify_mask, line, looping, sent, told, called,
                   mixed, split>>

(* write_proc, when k characters can be written.  The callback is called   *)
(* while its obuf is still the first one; it may write a line itself.      *)
write_proc_KeepsTail(c, k) ==
    LET buf == Head(olist[c])
        over == k = Len(buf.data)
    IN /\ looping /\ writing[c] /\ ~eof[c] /\ olist[c] # <<>> /\ k \in 1..Len(buf.data)
       /\ wire' = [wire EXCEPT ![c] = @ \o SubSeq(buf.data, 1, k)]
       /\ called' = [called EXCEPT ![c] = IF over THEN Append(@, buf.l) ELSE @]
       /\ olist' = [olist EXCEPT ![c] = IF over THEN Tail(@)
                                        ELSE [@ EXCEPT ![1].data = SubSeq(@, k + 1, Len(@))]]
       /\ otail' = [otail EXCEPT ![c] = IF over /\ Len(olist[c]) = 1 THEN "freed" ELSE @]
       /\ writing' = [writing EXCEPT ![c] = olist'[c] # <<>>]
       /\ UNCHANGED <<asked, stream, eof, rcallback, notify_mask, line, looping, sent, told, mixed,
                      split>>
write_proc(c, k) ==
    LET buf == Head(olist[c])
        over == k = Len(buf.data)
        calls == over /\ buf.again /\ asked[c] < MaxWrites[c]
        rest == IF over THEN Tail(olist[c])
                ELSE [olist[c] EXCEPT ![1].data = SubSeq(@, k + 1, Len(@))]
    IN /\ looping /\ writing[c] /\ ~eof[c] /\ olist[c] # <<>> /\ k \in 1..Len(buf.data)
       /\ wire' = [wire EXCEPT ![c] = @ \o SubSeq(buf.data, 1, k)]
       /\ called' = [called EXCEPT ![c] = IF over THEN Append(@, buf.l) ELSE @]
       /\ asked' = [asked EXCEPT ![c] = IF calls THEN @ + 1 ELSE @]
       /\ olist' = [olist EXCEPT ![c] =
                      IF calls THEN Append(rest, Buf(c, asked'[c], FALSE)) ELSE rest]
       /\ otail' = [otail EXCEPT ![c] = IF olist'[c] = <<>> THEN "null" ELSE @]
       /\ writing' = [writing EXCEPT ![c] = olist'[c] # <<>>]
       /\ UNCHANGED <<stream, eof, rcallback, notify_mask, line, looping, sent, told, mixed, split>>

-----------------------------------------------------------------------------
(* Reading.                                                                *)

(* rptp_async_notify: besides the callback, a line is written to the server*)
(* that asks for the notes of the mask.                                    *)
rptp_async_notify(c, m) ==
    /\ looping /\ asked[c] < MaxWrites[c] /\ ~rcallback[c] /\ ~eof[c]
    /\ rcallback' = [rcallback EXCEPT ![c] = TRUE]
    /\ notify_mask' = [notify_mask EXCEPT ![c] = m]
    /\ asked' = [asked EXCEPT ![c] = @ + 1]
    /\ olist' = [olist EXCEPT ![c] = Queued(@, otail[c], Buf(c, asked'[c], FALSE))]
    /\ otail' = [otail EXCEPT ![c] = IF @ = "freed" THEN @ ELSE "last"]
    /\ writing' = [writing EXCEPT ![c] = TRUE]
    /\ UNCHANGED <<wire, stream, eof, line, looping, sent, told, called, mixed, split>>

(* notify_line: of which kind a line is, its first character tells.        *)
Kind(text) == IF text # <<>> /\ text[1].k \in Kinds THEN text[1].k ELSE "other"
notify_line(c, text) == IF rcallback[c] /\ Kind(text) \in notify_mask[c] THEN <<text>> ELSE <<>>

(* process_input on what was read: up to a CR it is the rest of a line;    *)
(* the character after the CR is passed over if it is there already.       *)
Start(c) == [line |-> line, told |-> told[c], pass |-> FALSE]
Ended(c, r) == [line |-> <<>>, told |-> r.told \o notify_line(c, r.line), pass |-> TRUE]
Took_PassesNone(c, r, ch) ==
    IF ch = CR THEN [Ended(c, r) EXCEPT !.pass = FALSE] ELSE [r EXCEPT !.line = Append(@, ch)]
Took(c, r, ch) ==
    IF r.pass THEN [r EXCEPT !.pass = FALSE]
    ELSE IF ch = CR THEN Ended(c, r)
    ELSE [r EXCEPT !.line = Append(@, ch)]
process_input(c, read) ==
    LET input[j \in 0..Len(read)] ==
            IF j = 0 THEN Start(c) ELSE Took(c, input[j - 1], read[j])
    IN input[Len(read)]

(* read_proc gets k characters.                                            *)
read_proc(c, k) ==
    /\ looping /\ rcallback[c] /\ k \in 1..Len(stream[c])
    /\ LET r == process_input(c, SubSeq(stream[c], 1, k))
       IN /\ line' = r.line
          /\ told' = [told EXCEPT ![c] = r.told]
          /\ split' = (split \/ stream[c][k] = CR)
          /\ mixed' = (mixed \/ \E p \in DOMAIN line : line[p] # LF /\ line[p].fd # c)
    /\ stream' = [stream EXCEPT ![c] = SubSeq(@, k + 1, Len(@))]
    /\ UNCHANGED <<olist, otail, writing, wire, eof, rcallback, notify_mask, looping, asked, sent,
                   called>>

(* The connection is closed: read_proc tells the callback, if asked to, and*)
(* forgets it.  Otherwise the loop comes back here for ever.               *)
read_proc_Closed_Keeps(c) ==
    /\ looping /\ rcallback[c] /\ eof[c] /\ stream[c] = <<>> /\ "close" \in notify_mask[c]
    /\ UNCHANGED vars
read_proc_Closed(c) ==
    /\ looping /\ rcallback[c] /\ eof[c] /\ stream[c] = <<>> /\ "close" \in notify_mask[c]
    /\ rcallback' = [rcallback EXCEPT ![c] = FALSE]
    /\ told' = [told EXCEPT ![c] = Append(@, <<>>)]
    /\ UNCHANGED <<olist, otail, writing, wire, stream, eof, notify_mask, line, looping, asked,
                   sent, called, mixed, split>>

(* The application stops the loop when its connections are closed.         *)
rptp_stop_main_loop ==
    /\ looping /\ (\A c \in Fds : eof[c]) /\ looping' = FALSE
    /\ UNCHANGED <<olist, otail, writing, wire, stream, eof, rcallback, notify_mask, line, asked,
                   sent, told, called, mixed, split>>

(* The server sends its lines, and closes the connection.                  *)
ServerSends(c) ==
    /\ looping /\ ~eof[c] /\ sent[c] < Len(Says[c])
    /\ sent' = [sent EXCEPT ![c] = @ + 1]
    /\ stream' = [stream EXCEPT ![c] = @ \o WithEnd(Text(Says[c][sent'[c]], c, sent'[c]))]
    /\ UNCHANGED <<olist, otail, writing, wire, eof, rcallback, notify_mask, line, looping, asked,
                   told, called, mixed, split>>
ServerCloses(c) ==
    /\ looping /\ ~eof[c] /\ sent[c] = Len(Says[c]) /\ eof' = [eof EXCEPT ![c] = TRUE]
    /\ UNCHANGED <<olist, otail, writing, wire, stream, rcallback, notify_mask, line, looping,
                   asked, sent, told, called, mixed, split>>

Init ==
    /\ olist = [c \in Fds |-> <<>>] /\ otail = [c \in Fds |-> "null"]
    /\ writing = [c \in Fds |-> FALSE] /\ wire = [c \in Fds |-> <<>>]
    /\ stream = [c \in Fds |-> <<>>] /\ eof = [c \in Fds |-> FALSE]
    /\ rcallback = [c \in Fds |-> FALSE] /\ notify_mask = [c \in Fds |-> {}]
    /\ line = <<>> /\ looping = TRUE
    /\ asked = [c \in Fds |-> 0] /\ sent = [c \in Fds |-> 0] /\ told = [c \in Fds |-> <<>>]
    /\ called = [c \in Fds |-> <<>>]
    /\ mixed = FALSE /\ split = FALSE

Reads(c) == (\E k \in 1..Len(stream[c]) : read_proc(c, k)) \/ read_proc_Closed(c)
Writes(c) == \E k \in 1..(Length + 2) : write_proc(c, k)
Next ==
    \/ \E c \in Fds : Reads(c) \/ Writes(c)
    \/ \E c \in Fds, again \in BOOLEAN : rptp_async_putline(c, again)
    \/ \E c \in Fds, m \in Masks : rptp_async_notify(c, m)
    \/ \E c \in Fds : ServerSends(c)
    \/ \E c \in Fds : ServerCloses(c)
    \/ rptp_stop_main_loop
Spec == Init /\ [][Next]_vars

(* rptp_main_loop serves every connection that select reports.             *)
FairSpec == Spec /\ \A c \in Fds : WF_vars(Reads(c)) /\ WF_vars(Writes(c))

-----------------------------------------------------------------------------
(* Types of the variables; writing and the queue say the same.             *)
TypeOK ==
    /\ otail \in [Fds -> {"null", "last"}]
    /\ \A c \in Fds : writing[c] <=> olist[c] # <<>>
    /\ \A c \in Fds : otail[c] = "null" <=> olist[c] = <<>>
    /\ {eof, rcallback} \subseteq [Fds -> BOOLEAN] /\ notify_mask \in [Fds -> Masks \cup {{}}]
    /\ {looping, mixed, split} \subseteq BOOLEAN

(* The p-th of all the characters that are ever written to c.              *)
LineLength == Length + 2
Char(c, p) ==
    WithEnd(Text("w", c, 1 + ((p - 1) \div LineLength)))[1 + ((p - 1) % LineLength)]

(* How many lines are out, and how many characters are in front of what is *)
(* left of the b-th line that waits.                                       *)
LinesOut(c) == Len(wire[c]) \div LineLength
Before(c, b) == IF b = 1 THEN Len(wire[c]) ELSE LineLength * (LinesOut(c) + b - 1)

(* What the server gets is what was written, in order and complete, and    *)
(* what still waits follows it, line by line, none lost and none twice;    *)
(* each callback was called once, after its line.                          *)
WrittenInOrder ==
    \A c \in Fds :
        /\ Len(wire[c]) <= LineLength * asked[c]
        /\ \A p \in DOMAIN wire[c] : wire[c][p] = Char(c, p)
        /\ Len(olist[c]) = asked[c] - LinesOut(c)
        /\ \A b \in DOMAIN olist[c] :
              olist[c][b].data = [i \in 1..(LineLength * (LinesOut(c) + b) - Before(c, b)) |->
                                    Char(c, Before(c, b) + i)]
        /\ called[c] = [w \in 1..LinesOut(c) |-> w]

(* How many lines of the server have been read, and which of the first n   *)
(* the mask asks for; has the callback been told of the end?               *)
LinesRead(c) == (LineLength * sent[c] - Len(stream[c])) \div LineLength
Wanted(c, n) == {l \in 1..n : Says[c][l] \in notify_mask[c]}
ToldOfEnd(c) == ~rcallback[c] /\ "close" \in notify_mask[c]

(* The callback gets each line that its mask asks for, whole, in order and *)
(* once, as soon as it has been read, and nothing else but at last the end *)
(* of the connection.                                                      *)
(* Not so when two connections are in the middle of a line at once, as all *)
(* share one buffer, nor after a CR that was read without its LF: the LF   *)
(* then starts the next line.                                              *)
LinesArrive ==
    ~mixed /\ ~split => \A c \in Fds :
        LET n == Cardinality(Wanted(c, LinesRead(c)))
        IN /\ Len(told[c]) = n + (IF ToldOfEnd(c) THEN 1 ELSE 0)
           /\ \A l \in Wanted(c, LinesRead(c)) :
                 told[c][Cardinality(Wanted(c, l))] = Text(Says[c][l], c, l)
           /\ ToldOfEnd(c) => told[c][n + 1] = <<>>

(* Everything written is sent, and a closed connection is reported once,   *)
(* while the loop runs.                                                    *)
LoopServes ==
    \A c \in Fds :
        /\ olist[c] # <<>> ~> olist[c] = <<>> \/ eof[c] \/ ~looping
        /\ eof[c] /\ rcallback[c] /\ "close" \in notify_mask[c] ~> ~rcallback[c] \/ ~looping

(* async.c, process_input: "Attempt to make complete lines from the input  *)
(* buffers for the given file descriptor."                                 *)
LinesOfOne ==
    \A c \in Fds : \A l \in DOMAIN told[c] : \A p \in DOMAIN told[c][l] :
        told[c][l][p] = LF \/ told[c][l][p].fd = c
=============================================================================
