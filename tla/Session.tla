------------------------------ MODULE Session ------------------------------
(***************************************************************************)
(* The two clients of rplayd that speak RPTP: rptp, which sends what its   *)
(* user types (rptp/rptp.c), and rplay, which plays a list of sounds, from *)
(* the server's files or by sending its own as flows (rplay/rplay.c).      *)
(* Both use the blocking library librplay/rptp.c: rptp_open pings the      *)
(* server until it can be connected to, rptp_command writes a line and     *)
(* takes the next line that comes for its answer.                          *)
(*                                                                         *)
(* The server is the environment here: it answers the commands of a        *)
(* connection in order, tells connections that asked for it when an entry  *)
(* is done, and may close a connection, with or without a last line.       *)
(*                                                                         *)
(* A definition D_Word next to D is D with a plausible mistake in it, which*)
(* no definition uses.                                                     *)
(***************************************************************************)
EXTENDS Integers, Sequences, FiniteSets

CONSTANTS
    NSounds,                 \* sounds on rplay's command line
    Typed,                   \* what the user of rptp may type
    RPTP_CONNECT_ATTEMPTS,
    Size,                    \* pieces of data in a sound
    MaxTyped,                \* bounds: commands that are typed,
    MaxNotes,                \*   notes about sounds of others,
    MaxFaults                \*   connections that break, pings that get lost

ASSUME BoundAssumption ==
    {NSounds, RPTP_CONNECT_ATTEMPTS, Size, MaxTyped} \subseteq Nat \ {0}

ASSUME TypedAssumption ==
    Typed \subseteq {"generic", "list", "get", "put", "notify", "skip", "monitor",
                    "open", "close", "quit"}

Sounds == 1..NSounds
Conns == {"ctl", "flow"}

VARIABLES
    prog,         \* the program: "rptp" or "rplay"
    pc,           \* where it is; "...?" waits for a line
    up,           \* the server is there
    tries,        \* of rptp_open
    fd,           \* of each connection: is it open in the client
    eof,          \* the server has closed it
    toServer, toClient,
    notify,       \* of each connection: does it get notes
    entry,        \* of each sound: "none", "playing", "flow", "done"
    has, file,    \* of each sound: the server has it, the client has its file
    table,        \* play_table
    i,            \* rplay's sound, or how much rptp has to read or write
    interrupted,
    udp,          \* the list was sent as one packet
    n,            \* commands written so far
    command,      \* rptp's buffer for the line to send: its command
    response,     \* the line that was taken for the answer
    notes, faults, typed,    \* for the bounds
    \* history: a line was left unread or read too early; a connection broke
    skewed, broken

lib == <<up, tries, fd, eof, toServer, toClient, notify>>
vars == <<prog, pc, lib, entry, has, file, table, i, interrupted, udp, n, command, response,
          notes, faults, typed, skewed, broken>>

NoLine == [k |-> "", n |-> 0]
Ans(k, m) == [k |-> k, n |-> m.n]

-----------------------------------------------------------------------------
(* librplay/rptp.c.                                                        *)

(* rptp_open: a ping starts the server, unless it is lost; a refused       *)
(* connection is tried again after a while.                                *)
Connect(c, then, else) ==
    \/ /\ up
       /\ fd' = [fd EXCEPT ![c] = TRUE] /\ eof' = [eof EXCEPT ![c] = FALSE]
       /\ toServer' = [toServer EXCEPT ![c] = <<>>]
       /\ toClient' = [toClient EXCEPT ![c] = <<>>]
       /\ notify' = [notify EXCEPT ![c] = FALSE]
       /\ tries' = 0 /\ pc' = then /\ UNCHANGED <<up, faults>>
    \/ /\ ~up
       /\ \/ up' = TRUE /\ UNCHANGED faults
          \/ faults < MaxFaults /\ faults' = faults + 1 /\ UNCHANGED up
       /\ IF tries + 1 = RPTP_CONNECT_ATTEMPTS THEN tries' = 0 /\ pc' = else
          ELSE tries' = tries + 1 /\ UNCHANGED pc
       /\ UNCHANGED <<fd, eof, toServer, toClient, notify>>

(* rptp_putline; a line to a connection that is closed goes nowhere.       *)
Put(c, op) ==
    toServer' = IF fd[c] /\ ~eof[c]
                THEN [toServer EXCEPT ![c] = Append(@, [op |-> op, n |-> n + 1, id |-> i])]
                ELSE toServer

(* rptp_getline: there is a line, or there will be none.                   *)
HasLine(c) == fd[c] /\ toClient[c] # <<>>
NoMore(c) == toClient[c] = <<>> /\ (eof[c] \/ ~fd[c])
Take(c) ==
    /\ toClient' = [toClient EXCEPT ![c] = Tail(@)]
    /\ response' = Head(toClient[c])
Close(c) ==
    /\ fd' = [fd EXCEPT ![c] = FALSE] /\ toClient' = [toClient EXCEPT ![c] = <<>>]
    /\ notify' = [notify EXCEPT ![c] = FALSE]

(* What rptp_command returns for a line: data is no protocol.              *)
rptp_command(line) ==
    CASE line.k = "-" -> 1
      [] line.k \in {"+", "@"} -> 0
      [] OTHER -> -1

-----------------------------------------------------------------------------
(* rptp/rptp.c.                                                            *)
rptpOnly == <<prog, entry, has, file, table, interrupted, udp, notes, broken>>

(* main and command_open; do_application follows.                          *)
RptpOpen ==
    /\ prog = "rptp" /\ pc = "open" /\ Connect("ctl", "application", "prompt")
    /\ UNCHANGED <<rptpOnly, i, n, command, response, typed, skewed>>

(* do_application, and the commands that are a line and an answer:         *)
(* command_play, generic, status, volume and set; list, get, put, skip and *)
(* monitor begin so.  skip sends what is left in the buffer if there is a  *)
(* `=' in it, which the line of do_application, of set and of skip has.    *)
HasEquals(c) == c \in {"application", "notify", "skip"}
Line(t) == IF t = "skip" /\ HasEquals(command) THEN command ELSE t
Sends(t, then) ==
    /\ Put("ctl", Line(t)) /\ n' = n + 1 /\ pc' = then
    /\ command' = IF t \in {"get", "put"} THEN command ELSE Line(t)
    /\ UNCHANGED <<rptpOnly, i, up, tries, fd, eof, toClient, notify, response, faults, skewed>>
do_application ==
    prog = "rptp" /\ pc = "application" /\ Sends("application", "application?") /\ UNCHANGED typed
Type(t) ==
    /\ prog = "rptp" /\ pc = "prompt" /\ typed < MaxTyped /\ typed' = typed + 1
    /\ t \in Typed /\ t \notin {"open", "close", "quit"} /\ fd["ctl"]
    /\ Sends(t, t)

(* The answer.  -1 closes the connection.  The file of get is opened after *)
(* the answer; when that fails, the sound stays unread.                    *)
Reading(p) ==
    CASE p = "list" -> "listing" [] p = "get" -> "geting"
      [] p = "put" -> "puting" [] p = "monitor" -> "monitoring"
Answer ==
    /\ prog = "rptp" /\ pc \in Typed \cup {"application?"} /\ HasLine("ctl")
    /\ response' = Head(toClient["ctl"])
    /\ LET r == rptp_command(response')
       IN IF r = -1
          THEN Close("ctl") /\ pc' = "prompt" /\ UNCHANGED <<i, skewed>>
          ELSE /\ toClient' = [toClient EXCEPT !["ctl"] = Tail(@)] /\ UNCHANGED <<fd, notify>>
               /\ \/ /\ r = 0 /\ pc \in {"list", "get", "put", "monitor"}
                     /\ pc' = Reading(pc) /\ i' = Size /\ UNCHANGED skewed
                  \/ /\ r = 0 /\ pc = "get"
                     /\ pc' = "prompt" /\ skewed' = TRUE /\ UNCHANGED i
                  \/ /\ r = 1 \/ pc \notin {"list", "get", "put", "monitor"}
                     /\ pc' = "prompt"
                     /\ skewed' = (skewed \/ pc = "notify") /\ UNCHANGED i
    /\ UNCHANGED <<rptpOnly, up, tries, eof, toServer, n, command, faults, typed>>

(* The lines of list, up to the one with a dot.                            *)
ListLine_AtCount ==
    /\ prog = "rptp" /\ pc = "listing" /\ HasLine("ctl") /\ Take("ctl")
    /\ i' = i - 1 /\ pc' = IF i = 1 THEN "prompt" ELSE "listing"
    /\ UNCHANGED <<rptpOnly, up, tries, fd, eof, toServer, notify, n, command, faults, typed, skewed>>
ListLine ==
    /\ prog = "rptp" /\ pc = "listing" /\ HasLine("ctl") /\ Take("ctl")
    /\ pc' = IF Head(toClient["ctl"]).k = "." THEN "prompt" ELSE "listing"
    /\ UNCHANGED <<rptpOnly, i, up, tries, fd, eof, toServer, notify, n, command, faults, typed,
                   skewed>>

(* The data of get; the data of put, which a file that has become shorter  *)
(* never ends: nothing more is read and written, for ever.                 *)
GetData ==
    /\ prog = "rptp" /\ pc = "geting" /\ HasLine("ctl")
    /\ toClient' = [toClient EXCEPT !["ctl"] = Tail(@)]
    /\ i' = i - 1 /\ pc' = IF i = 1 THEN "prompt" ELSE pc
    /\ UNCHANGED <<rptpOnly, up, tries, fd, eof, toServer, notify, n, command, response, faults,
                   typed, skewed>>
PutData ==
    /\ prog = "rptp" /\ pc = "puting" /\ ~eof["ctl"]
    /\ toServer' = [toServer EXCEPT !["ctl"] = Append(@, [op |-> "data", n |-> n, id |-> 0])]
    /\ i' = i - 1 /\ pc' = IF i = 1 THEN "prompt" ELSE pc
    /\ UNCHANGED <<rptpOnly, up, tries, fd, eof, toClient, notify, n, command, response, faults,
                   typed, skewed>>
MonitorData ==
    /\ prog = "rptp" /\ pc = "monitoring" /\ HasLine("ctl")
    /\ toClient' = [toClient EXCEPT !["ctl"] = Tail(@)]
    /\ UNCHANGED <<rptpOnly, i, pc, up, tries, fd, eof, toServer, notify, n, command, response,
                   faults, typed, skewed>>

(* No line will come.  get and monitor go back to the user with rptp_fd as *)
(* it is; the others close it.  rptp does not ignore SIGPIPE: writing to a *)
(* connection that the server has closed may end it.                       *)
RptpFails ==
    /\ prog = "rptp" /\ pc \notin {"open", "application", "prompt", "exit"}
    /\ IF pc = "puting" THEN eof["ctl"] ELSE NoMore("ctl")
    /\ pc' \in IF pc \in {"geting", "listing", "monitoring"} THEN {"prompt"} ELSE {"prompt", "exit"}
    /\ IF pc \in {"geting", "monitoring"} THEN UNCHANGED <<fd, toClient, notify>> ELSE Close("ctl")
    /\ UNCHANGED <<rptpOnly, i, up, tries, eof, toServer, n, command, response, faults, typed,
                   skewed>>

(* command_open, command_close and command_quit.                           *)
TypeLocal(t) ==
    /\ prog = "rptp" /\ pc = "prompt" /\ typed < MaxTyped /\ typed' = typed + 1 /\ t \in Typed
    /\ \/ t = "open" /\ ~fd["ctl"] /\ pc' = "open" /\ UNCHANGED <<fd, toClient, notify, skewed>>
       \/ t = "close" /\ fd["ctl"] /\ pc' = pc /\ Close("ctl") /\ skewed' = FALSE
       \/ t = "quit" /\ pc' = "exit" /\ Close("ctl") /\ UNCHANGED skewed
    /\ UNCHANGED <<rptpOnly, i, up, tries, eof, toServer, n, command, response, faults>>

-----------------------------------------------------------------------------
(* rplay/rplay.c.                                                          *)
rplayOnly == <<prog, has, file, command, notes, typed>>

(* doit: which sounds the server has; server_has_sound asks twice.         *)
RplayOpen ==
    /\ prog = "rplay" /\ pc = "open" /\ Connect("ctl", "info", "udp")
    /\ UNCHANGED <<rplayOnly, entry, table, i, interrupted, udp, n, response, skewed, broken>>
AskInfo ==
    /\ prog = "rplay" /\ pc \in {"info", "info2"}
    /\ Put("ctl", "info") /\ n' = n + 1
    /\ pc' = IF pc = "info" THEN "info?" ELSE "info2?"
    /\ UNCHANGED <<rplayOnly, up, tries, fd, eof, toClient, notify, entry, table, i, interrupted,
                   udp, response, faults, skewed, broken>>
NextInfo(found) ==
    /\ table' = [table EXCEPT ![i] = IF ~found /\ file[i] THEN "flow" ELSE "play"]
    /\ IF i < NSounds THEN i' = i + 1 /\ pc' = "info"
       ELSE i' = 1 /\ pc' = IF \E s \in Sounds : table'[s] = "flow" THEN "play" ELSE "udp"
Info ==
    /\ prog = "rplay" /\ pc \in {"info?", "info2?"}
    /\ \/ /\ HasLine("ctl") /\ Take("ctl")
          /\ IF rptp_command(response') = 0 THEN NextInfo(TRUE)
             ELSE IF rptp_command(response') = 1 /\ pc = "info?"
                  THEN pc' = "info2" /\ UNCHANGED <<table, i>>
                  ELSE NextInfo(FALSE)
       \/ NoMore("ctl") /\ NextInfo(FALSE) /\ UNCHANGED <<toClient, response>>
    /\ UNCHANGED <<rplayOnly, up, tries, fd, eof, toServer, notify, entry, interrupted, udp, n,
                   faults, skewed, broken>>
Udp ==
    /\ prog = "rplay" /\ pc = "udp" /\ udp' = TRUE /\ pc' = "exit" /\ Close("ctl")
    /\ UNCHANGED <<rplayOnly, up, tries, eof, toServer, entry, table, i, interrupted, n, response,
                   faults, skewed, broken>>

(* play: for each sound, a connection if there is none.                    *)
NextSound(ok) ==
    /\ IF i = NSounds THEN pc' = "exit" /\ UNCHANGED i ELSE pc' = "play" /\ i' = i + 1
    /\ IF ok THEN UNCHANGED <<fd, toClient, notify>> ELSE Close("ctl")
Reopen ==
    /\ prog = "rplay" /\ pc = "play" /\ ~fd["ctl"]
    /\ Connect("ctl", "play", "unopened")
    /\ UNCHANGED <<rplayOnly, entry, table, i, interrupted, udp, n, response, skewed, broken>>
Unopened ==
    /\ prog = "rplay" /\ pc = "unopened" /\ NextSound(TRUE)
    /\ UNCHANGED <<rplayOnly, up, tries, eof, toServer, entry, table, interrupted, udp, n, response,
                   faults, skewed, broken>>

(* play_with_play and play_with_flow, step by step: what is written, on    *)
(* which connection, and where the answer is waited for.                   *)
Step(from, c, op, then) ==
    /\ prog = "rplay" /\ pc = from /\ Put(c, op) /\ n' = n + 1 /\ pc' = then
    /\ UNCHANGED <<rplayOnly, up, tries, fd, eof, toClient, notify, entry, table, i, interrupted,
                   udp, response, faults, skewed, broken>>
play_with_play ==
    \/ prog = "rplay" /\ fd["ctl"] /\ table[i] = "play" /\ Step("play", "ctl", "notify", "notify?")
    \/ Step("sound", "ctl", "play", "sound?")
    \/ Step("none", "ctl", "none", "none?")
FlowOpen ==
    /\ prog = "rplay" /\ pc = "play" /\ fd["ctl"] /\ table[i] = "flow"
    /\ Connect("flow", "flow", "refused")
    /\ UNCHANGED <<rplayOnly, entry, table, i, interrupted, udp, n, response, skewed, broken>>
Refused ==
    /\ prog = "rplay" /\ pc = "refused" /\ NextSound(FALSE)
    /\ UNCHANGED <<rplayOnly, up, tries, eof, toServer, entry, table, interrupted, udp, n, response,
                   faults, skewed, broken>>
play_with_flow ==
    \/ Step("flow", "ctl", "notify", "notify?")
    \/ Step("flowplay", "flow", "flow", "flowplay?")
    \/ Step("put", "flow", "put", "put?")

(* The answer to notify is not looked at; a play that is not answered by   *)
(* an OK fails, a note in its place too.                                   *)
Awaits(p) == IF p \in {"flowplay?", "put?"} THEN "flow" ELSE "ctl"
After(p) ==
    CASE p = "notify?" -> IF table[i] = "flow" THEN "flowplay" ELSE "sound"
      [] p = "sound?" -> "done?"
      [] p = "flowplay?" -> "put"
      [] p = "put?" -> "data"
RplayAnswer_AnyLine ==
    /\ prog = "rplay" /\ pc \in {"notify?", "sound?", "flowplay?", "put?"}
    /\ HasLine(Awaits(pc)) /\ Take(Awaits(pc)) /\ pc' = After(pc)
    /\ UNCHANGED <<fd, i, notify, interrupted, skewed, rplayOnly, up, tries, eof, toServer, entry,
                   table, udp, n, faults, broken>>
RplayAnswer ==
    /\ prog = "rplay" /\ pc \in {"notify?", "sound?", "flowplay?", "put?"}
    /\ LET c == Awaits(pc)
           ok == HasLine(c) /\ Head(toClient[c]).k = "+"
       IN /\ HasLine(c) \/ NoMore(c)
          /\ response' = IF HasLine(c) THEN Head(toClient[c]) ELSE response
          /\ IF ok \/ pc = "notify?"
             THEN /\ pc' = After(pc) /\ UNCHANGED <<fd, i, notify>>
                  /\ toClient' = [toClient EXCEPT ![c] = IF HasLine(c) THEN Tail(@) ELSE @]
             ELSE NextSound(FALSE)
          /\ interrupted' = (interrupted /\ pc \notin {"sound?", "put?"})
          /\ skewed' = (skewed \/ (HasLine(c) /\ Head(toClient[c]).k = "@"))
    /\ UNCHANGED <<rplayOnly, up, tries, eof, toServer, entry, table, udp, n, faults, broken>>

(* The data of a flow; its connection is closed at the end.                *)
FlowData ==
    /\ prog = "rplay" /\ pc = "data" /\ pc' = "done?"
    /\ toServer' = [toServer EXCEPT !["flow"] =
          IF eof["flow"] THEN @ ELSE Append(@, [op |-> "data", n |-> n, id |-> i])]
    /\ Close("flow")
    /\ UNCHANGED <<rplayOnly, up, tries, eof, entry, table, i, interrupted, udp, n, response,
                   faults, skewed, broken>>

(* Wait for the note that the sound is done; then no more notes are asked  *)
(* for, and those that are on the way are eaten.                           *)
AwaitDone_AnyNote ==
    /\ prog = "rplay" /\ pc = "done?" /\ HasLine("ctl") /\ Take("ctl") /\ pc' = "none"
    /\ UNCHANGED <<fd, notify, i, rplayOnly, up, tries, eof, toServer, entry, table, interrupted,
                   udp, n, faults, skewed, broken>>
AwaitDone ==
    /\ prog = "rplay" /\ pc = "done?"
    /\ \/ /\ HasLine("ctl") /\ Take("ctl") /\ UNCHANGED <<fd, notify, i>>
          /\ pc' = IF interrupted \/ response'.k # "@" \/ response'.n = i THEN "none" ELSE pc
       \/ /\ NoMore("ctl") /\ UNCHANGED response
          /\ IF interrupted THEN pc' = "none" /\ UNCHANGED <<fd, toClient, notify, i>>
             ELSE NextSound(FALSE)
    /\ UNCHANGED <<rplayOnly, up, tries, eof, toServer, entry, table, interrupted, udp, n, faults,
                   skewed, broken>>
EatNotes ==
    /\ prog = "rplay" /\ pc = "none?"
    /\ \/ /\ HasLine("ctl")
          /\ response' = Head(toClient["ctl"])
          /\ toClient' = [toClient EXCEPT !["ctl"] = Tail(@)]
          /\ UNCHANGED <<fd, notify>>
          /\ IF response'.k \notin {"+", "-"} THEN UNCHANGED <<pc, i>>
             ELSE IF i = NSounds THEN pc' = "exit" /\ UNCHANGED i
                  ELSE pc' = "play" /\ i' = i + 1
       \/ NoMore("ctl") /\ NextSound(FALSE) /\ UNCHANGED response
    /\ UNCHANGED <<rplayOnly, up, tries, eof, toServer, entry, table, interrupted, udp, n, faults,
                   skewed, broken>>

(* SIGINT: the wait is given up when the next line comes.                  *)
Interrupt ==
    /\ prog = "rplay" /\ pc \in {"done?", "data"} /\ ~interrupted /\ interrupted' = TRUE
    /\ faults < MaxFaults /\ faults' = faults + 1
    /\ UNCHANGED <<rplayOnly, lib, pc, entry, table, i, udp, n, response, skewed, broken>>

-----------------------------------------------------------------------------
(* The server.                                                             *)
client == <<prog, pc, tries, fd, has, file, table, i, interrupted, udp, n, command, response,
            typed, skewed>>

Replies(c, m) ==
    CASE m.op = "info" -> {<<Ans(IF has[m.id] THEN "+" ELSE "-", m)>>}
      [] m.op = "list" -> {<<Ans("+", m)>> \o [p \in 1..Size |-> Ans("item", m)] \o <<Ans(".", m)>>,
                           <<Ans("-", m)>>}
      [] m.op = "get" -> {<<Ans("+", m)>> \o [p \in 1..Size |-> Ans("data", m)], <<Ans("-", m)>>}
      [] m.op = "monitor" -> {<<Ans("+", m)>> \o [p \in 1..Size |-> Ans("data", m)]}
      [] m.op = "put" /\ c = "flow" -> {<<Ans(IF entry[m.id] = "flow" THEN "+" ELSE "-", m)>>}
      [] m.op = "data" -> {<<>>}
      [] m.op \in {"generic", "play", "flow"} \/ (m.op = "put" /\ c = "ctl") ->
            {<<Ans("+", m)>>, <<Ans("-", m)>>}
      [] OTHER -> {<<Ans("+", m)>>}

Serve(c) ==
    /\ toServer[c] # <<>> /\ ~eof[c] /\ (fd[c] \/ c = "flow")
    /\ LET m == Head(toServer[c])
       IN \E lines \in Replies(c, m) :
            /\ toClient' = [toClient EXCEPT ![c] = IF fd[c] THEN @ \o lines ELSE @]
            /\ entry' = IF m.op \in {"play", "flow"} /\ lines[1].k = "+"
                        THEN [entry EXCEPT ![m.id] = IF m.op = "flow" THEN "flow" ELSE "playing"]
                        ELSE entry
            /\ notify' = [notify EXCEPT ![c] = IF m.op = "notify" THEN TRUE
                                               ELSE IF m.op = "none" THEN FALSE ELSE @]
    /\ toServer' = [toServer EXCEPT ![c] = Tail(@)]
    /\ UNCHANGED <<client, up, eof, notes, faults, broken>>

(* A sound is done, a flow when its connection is closed and all is read;  *)
(* so is a sound of another client.                                        *)
Tell(id) ==
    toClient' = [c \in Conns |-> IF notify[c] /\ fd[c] /\ ~eof[c]
                                 THEN Append(toClient[c], [k |-> "@", n |-> id]) ELSE toClient[c]]
Done(s) ==
    /\ \/ entry[s] = "playing"
       \/ /\ entry[s] = "flow"
          /\ eof["flow"] \/ (~fd["flow"] /\ toServer["flow"] = <<>>) \/ i # s
    /\ entry' = [entry EXCEPT ![s] = "done"] /\ Tell(s)
    /\ UNCHANGED <<client, up, eof, toServer, notify, notes, faults, broken>>
OtherDone ==
    /\ notes < MaxNotes /\ notes' = notes + 1 /\ Tell(0) /\ \E c \in Conns : notify[c]
    /\ UNCHANGED <<client, up, eof, toServer, notify, entry, faults, broken>>

(* The server ends, and all of its entries; a ping starts it anew.         *)
ServerDies ==
    /\ faults < MaxFaults /\ faults' = faults + 1 /\ up /\ up' = FALSE
    /\ eof' = [c \in Conns |-> TRUE] /\ broken' = TRUE
    /\ toServer' = [c \in Conns |-> <<>>]
    /\ entry' = [s \in Sounds |-> IF entry[s] = "none" THEN "none" ELSE "done"]
    /\ UNCHANGED <<client, toClient, notify, notes>>

(* The server closes a connection that is idle, with a last line or not.   *)
Break(c) ==
    /\ faults < MaxFaults /\ faults' = faults + 1 /\ fd[c] /\ ~eof[c]
    /\ eof' = [eof EXCEPT ![c] = TRUE] /\ broken' = TRUE
    /\ toServer' = [toServer EXCEPT ![c] = <<>>]
    /\ \/ toClient' = [toClient EXCEPT ![c] = Append(@, [k |-> "!", n |-> 0])]
       \/ UNCHANGED toClient
    /\ UNCHANGED <<client, up, notify, entry, notes>>

-----------------------------------------------------------------------------
Init ==
    /\ prog \in {"rptp", "rplay"} /\ pc = "open"
    /\ up \in BOOLEAN /\ tries = 0
    /\ fd = [c \in Conns |-> FALSE] /\ eof = [c \in Conns |-> FALSE]
    /\ toServer = [c \in Conns |-> <<>>] /\ toClient = [c \in Conns |-> <<>>]
    /\ notify = [c \in Conns |-> FALSE]
    /\ entry = [s \in Sounds |-> "none"]
    /\ has \in [Sounds -> BOOLEAN] /\ file \in [Sounds -> BOOLEAN]
    /\ prog = "rptp" => has = [s \in Sounds |-> TRUE] /\ file = has
    /\ table = [s \in Sounds |-> "play"] /\ i = 1
    /\ interrupted = FALSE /\ udp = FALSE /\ n = 0 /\ command = "empty" /\ response = NoLine
    /\ notes = 0 /\ faults = 0 /\ typed = 0 /\ skewed = FALSE /\ broken = FALSE

Client ==
    \/ RptpOpen \/ do_application \/ Answer \/ ListLine \/ GetData \/ PutData \/ MonitorData
    \/ RptpFails
    \/ RplayOpen \/ AskInfo \/ Info \/ Udp \/ Reopen \/ Unopened \/ FlowOpen \/ Refused
    \/ play_with_play \/ play_with_flow \/ RplayAnswer \/ FlowData \/ AwaitDone \/ EatNotes
User == Interrupt \/ \E t \in Typed : Type(t) \/ TypeLocal(t)
Server == (\E c \in Conns : Serve(c)) \/ (\E s \in Sounds : Done(s))
Faults == OtherDone \/ ServerDies \/ \E c \in Conns : Break(c)

Next == Client \/ User \/ Server \/ Faults
Spec == Init /\ [][Next]_vars

(* The program runs; the server answers and plays.                         *)
FairSpec ==
    /\ Spec /\ WF_vars(Client)
    /\ \A c \in Conns : WF_vars(Serve(c))
    /\ \A s \in Sounds : WF_vars(Done(s))

-----------------------------------------------------------------------------
(* Types of the variables.                                                 *)
TypeOK ==
    /\ prog \in {"rptp", "rplay"} /\ pc \in STRING /\ up \in BOOLEAN
    /\ tries \in 0..(RPTP_CONNECT_ATTEMPTS - 1)
    /\ {fd, eof, notify} \subseteq [Conns -> BOOLEAN]
    /\ \A c \in Conns : ~fd[c] => toClient[c] = <<>>
    /\ entry \in [Sounds -> {"none", "playing", "flow", "done"}]
    /\ table \in [Sounds -> {"play", "flow"}] /\ i \in 0..(NSounds + Size)
    /\ {interrupted, udp, skewed, broken} \subseteq BOOLEAN

(* rptp: at the prompt nothing of an earlier command is left to read, so   *)
(* the next line is the answer to the next command.  Not so after the file *)
(* of a get could not be opened, nor once the user has asked for notes.    *)
AnswersMatch ==
    prog = "rptp" /\ ~skewed =>
        /\ pc = "prompt" /\ fd["ctl"] /\ ~eof["ctl"] => toClient["ctl"] = <<>>
        /\ pc \in Typed \cup {"application?"} /\ toClient["ctl"] # <<>> =>
              Head(toClient["ctl"]).n = n \/ Head(toClient["ctl"]).k = "!"

(* rplay plays its sounds one after the other: the next is asked for when  *)
(* the one before is done.  Not so when the user interrupts it, when its   *)
(* connection breaks, and when a note comes before the answer to a play.   *)
OneAtATime ==
    ~broken /\ ~skewed /\ faults = 0 =>
        Cardinality({s \in Sounds : entry[s] \in {"playing", "flow"}}) <= 1

(* A line that is typed, and each sound, comes to an end: rptp returns to  *)
(* its prompt unless it monitors, rplay plays and exits.  A get that takes *)
(* a line for its answer which is not, waits for a sound that never comes. *)
ComesBack ==
    /\ prog = "rplay" ~> pc = "exit"
    /\ prog = "rptp" ~> pc \in {"prompt", "exit", "monitoring"} \/ skewed

(* rptp's help: "skip     Skip sounds in a sound list."                    *)
SkipSkips == [][\A t \in Typed : Type(t) /\ t = "skip" => command' = "skip"]_vars
=============================================================================
