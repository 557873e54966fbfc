------------------------------- MODULE Sounds -------------------------------
(***************************************************************************)
(* The sounds of rplayd (sound.c): the hash table of sounds and the list   *)
(* that goes with it, mapping a sound to find out what it is, the sounds   *)
(* kept in memory, the SINDEXes that the spool and the connections read    *)
(* sounds with, the sounds of flows and of put, the helpers, and what      *)
(* unmaps and frees sounds: sound_cleanup, sound_clean, sound_reread.      *)
(*                                                                         *)
(* There is one connection.  Which servers are asked for a sound, and the  *)
(* disk cache, are in module Lookup; the data of flows is in module Flow;  *)
(* the spool itself is in module Spool.                                    *)
(*                                                                         *)
(* Where the program uses memory that it has freed what it does is not     *)
(* defined: mem.bad then holds the reason and the model stops.  It also    *)
(* stops where sound_cache_size no longer counts what is kept.             *)
(*                                                                         *)
(* A definition D_Word next to D is D with a plausible mistake in it, which*)
(* no definition uses.                                                     *)
(***************************************************************************)
EXTENDS Header, Sequences, FiniteSets, SequencesExt, FiniteSetsExt, TLC

CONSTANTS
    Files,           \* paths of sound files
    Stored,          \* paths in the cache directory
    Key,             \* xhash_name of a path
    Base,            \* the last part of a path
    Size,            \* the size of a path's file
    Contents,        \* for each path, what may be in the file or flow
    Names,           \* what clients ask for, see Matches
    Listings,        \* sets of paths, what sounds_file may list
    Helped,          \* sets of paths, what the helpers' patterns may match
    HelperPar,       \* the audio parameters of the output of the helpers
    FlowPars,        \* the input-* parameters given with flows
    Storages,        \* the storage given with flows
    FlowPaths,       \* the paths that flows get
    PutPaths,        \* the paths that files are put to
    Entries,         \* entries of the spool
    MaxSize,         \* sound_cache_max_size, 0: nothing is kept
    MaxSoundSize     \* sound_cache_max_sound_size, 0: no limit

Paths == Files \cup Stored
NULL == "NULL"
FREED == "FREED"

ASSUME SoundsAssumption == /\ Files \cap Stored = {} /\ FlowPaths \cup PutPaths \subseteq Stored /\ {NULL, FREED} \cap Paths = {}
                           /\ {MaxSize, MaxSoundSize} \subseteq Nat

VARIABLES
    mem,             \* the sounds, see Init
    entry,           \* the spool, see NoEntry
    conn,            \* the connection and its event, see NoConn
    content,         \* what is in the files and comes in the flows
    listed,          \* what sounds_file lists
    helpers,         \* the paths that a helper's pattern matches
    quiet            \* nothing has happened since sound_cleanup

vars == <<mem, entry, conn, content, listed, helpers, quiet>>

NoEntry == [state |-> "none", sound |-> NULL, si |-> "none"]
NoConn == [event |-> "none", sound |-> NULL, si |-> "none"]
Reading == [NoConn EXCEPT !.event = "read"]

(* sound_create; a sound that is not live has been freed, or never was.    *)
NoSound == [live |-> FALSE, type |-> "file", status |-> "ready", storage |-> "null",
            next |-> NULL, prev |-> NULL, par |-> NoPar, mapped |-> FALSE, cache |-> FALSE,
            size |-> 0, chunk_size |-> 0, tail |-> 0, samples |-> 0, needs_helper |-> FALSE]
Created(type, status) == [NoSound EXCEPT !.live = TRUE, !.type = type, !.status = status]

-----------------------------------------------------------------------------
(* The table.  Sounds with the same key are chained, the first one is in   *)
(* the hash table and in the list `sounds'.                                *)

xhash_get(m, k) == m.table[k]

Chain(m, k) ==
    LET nth[i \in 1..Cardinality(Paths)] ==
            IF i = 1 THEN xhash_get(m, k)
            ELSE IF nth[i - 1] = NULL THEN NULL ELSE m.sound[nth[i - 1]].next
    IN  SelectSeq([i \in 1..Cardinality(Paths) |-> nth[i]], LAMBDA p : p # NULL)

sound_insert(m, p, new) ==
    LET k == Key[p]
        chain == Chain(m, k)
    IN  CASE chain = <<>> -> [m EXCEPT !.sound[p] = new, !.table[k] = p, !.list = <<p>> \o @]
          [] p \in Range(chain) -> m
          [] OTHER -> [m EXCEPT !.sound[p] = [new EXCEPT !.prev = Last(chain)],
                                !.sound[Last(chain)].next = p]

sound_unmap(m, p) ==
    [m EXCEPT !.cache_size = IF m.sound[p].type = "file" /\ m.sound[p].cache
                             THEN @ - m.sound[p].size ELSE @,
              !.sound[p].cache = IF m.sound[p].type = "file" THEN FALSE ELSE @,
              !.sound[p].mapped = FALSE]

sound_free(m, p) == [sound_unmap(m, p) EXCEPT !.sound[p] = NoSound]

(* The links of s are taken out of the table.  The next sound after the    *)
(* first keeps its link to the first.                                      *)
Unlinked_NoReplace(m, p) ==
    LET s == m.sound[p]
        k == Key[p]
    IN  CASE s.next = NULL /\ s.prev = NULL ->
                [m EXCEPT !.table[k] = NULL, !.list = SelectSeq(@, LAMBDA x : x # p)]
          [] s.prev = FREED -> [m EXCEPT !.bad = @ \cup {"prev"}]
          [] s.prev \in Paths ->
                [m EXCEPT !.sound = [q \in Paths |->
                    IF q = s.prev THEN [@[q] EXCEPT !.next = s.next]
                    ELSE IF q = s.next THEN [@[q] EXCEPT !.prev = s.prev] ELSE @[q]]]
          [] OTHER ->
                [m EXCEPT !.sound[s.next].prev = FREED,
                          !.list = [i \in DOMAIN @ |-> IF @[i] = p THEN s.next ELSE @[i]]]
Unlinked(m, p) ==
    LET s == m.sound[p]
        k == Key[p]
    IN  CASE s.next = NULL /\ s.prev = NULL ->
                [m EXCEPT !.table[k] = NULL, !.list = SelectSeq(@, LAMBDA x : x # p)]
          [] s.prev = FREED -> [m EXCEPT !.bad = @ \cup {"prev"}]
          [] s.prev \in Paths ->
                [m EXCEPT !.sound = [q \in Paths |->
                    IF q = s.prev THEN [@[q] EXCEPT !.next = s.next]
                    ELSE IF q = s.next THEN [@[q] EXCEPT !.prev = s.prev] ELSE @[q]]]
          [] OTHER ->
                [m EXCEPT !.table[k] = s.next, !.sound[s.next].prev = FREED,
                          !.list = [i \in DOMAIN @ |-> IF @[i] = p THEN s.next ELSE @[i]]]
sound_delete(m, p, remove) ==
    sound_free([Unlinked(m, p) EXCEPT !.disk = IF remove THEN @ \ {p} ELSE @], p)

-----------------------------------------------------------------------------
(* Opening and mapping.  Both return the memory and whether it went well,  *)
(* sound_open the kind of the SINDEX as well.                              *)

helper_lookup(p) == p \in helpers

Keeps_EachFits(m, p) == MaxSize > 0 /\ ~helper_lookup(p) /\ Size[p] <= MaxSize
Keeps(m, p) ==
    /\ MaxSize > 0 /\ ~helper_lookup(p)
    /\ MaxSoundSize = 0 \/ Size[p] <= MaxSoundSize
    /\ m.cache_size + Size[p] <= MaxSize

(* A file that is opened for the first time is kept if there is room.      *)
sound_open(m, p, use_helper) ==
    LET s == m.sound[p]
        sized == [m EXCEPT !.sound[p].size = Size[p]]
        kept == [sized EXCEPT !.sound[p].cache = TRUE, !.cache_size = @ + Size[p]]
    IN  CASE use_helper /\ s.needs_helper ->
                IF helper_lookup(p) THEN [m |-> m, ok |-> TRUE, si |-> "pipe"]
                                    ELSE [m |-> [m EXCEPT !.up = FALSE], ok |-> FALSE, si |-> "none"]
          [] ~(use_helper /\ s.needs_helper) /\ s.type = "flow" -> [m |-> m, ok |-> TRUE, si |-> "flow"]
          [] OTHER ->
                IF s.cache THEN [m |-> m, ok |-> TRUE, si |-> "cached"]
                ELSE IF p \notin m.disk THEN [m |-> m, ok |-> FALSE, si |-> "none"]
                ELSE IF s.mapped /\ s.size # 0 THEN [m |-> m, ok |-> TRUE, si |-> "fd"]
                ELSE IF ~Keeps(m, p) THEN [m |-> sized, ok |-> TRUE, si |-> "fd"]
                ELSE [m |-> kept, ok |-> Size[p] > 0, si |-> "cached"]

(* What was recognised is put into the sound, or not.                      *)
Identified_Resized(m, p, found) ==
    LET s == m.sound[p]
        par == FixedUp(Overridden(found.par, s.par))
        chunk == Chunk(found.chunk, s.size - par.offset, par.offset, s)
    IN  IF ~found.ok THEN [m |-> [m EXCEPT !.sound[p].par = found.par], ok |-> FALSE]
        ELSE IF ~Complete(par) THEN [m |-> [m EXCEPT !.sound[p].par = par], ok |-> FALSE]
        ELSE [m |-> [m EXCEPT !.sound[p] =
                        [s EXCEPT !.par = par, !.mapped = TRUE,
                                  !.chunk_size = chunk.chunk_size, !.tail = chunk.tail,
                                  !.samples = number_of_samples(
                                                  Bytes(chunk, s.size, par.offset), par)]],
              ok |-> TRUE]
Identified(m, p, found) ==
    LET s == m.sound[p]
        par == FixedUp(Overridden(found.par, s.par))
        sized == s.type = "file" /\ ~s.needs_helper
        chunk == Chunk(found.chunk, s.size, par.offset, s)
        size == IF sized THEN s.size ELSE 0
    IN  IF ~found.ok THEN [m |-> [m EXCEPT !.sound[p].par = found.par], ok |-> FALSE]
        ELSE IF ~Complete(par) THEN [m |-> [m EXCEPT !.sound[p].par = par], ok |-> FALSE]
        ELSE [m |-> [m EXCEPT !.sound[p] =
                        [s EXCEPT !.par = par, !.mapped = TRUE, !.size = size,
                                  !.chunk_size = chunk.chunk_size, !.tail = chunk.tail,
                                  !.samples = IF sized THEN number_of_samples(
                                                  Bytes(chunk, s.size, par.offset), par)
                                              ELSE 0,
                                  !.storage = IF s.needs_helper /\ @ = "null" THEN "none" ELSE @]],
              ok |-> TRUE]
sound_map(m, p) ==
    LET open == sound_open(m, p, TRUE)
        old == m.sound[p].par
    IN  IF m.sound[p].mapped THEN [m |-> m, ok |-> TRUE]
        ELSE IF helper_lookup(p)
        THEN Identified([m EXCEPT !.sound[p].needs_helper = TRUE], p, Parsed(HelperPar, 0))
        ELSE IF ~open.ok \/ Size[p] = 0 THEN [m |-> open.m, ok |-> FALSE]
        ELSE Identified(open.m, p, Recognised(content[p], open.m.sound[p].size, old))

(* sound_lookup, without servers.  A name is a path, a file name with an   *)
(* extension, or what is left of it without.  A path that is a file is     *)
(* loaded in mode find, or if its key is there already.                    *)
Matches(name, p) ==
    CASE name.kind = "path" -> p = name.of
      [] name.kind = "file" -> Base[p] = name.of
      [] name.kind = "key"  -> TRUE
NameKey(name) ==
    CASE name.kind = "path" -> Key[name.of]
      [] name.kind = "file" -> Key[CHOOSE p \in Paths : Base[p] = name.of]
      [] name.kind = "key"  -> name.of

sound_lookup(m, name, find) ==
    LET chain == Chain(m, NameKey(name))
        found == SelectSeq(chain, LAMBDA p : Matches(name, p))
        loads == name.kind = "path" /\ name.of \in m.disk /\ (find \/ chain # <<>>)
        p == IF found # <<>> THEN found[1] ELSE name.of
        n == IF found # <<>> THEN m ELSE sound_insert(m, p, Created("file", "ready"))
        map == sound_map(n, p)
    IN  IF found = <<>> /\ ~loads THEN [m |-> m, sound |-> NULL]
        ELSE IF n.sound[p].status # "ready" THEN [m |-> n, sound |-> p]
        ELSE [m |-> map.m, sound |-> IF map.ok THEN p ELSE NULL]

-----------------------------------------------------------------------------
(* Cleaning and freeing.                                                   *)

InSpool(p) == \E e \in Entries : entry[e].sound = p
Sent(p) == conn.event = "get" /\ conn.sound = p

(* sound_clean, when an entry is done with the sound.  full: there is no   *)
(* room for it in the cache directory.                                     *)
sound_clean(m, p, full) ==
    LET s == m.sound[p]
    IN  CASE s.needs_helper -> [m EXCEPT !.sound[p].samples = 0, !.sound[p].par.offset = 0,
                                         !.sound[p].size = 0,
                                         !.bad = IF s.cache THEN @ \cup {"miscounted"} ELSE @]
          [] ~s.needs_helper /\ s.type = "flow" /\ (s.storage = "none" \/ (s.storage = "disk" /\ full)) ->
                sound_delete(m, p, FALSE)
          [] ~s.needs_helper /\ s.type = "flow" /\ s.storage = "disk" /\ ~full ->
                [sound_unmap([m EXCEPT !.disk = @ \cup {p}], p) EXCEPT !.sound[p].type = "file"]
          [] OTHER -> m

(* spool_reset: what is left when the entry e is done.  Others may still   *)
(* use a sound that is deleted or changed.                                 *)
spool_reset(m, e, full) ==
    LET p == entry[e].sound
        n == sound_clean(m, p, full)
        shared == (\E f \in Entries \ {e} : entry[f].sound = p) \/ Sent(p)
    IN  IF shared /\ m.sound[p].type = "flow" /\ n # m THEN [n EXCEPT !.bad = @ \cup {"shared"}]
        ELSE n

(* sound_cleanup.  The spool is looked at once for each connection, so not *)
(* at all when there is none.                                              *)
Cleans(p) == ~Sent(p) /\ (conn.event = "none" \/ ~InSpool(p))
CleanOne(m, p) ==
    LET s == m.sound[p]
    IN  CASE s.type = "file" /\ s.status = "ready" /\ s.cache -> IF Cleans(p) THEN sound_unmap(m, p) ELSE m
          [] s.type = "flow" /\ ~InSpool(p) -> sound_clean(m, p, FALSE)
          [] OTHER -> m
AllSounds(m) == FoldLeft(LAMBDA sq, p : sq \o Chain(m, Key[p]), <<>>, m.list)
sound_cleanup ==
    LET n == FoldLeft(CleanOne, mem, AllSounds(mem))
        used == {p \in Paths : mem.sound[p].cache /\ ~n.sound[p].cache
                                 /\ \E e \in Entries : entry[e].sound = p /\ entry[e].si = "cached"}
    IN  /\ \A e \in Entries : entry[e].state # "play"
        /\ mem' = [n EXCEPT !.cache_size = 0,
                            !.bad = @ \cup (IF used # {} THEN {"cleaned"} ELSE {})
                                      \cup (IF \E p \in Paths : n.sound[p].cache THEN {"miscounted"}
                                            ELSE {})]
        /\ quiet' = TRUE
        /\ UNCHANGED <<entry, conn, content, listed, helpers>>

(* sound_read: the directories and files that sounds_file lists, and the   *)
(* cache directory.                                                        *)
sound_read(m, list) ==
    FoldSet(LAMBDA p, n : sound_insert(n, p, Created("file", "ready")), m, (list \cup Stored) \cap m.disk)

sound_reread(m, list) ==
    LET freed == FoldLeft(sound_free, m, AllSounds(m))
    IN  sound_read([freed EXCEPT !.table = [k \in DOMAIN @ |-> NULL], !.list = <<>>], list)

-----------------------------------------------------------------------------
(* The operations.  Each is one turn of doit's loop.                       *)

Running == mem.up /\ mem.bad = {}
Acts == Running /\ quiet' = FALSE /\ UNCHANGED <<content, listed, helpers>>

(* spool_play: the entry e with the sound p, which was found and mapped    *)
spool_play(m, e, p, full) ==
    LET open == sound_open(m, p, TRUE)
    IN  IF open.ok
        THEN /\ mem' = IF m.sound[p].mapped THEN open.m ELSE [open.m EXCEPT !.bad = @ \cup {"unmapped"}]
             /\ entry' = [entry EXCEPT ![e] = [state |-> "play", sound |-> p, si |-> open.si]]
        ELSE /\ mem' = sound_clean(open.m, p, full)
             /\ entry' = [entry EXCEPT ![e] = NoEntry]

(* rplayd_play of one sound                                                *)
Play(e, name) ==
    LET found == sound_lookup(mem, name, TRUE)
    IN  /\ Acts
        /\ entry[e].state = "none"
        /\ UNCHANGED conn
        /\ CASE found.sound = NULL -> mem' = found.m /\ UNCHANGED entry
             [] found.sound # NULL /\ found.m.sound[found.sound].status # "ready" ->
                   /\ mem' = found.m
                   /\ entry' = [entry EXCEPT ![e] = [state |-> "wait", sound |-> found.sound,
                                                     si |-> "none"]]
             [] OTHER -> spool_play(found.m, e, found.sound, FALSE)

spool_pause(e) ==
    /\ Acts /\ entry[e].state = "play"
    /\ entry' = [entry EXCEPT ![e].state = "pause"]
    /\ UNCHANGED <<mem, conn>>

spool_continue(e) ==
    /\ Acts /\ entry[e].state = "pause"
    /\ entry' = [entry EXCEPT ![e].state = "play"]
    /\ UNCHANGED <<mem, conn>>

(* The sound was played to its end, stopped or replaced.                   *)
Ends(e, full) ==
    /\ Acts /\ entry[e].state # "none"
    /\ mem' = spool_reset(mem, e, full)
    /\ entry' = [entry EXCEPT ![e] = NoEntry]
    /\ UNCHANGED conn

Connect ==
    /\ Acts /\ conn = NoConn
    /\ conn' = Reading
    /\ UNCHANGED <<mem, entry>>

(* event_create of EVENT_WRITE_SOUND, which also fills the first buffer    *)
command_get(name) ==
    LET found == sound_lookup(mem, name, FALSE)
        p == found.sound
        open == sound_open(found.m, p, FALSE)
    IN  /\ Acts /\ conn = Reading
        /\ UNCHANGED entry
        /\ IF p = NULL \/ found.m.sound[p].status # "ready" \/ found.m.sound[p].type # "file"
           THEN mem' = found.m /\ UNCHANGED conn
           ELSE /\ mem' = open.m
                /\ conn' = IF open.ok /\ Size[p] > 0 THEN [event |-> "get", sound |-> p, si |-> open.si]
                                                    ELSE conn

(* All was written, and the SINDEX is closed.                              *)
GetDone ==
    /\ Acts /\ conn.event = "get"
    /\ conn' = Reading
    /\ UNCHANGED <<mem, entry>>

(* command_put of a file.  cache_free may have to remove another.          *)
command_put(p) ==
    LET found == sound_lookup(mem, [kind |-> "path", of |-> p], FALSE)
        old == {q \in Stored : found.m.sound[q].live /\ found.m.sound[q].status = "ready" /\ q \in found.m.disk}
    IN  /\ Acts /\ conn = Reading
        /\ \E gone \in {{}} \cup {{q} : q \in old}, ok \in BOOLEAN :
              LET freed == FoldSet(LAMBDA q, m : sound_delete(m, q, TRUE), found.m, gone)
              IN  IF found.sound # NULL \/ ~ok
                  THEN /\ mem' = IF found.sound # NULL THEN found.m ELSE freed
                       /\ entry' = IF found.sound # NULL THEN entry
                                   ELSE [e \in Entries |-> IF entry[e].sound \in gone THEN NoEntry ELSE entry[e]]
                       /\ UNCHANGED conn
                  ELSE /\ mem' = sound_insert([freed EXCEPT !.disk = @ \cup {p}], p,
                                              Created("file", "not_ready"))
                       /\ entry' = [e \in Entries |-> IF entry[e].sound \in gone THEN NoEntry ELSE entry[e]]
                       /\ conn' = [event |-> "put", sound |-> p, si |-> "none"]

Waiting(p) == {e \in Entries : entry[e].state = "wait" /\ entry[e].sound = p}

(* event_update: the last byte of the sound has come.  Those that wait for *)
(* it play, which opens it once more for each.                             *)
Ready(m, p) ==
    LET map == sound_map(m, p)
        open == sound_open(map.m, p, TRUE)
        ready == [open.m EXCEPT !.sound[p].status = "ready"]
    IN  IF Waiting(p) = {} THEN /\ mem' = [map.m EXCEPT !.sound[p].status = "ready"]
                                /\ UNCHANGED entry
        ELSE /\ mem' = IF ~map.ok THEN [ready EXCEPT !.bad = @ \cup {"unmapped"}] ELSE ready
             /\ entry' = [e \in Entries |-> IF e \notin Waiting(p) THEN entry[e]
                                            ELSE IF open.ok THEN [entry[e] EXCEPT !.state = "play", !.si = open.si]
                                            ELSE NoEntry]
PutDone ==
    /\ Acts /\ conn.event = "put"
    /\ Ready(mem, conn.sound)
    /\ conn' = Reading

(* connection_close: a sound that has not come is removed, with the        *)
(* entries that wait for it.                                               *)
connection_close_Keeps ==
    /\ Acts /\ conn # NoConn
    /\ conn' = NoConn
    /\ mem' = IF conn.event = "put" THEN sound_delete(mem, conn.sound, TRUE) ELSE mem
    /\ UNCHANGED entry
connection_close ==
    /\ Acts /\ conn # NoConn
    /\ conn' = NoConn
    /\ IF conn.event = "put"
       THEN /\ entry' = [e \in Entries |-> IF entry[e].sound = conn.sound THEN NoEntry ELSE entry[e]]
            /\ mem' = sound_delete(mem, conn.sound, TRUE)
       ELSE UNCHANGED <<mem, entry>>

(* play input=flow: a file name that is not found, and put id=#...         *)
PlayFlow(e, p, par, storage) ==
    LET found == sound_lookup(mem, [kind |-> "file", of |-> Base[p]], FALSE)
    IN  /\ Acts /\ conn = Reading /\ entry[e].state = "none"
        /\ found.sound = NULL
        /\ mem' = sound_insert(found.m, p, [Created("flow", "not_ready") EXCEPT !.par = par,
                                                                               !.storage = storage])
        /\ entry' = [entry EXCEPT ![e] = [state |-> "wait", sound |-> p, si |-> "none"]]
        /\ conn' = [event |-> "flow", sound |-> p, si |-> "none"]

(* The first data of the flow, spool_flow_insert.  A flow that is not      *)
(* recognised is removed with its entries.                                 *)
FlowData(full) ==
    LET p == conn.sound
        map == sound_map([mem EXCEPT !.sound[p].status = "ready"], p)
    IN  /\ Acts /\ conn.event = "flow" /\ Waiting(p) # {}
        /\ mem.sound[p].status = "not_ready"
        /\ IF map.ok THEN Ready(map.m, p)
           ELSE /\ mem' = IF Cardinality(Waiting(p)) > 1 THEN [map.m EXCEPT !.bad = @ \cup {"shared"}]
                          ELSE sound_clean(map.m, p, full)
                /\ entry' = [e \in Entries |-> IF entry[e].sound = p THEN NoEntry ELSE entry[e]]
        /\ UNCHANGED conn

(* done: no more data, or its entry is gone                                *)
FlowDone ==
    /\ Acts /\ conn.event = "flow"
    /\ conn' = Reading
    /\ UNCHANGED <<mem, entry>>

(* The helpers are read anew: help are the paths that a pattern matches.   *)
helper_read(help) == helpers' = help

(* doit leaves idle mode: the files that were changed meanwhile are read   *)
(* again.  Entries that are paused keep their sounds.                      *)
WakeUp(list, help, changed) ==
    /\ Running /\ quiet /\ conn = NoConn
    /\ \A e \in Entries : entry[e].state # "play"
    /\ quiet' = FALSE
    /\ listed' = list /\ helper_read(help)
    /\ changed \/ list = listed
    /\ mem' = IF ~changed THEN mem
              ELSE LET m == sound_reread(mem, list)
                   IN  IF \E e \in Entries : entry[e].state # "none"
                       THEN [m EXCEPT !.bad = @ \cup {"reread"}] ELSE m
    /\ UNCHANGED <<entry, conn, content>>

(* reset: the spool and the connections are gone before the sounds are.    *)
reset(list, help) ==
    LET put == IF conn.event = "put" THEN sound_delete(mem, conn.sound, TRUE) ELSE mem
    IN  /\ Running
        /\ entry' = [e \in Entries |-> NoEntry] /\ conn' = NoConn
        /\ listed' = list /\ helper_read(help)
        /\ mem' = sound_reread(put, list)
        /\ quiet' = FALSE
        /\ UNCHANGED content

-----------------------------------------------------------------------------
Init ==
    /\ content \in {c \in [Paths -> UNION {Contents[p] : p \in Paths}] : \A p \in Paths : c[p] \in Contents[p]}
    /\ listed \in Listings /\ helpers \in Helped
    /\ mem = sound_read([sound |-> [p \in Paths |-> NoSound], table |-> [k \in Range(Key) |-> NULL],
                         list |-> <<>>, cache_size |-> 0, disk |-> Files,
                         up |-> TRUE, bad |-> {}], listed)
    /\ entry = [e \in Entries |-> NoEntry] /\ conn = NoConn /\ quiet = FALSE

Next ==
    \/ \E e \in Entries, name \in Names : Play(e, name)
    \/ \E e \in Entries : spool_pause(e) \/ spool_continue(e)
    \/ \E e \in Entries, full \in BOOLEAN : Ends(e, full)
    \/ Connect \/ GetDone \/ PutDone \/ FlowDone \/ connection_close \/ sound_cleanup
    \/ \E name \in Names : command_get(name)
    \/ \E p \in PutPaths : command_put(p)
    \/ \E e \in Entries, p \in FlowPaths, par \in FlowPars, storage \in Storages :
          PlayFlow(e, p, par, storage)
    \/ \E full \in BOOLEAN : FlowData(full)
    \/ \E list \in Listings, help \in Helped : reset(list, help)
    \/ \E list \in Listings, help \in Helped, changed \in BOOLEAN : WakeUp(list, help, changed)

Spec == Init /\ [][Next]_vars

-----------------------------------------------------------------------------
(* Every sound is found through the hash table, once, and so is nothing    *)
(* that was freed; the list holds the first sound of each chain; and the   *)
(* links of a chain go both ways, but for the link that sound_delete leaves*)
(* when it deletes the first.                                              *)
TableWhole ==
    Running =>
        /\ \A p \in Paths : mem.sound[p].live <=> p \in Range(Chain(mem, Key[p]))
        /\ IsInjective(mem.list)
        /\ Range(mem.list) = {mem.table[k] : k \in Range(Key)} \ {NULL}
        /\ \A p \in Paths : LET n == mem.sound[p].next
                            IN  n # NULL => mem.sound[n].live /\ mem.sound[n].prev = p

(* sound_cache_size is the size of the sounds that are kept in memory, and *)
(* no more than is allowed, through every reread, delete and failure to    *)
(* map a sound; until a sound_cleanup has set it to 0 while some sound in  *)
(* use stays, or sound_clean has set the size of such a sound to 0.        *)
Kept == {p \in Paths : mem.sound[p].cache}
CacheCounts ==
    Running =>
        /\ mem.cache_size = FoldSet(LAMBDA p, n : n + mem.sound[p].size, 0, Kept)
        /\ mem.cache_size <= MaxSize

(* What the spool or a connection reads from is there: it is not freed,    *)
(* and if it is read from memory it is still in memory.                    *)
InUse ==
    Running =>
        /\ \A e \in Entries : entry[e].state # "none" => mem.sound[entry[e].sound].live
        /\ conn.event \in {"get", "put"} => mem.sound[conn.sound].live
        /\ \A u \in Range(entry) \cup {conn} : u.si = "cached" => mem.sound[u.sound].cache

(* A file is mapped to the parameters that its contents give, however      *)
(* often it was mapped and unmapped before, although sound_map takes the   *)
(* parameters that a sound already has for the client's.                   *)
MapRight ==
    Running =>
        \A p \in Files :
            LET s == mem.sound[p]
                fresh == Recognised(content[p], Size[p], NoPar)
                par == FixedUp(fresh.par)
                chunk == Chunk(fresh.chunk, Size[p], par.offset, NoSound)
            IN  s.mapped /\ ~s.needs_helper =>
                    /\ fresh.ok /\ s.par = par
                    /\ s.samples = number_of_samples(Bytes(chunk, Size[p], par.offset), par)

(* "Don't clean sounds in the spool."                                      *)
SpoolSpared ==
    \A e \in Entries : entry[e].si = "cached" /\ mem.sound[entry[e].sound].live =>
        mem.sound[entry[e].sound].cache
=============================================================================
