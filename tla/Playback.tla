------------------------------ MODULE Playback ------------------------------
(***************************************************************************)
(* The audio buffers of rplayd at the granularity of single reads and      *)
(* writes: the free list of buffer.c, the two buffer chains of a spool     *)
(* entry (sp->curr_buffer, sp->next_buffer), the fill in spool_update and  *)
(* the SIGALRM handler, which consumes the chains and puts used buffers    *)
(* back on the free list.  SIGALRM is not blocked while the main loop      *)
(* takes buffers from that list or decides which chain a fill becomes, so  *)
(* the handler may run between any two of these steps.                     *)
(*                                                                         *)
(* The audio of a sound is a row of chunks 1..Chunks, one to a buffer.     *)
(* The other states of an entry (pause, wait, skip) are in module Spool.   *)
(*                                                                         *)
(* A definition D_Word next to D is D with a plausible mistake in it.      *)
(***************************************************************************)
EXTENDS Integers, Sequences, FiniteSets, SequencesExt

CONSTANTS
    Entries,   \* spool entries
    Buffers,   \* names for the memory of a BUFFER
    Chunks,    \* buffers' worth of audio in every sound
    Chain,     \* buffers that buffer_alloc takes for one fill
    Cached,    \* the sound is in the memory cache: eof is known with the last data
    Sized,     \* the number of samples is known
    Reload,    \* the build reads the global `buffers' again in buffers->next
    Width      \* bound: nbuffers is an int of the values -Width..Width-1

ASSUME EntriesAssumption == IsFiniteSet(Entries) /\ Entries # {}
ASSUME ChunkAssumption == Chunks \in Nat \ {0} /\ Chain \in Nat \ {0}
ASSUME BufferAssumption ==
    /\ IsFiniteSet(Buffers)
    /\ Cardinality(Buffers) > Chain * (2 * Cardinality(Entries) + 1)
ASSUME WidthAssumption == Width \in Nat \ {0}
ASSUME BuildAssumption == {Cached, Sized, Reload} \subseteq BOOLEAN

VARIABLES
    free,         \* the free list: from `buffers' along the next pointers
    nbuffers,
    data,         \* the chunk in each buffer, 0 when nbytes is 0
    entry,        \* state, curr_buffer, next_buffer, si and the chunks read
    played,       \* the chunks of each entry's sound that have been heard
    needs_update, \* spool_needs_update # 0
    pc,           \* where the main loop is
    cur,          \* the entry, or the reply, that the main loop works for
    todo,         \* entries the walk of spool_update has not visited
    chain,        \* the buffers buffer_alloc has got, or that are given back
    seen          \* what was read of the free list, or <<nbuffers>>

vars == <<free, nbuffers, data, entry, played, needs_update, pc, cur, todo,
          chain, seen>>

local == <<cur, todo, chain>>

(* The main loop needs a buffer for something else, a reply or a request.  *)
Reply == "reply"

None == <<>>

NullEntry ==
    [state |-> "NULL", curr |-> None, next |-> None, si |-> "null", read |-> 0]

Held(e) == Range(entry[e].curr) \cup Range(entry[e].next)

InUse == Range(free) \cup Range(chain) \cup UNION {Held(e) : e \in Entries}

(* An int: it wraps around.                                                *)
Wrapped(n) == ((n + Width) % (2 * Width)) - Width

(* The chunks in a set of buffers.                                         *)
Content(d, B) == {d[b] : b \in B} \ {0}

-----------------------------------------------------------------------------
(* The main loop: buffer_create.                                           *)

(* malloc: memory that nothing refers to, whatever its name.               *)
Fresh == CHOOSE b \in Buffers : b \notin InUse

(* Another buffer is wanted: is there one on the free list?                *)
Create ==
    /\ pc = "create"
    /\ IF free = None
       THEN /\ chain' = Append(chain, Fresh)
            /\ data' = [data EXCEPT ![Fresh] = 0]
            /\ pc' = "created"
       ELSE pc' = "count" /\ UNCHANGED <<chain, data>>
    /\ UNCHANGED <<free, nbuffers, entry, played, needs_update, cur, todo, seen>>

(* nbuffers--, as a read and a write.                                      *)
CountRead ==
    /\ pc = "count"
    /\ seen' = <<nbuffers>>
    /\ pc' = "uncount"
    /\ UNCHANGED <<free, nbuffers, data, entry, played, needs_update, local>>

CountWrite ==
    /\ pc = "uncount"
    /\ nbuffers' = Wrapped(Head(seen) - 1)
    /\ seen' = None
    /\ pc' = "head"
    /\ UNCHANGED <<free, data, entry, played, needs_update, local>>

(* b = buffers.                                                            *)
ReadHead ==
    /\ pc = "head"
    /\ chain' = Append(chain, Head(free))
    /\ pc' = "unlink"
    /\ UNCHANGED <<free, nbuffers, data, entry, played, needs_update, cur, todo,
                   seen>>

(* buffers = buffers->next, where `buffers' may still be in a register.    *)
After(b) ==
    IF Reload THEN Tail(free)
    ELSE LET i == CHOOSE i \in 1..Len(free) : free[i] = b
         IN SubSeq(free, i + 1, Len(free))

UnlinkHead ==
    LET b == chain[Len(chain)] IN
    /\ pc = "unlink"
    /\ free' = After(b)
    /\ data' = [data EXCEPT ![b] = 0]
    /\ pc' = "created"
    /\ UNCHANGED <<nbuffers, entry, played, needs_update, local, seen>>

(* buffer_alloc goes on until it has enough; a reply takes one buffer,     *)
(* and its memory is freed when it has been sent.                          *)
Created ==
    /\ pc = "created"
    /\ IF cur = Reply THEN pc' = "idle" /\ chain' = None
       ELSE /\ pc' = IF Len(chain) < Chain THEN "create" ELSE "fill"
            /\ UNCHANGED chain
    /\ UNCHANGED <<free, nbuffers, data, entry, played, needs_update, cur, todo,
                   seen>>

-----------------------------------------------------------------------------
(* The main loop: the fill of spool_update.                                *)

WantsFill_Eager(e) == e.curr = None \/ e.si = "open"
WantsFill(e) == e.curr = None \/ (e.next = None /\ e.si = "open")

(* sound_fill: the chunks that fit, or the rest of the sound.              *)
Amount(e) ==
    IF e.si = "eof" THEN 0
    ELSE IF Chunks - e.read < Chain THEN Chunks - e.read ELSE Chain

Fill ==
    LET e == entry[cur]
        n == Amount(e)
        filled == [b \in Buffers |->
                      IF \E i \in 1..n : chain[i] = b
                      THEN e.read + (CHOOSE i \in 1..n : chain[i] = b)
                      ELSE data[b]]
    IN
    /\ pc = "fill"
    /\ data' = filled
    /\ IF n = 0
       THEN /\ chain' = None
            /\ entry' = [entry EXCEPT ![cur].si = "null"]
            /\ pc' = "next"
       ELSE /\ entry' = [entry EXCEPT
                            ![cur].read = @ + n,
                            ![cur].si = IF Cached /\ e.read + n = Chunks
                                        THEN "eof" ELSE @]
            /\ pc' = "place"
            /\ UNCHANGED chain
    /\ UNCHANGED <<free, nbuffers, played, needs_update, cur, todo, seen>>

(* The test of sp->curr_buffer; an empty one is replaced under             *)
(* timer_block.                                                            *)
Place ==
    /\ pc = "place"
    /\ IF entry[cur].curr = None
       THEN /\ entry' = [entry EXCEPT ![cur].curr = chain]
            /\ chain' = None
            /\ pc' = "next"
       ELSE pc' = "store" /\ UNCHANGED <<entry, chain>>
    /\ UNCHANGED <<free, nbuffers, data, played, needs_update, cur, todo, seen>>

(* sp->next_buffer = b, with the timer running.                            *)
Store ==
    /\ pc = "store"
    /\ entry' = [entry EXCEPT ![cur].next = chain]
    /\ chain' = None
    /\ pc' = "next"
    /\ UNCHANGED <<free, nbuffers, data, played, needs_update, cur, todo, seen>>

-----------------------------------------------------------------------------
(* The main loop: spool_update and the buffers that it gives back.         *)

(* A sound is over: its buffers are given back one by one.                 *)
Turn ==
    LET e == entry[cur] IN
    /\ pc = "visit"
    /\ e.state = "NEXT" \/ (e.state = "PLAY" /\ e.curr = None /\ e.si = "null")
    /\ chain' = e.curr \o e.next
    /\ entry' = [entry EXCEPT ![cur] = NullEntry]
    /\ pc' = IF chain' = None THEN "next" ELSE "more"
    /\ UNCHANGED <<free, nbuffers, data, played, needs_update, cur, todo, seen>>

Visit ==
    LET e == entry[cur] IN
    /\ pc = "visit"
    /\ e.state \in {"PLAY", "NULL"}
    /\ ~(e.state = "PLAY" /\ e.curr = None /\ e.si = "null")
    /\ pc' = IF e.state = "PLAY" /\ WantsFill(e) THEN "create" ELSE "next"
    /\ UNCHANGED <<free, nbuffers, data, entry, played, needs_update, local, seen>>

(* buffer_destroy of the first buffer of `chain': nbuffers++ ...           *)
DestroyRead ==
    /\ pc = "more"
    /\ seen' = <<nbuffers>>
    /\ pc' = "recount"
    /\ UNCHANGED <<free, nbuffers, data, entry, played, needs_update, local>>

DestroyCount ==
    /\ pc = "recount"
    /\ nbuffers' = Wrapped(Head(seen) + 1)
    /\ seen' = None
    /\ pc' = "link"
    /\ UNCHANGED <<free, data, entry, played, needs_update, local>>

(* ... b->next = buffers ...                                               *)
DestroyLink ==
    /\ pc = "link"
    /\ seen' = free
    /\ pc' = "linked"
    /\ UNCHANGED <<free, nbuffers, data, entry, played, needs_update, local>>

(* ... buffers = b.                                                        *)
DestroyHead ==
    /\ pc = "linked"
    /\ free' = <<Head(chain)>> \o seen
    /\ chain' = Tail(chain)
    /\ seen' = None
    /\ pc' = IF Len(chain) = 1 THEN "next" ELSE "more"
    /\ UNCHANGED <<nbuffers, data, entry, played, needs_update, cur, todo>>

(* The next entry of the walk.                                             *)
Walk ==
    /\ pc = "next"
    /\ IF todo = {} THEN pc' = "idle" /\ UNCHANGED <<cur, todo>>
       ELSE \E e \in todo : cur' = e /\ todo' = todo \ {e} /\ pc' = "visit"
    /\ UNCHANGED <<free, nbuffers, data, entry, played, needs_update, chain, seen>>

(* spool_update is called when somebody has asked for it.                  *)
Update ==
    /\ pc = "idle" /\ needs_update
    /\ needs_update' = FALSE
    /\ todo' = {e \in Entries : entry[e].state # "NULL"}
    /\ pc' = "next"
    /\ UNCHANGED <<free, nbuffers, data, entry, played, cur, chain, seen>>

(* spool_play, for a new request.                                          *)
Play(e) ==
    /\ pc = "idle" /\ entry[e].state = "NULL"
    /\ entry' = [entry EXCEPT ![e] = [NullEntry EXCEPT !.state = "PLAY",
                                                       !.si = "open"]]
    /\ played' = [played EXCEPT ![e] = None]
    /\ needs_update' = TRUE
    /\ UNCHANGED <<free, nbuffers, data, pc, local, seen>>

(* A client's request, an answer or a packet: buffer_create elsewhere.     *)
Serve ==
    /\ pc = "idle"
    /\ cur' = Reply
    /\ pc' = "create"
    /\ UNCHANGED <<free, nbuffers, data, entry, played, needs_update, todo, chain,
                   seen>>

(* buffer_cleanup, when nothing has played for a while.                    *)
Cleanup ==
    /\ pc = "idle"
    /\ \A e \in Entries : entry[e].state = "NULL"
    /\ free # None
    /\ free' = None
    /\ nbuffers' = 0
    /\ UNCHANGED <<data, entry, played, needs_update, pc, local, seen>>

Main ==
    \/ Create \/ CountRead \/ CountWrite \/ ReadHead \/ UnlinkHead \/ Created
    \/ Fill \/ Place \/ Store
    \/ Turn \/ Visit \/ DestroyRead \/ DestroyCount \/ DestroyLink \/ DestroyHead
    \/ Walk \/ Update

-----------------------------------------------------------------------------
(* The SIGALRM handler, one chunk of one entry.  It runs while the main    *)
(* loop does not, so its own steps are one.                                *)

(* The last sample of the sound: to_native returns 0 at once.              *)
LastSample(e) == Sized /\ Len(played[e]) + 1 >= Chunks

(* check_buffers: the rest of the chain, next_buffer, or nothing.          *)
MoreInChain(e) == Len(e.curr) > 1 /\ data[e.curr[2]] # 0

Advanced(e) ==
    IF MoreInChain(e) THEN [e EXCEPT !.curr = Tail(@)]
    ELSE [e EXCEPT !.curr = e.next, !.next = None]

(* What the handler gives back: the buffer used, or what is left of it.    *)
GivenBack_Whole(e) == e.curr
GivenBack(e) == IF MoreInChain(e) THEN <<e.curr[1]>> ELSE e.curr

TickAsks_NoStarve(e) == e.next = None /\ e.si = "open"
TickAsks(e) == WantsFill(e)

Tick(e) ==
    LET old == entry[e] IN
    /\ old.state = "PLAY"
    /\ IF old.curr = None
       THEN /\ needs_update' = (needs_update \/ TickAsks(old))
            /\ UNCHANGED <<free, nbuffers, entry, played>>
       ELSE /\ played' = [played EXCEPT ![e] = Append(@, data[old.curr[1]])]
            /\ IF LastSample(e)
               THEN /\ entry' = [entry EXCEPT ![e].state = "NEXT"]
                    /\ needs_update' = TRUE
                    /\ UNCHANGED <<free, nbuffers>>
               ELSE /\ entry' = [entry EXCEPT ![e] = Advanced(old)]
                    /\ free' = Reverse(GivenBack(old)) \o free
                    /\ nbuffers' = Wrapped(nbuffers + Len(GivenBack(old)))
                    /\ needs_update' = (needs_update \/ TickAsks(entry'[e]))
    /\ UNCHANGED <<data, pc, local, seen>>

-----------------------------------------------------------------------------
Init ==
    /\ free = None
    /\ nbuffers = 0
    /\ data = [b \in Buffers |-> 0]
    /\ entry = [e \in Entries |-> NullEntry]
    /\ played = [e \in Entries |-> None]
    /\ needs_update = FALSE
    /\ pc = "idle"
    /\ cur = Reply
    /\ todo = {}
    /\ chain = None
    /\ seen = None

Next ==
    \/ Main
    \/ Serve
    \/ Cleanup
    \/ \E e \in Entries : Play(e) \/ Tick(e)

Spec == Init /\ [][Next]_vars

(***************************************************************************)
(* The main loop goes on, and calls spool_update again and again whatever  *)
(* else it serves; SIGALRM is delivered while something plays.             *)
(***************************************************************************)
Fairness == /\ WF_vars(Main) /\ SF_vars(Update)
            /\ \A e \in Entries : WF_vars(Tick(e))

FairSpec == Spec /\ Fairness

-----------------------------------------------------------------------------
(* Properties.                                                             *)

(* The buffers that buffer_create has taken from the list; the last one is *)
(* still on it between b = buffers and buffers = buffers->next.            *)
Taken == IF pc = "unlink" THEN SubSeq(chain, 1, Len(chain) - 1) ELSE chain

(* A buffer is on the free list or in one chain, once: nothing that plays  *)
(* or is being filled is handed out again, although the handler adds to    *)
(* the list while the main loop takes from it.                             *)
NoAlias ==
    /\ IsInjective(free) /\ IsInjective(chain)
    /\ Range(free) \cap Range(Taken) = {}
    /\ \A e \in Entries :
        /\ IsInjective(entry[e].curr \o entry[e].next)
        /\ Held(e) \cap (Range(free) \cup Range(chain)) = {}
        /\ \A f \in Entries \ {e} : Held(e) \cap Held(f) = {}

(* The buffers of an entry, with the ones being filled for it.             *)
Waiting(e) ==
    Held(e) \cup (IF cur = e /\ pc \in {"place", "store"} THEN Range(chain) ELSE {})

(* No audio is lost or heard twice while an entry plays: every chunk that  *)
(* sound_fill has read has been heard once or waits in exactly one buffer. *)
Conserved ==
    \A e \in Entries :
        entry[e].state = "PLAY" =>
            /\ IsInjective(played[e])
            /\ \A b, c \in Waiting(e) : data[b] # 0 /\ data[b] = data[c] => b = c
            /\ Range(played[e]) \cap Content(data, Waiting(e)) = {}
            /\ Range(played[e]) \cup Content(data, Waiting(e)) = 1..entry[e].read

(* spool.h: next_buffer is the "Buffer of audio that will be played next": *)
(* what is heard is the beginning of the sound, in order.                  *)
InOrder == \A e \in Entries : \A i \in 1..Len(played[e]) : played[e][i] = i

(* buffer.c: nbuffers is the "number of buffers on the free list", at      *)
(* least while the main loop is not changing it.                           *)
NbuffersCounts == pc = "idle" => nbuffers = Len(free)

(* Every sound comes to its end and leaves the spool.                      *)
SoundEnds ==
    \A e \in Entries : entry[e].state = "PLAY" ~> entry[e].state = "NULL"

(* The type invariant; the chains are the right length and hold no chunk   *)
(* that the sound does not have.                                           *)
TypeOK ==
    /\ free \in Seq(Buffers) /\ chain \in Seq(Buffers)
    /\ Len(chain) <= 2 * Chain
    /\ nbuffers \in -Width..(Width - 1)
    /\ data \in [Buffers -> 0..Chunks]
    /\ \A e \in Entries :
        /\ entry[e].state \in {"NULL", "PLAY", "NEXT"}
        /\ entry[e].si \in {"null", "open", "eof"}
        /\ entry[e].read \in 0..Chunks
        /\ entry[e].curr \in Seq(Buffers) /\ entry[e].next \in Seq(Buffers)
        /\ Len(entry[e].curr) <= Chain /\ Len(entry[e].next) <= Chain
        /\ played[e] \in Seq(1..Chunks)
    /\ needs_update \in BOOLEAN
    /\ pc \in {"idle", "next", "visit", "create", "count", "uncount", "head",
              "unlink", "created", "fill", "place", "store", "more", "recount",
              "link", "linked"}
    /\ cur \in Entries \cup {Reply}
    /\ todo \subseteq Entries

=============================================================================
