------------------------------ MODULE Request ------------------------------
(***************************************************************************)
(* RPLAY requests: the object a client builds with rplay_create, rplay_set *)
(* and rplay_destroy, the packet rplay_pack makes of it, and what          *)
(* rplay_unpack makes of the packet in rplayd (librplay/rplay.c).          *)
(*                                                                         *)
(* The list of sounds is a linked list with a pointer to its last link;    *)
(* a packet is a sequence of bytes.  One attribute stands for all of its   *)
(* width and place: sound for the strings, count and the volumes for the   *)
(* bytes, and sample_rate for the longs of a sound; LIST_COUNT and ID for  *)
(* those of the list.                                                      *)
(*                                                                         *)
(* A definition D_Word next to D is D with a plausible mistake in it, which*)
(* no definition uses.                                                     *)
(***************************************************************************)
EXTENDS Integers, Sequences, FiniteSets, SequencesExt

CONSTANTS
    Attrs,            \* attributes given to a sound; names are bytes, not 0
    Counts, Ids,      \* values of list_count and of id
    Indices,          \* positions given to rplay_set
    LongSize,         \* sizeof(unsigned long), of sender and receiver
    COPY_SIZE, MAX_PACKET,
    OldPackets,       \* rplay 2.0 requests: sequences of sounds and volumes
    MaxSounds         \* bound: sounds that are ever made

ASSUME SizeAssumption == LongSize \in {4, 8} /\ {COPY_SIZE, MAX_PACKET} \subseteq Nat \ {0}
ASSUME AttrsAssumption ==
    \A a \in Attrs : a.sound \in Seq(1..255) /\ a.volume \in Seq(0..255) /\ Len(a.volume) = 2

RPLAY_NULL == 0
RPLAY_PLAY == 1
RPLAY_SOUND == 5
RPLAY_VOLUME == 6
RPLAY_COUNT == 13
RPLAY_LEFT_VOLUME == 32
RPLAY_RIGHT_VOLUME == 33
RPLAY_LIST_COUNT == 14
RPLAY_SAMPLE_RATE == 22
RPLAY_ID == 28
RPLAY_PACKET_ID == 30

VARIABLES
    attrs,            \* rp->attrs: the first sound, or 0
    attrsp,           \* rp->attrsp: 0 is &rp->attrs, n is the link of sound n
    next, val,        \* of each sound: its link and its attributes
    nsounds,
    list,             \* count, id and random_sound
    used,             \* sounds made so far
    buf, size,        \* the packet, and rp->size
    result,           \* of the last rplay_set
    sent,             \* the packet that was just written to a socket, or empty
    asked,            \* history: the sounds that it is to play
    meant,            \* history: the list the calls ask for
    before            \* history: was a sound put before the first one?

vars == <<attrs, attrsp, next, val, nsounds, list, used, buf, size, result, sent,
          asked, meant, before>>

Sounds == 1..MaxSounds
RPLAY_DEFAULT_VOLUME == 127
rplay_attrs_create ==
    [sound |-> <<>>, volume |-> <<RPLAY_DEFAULT_VOLUME, RPLAY_DEFAULT_VOLUME>>,
     count |-> 1, rate |-> 0]
NoList == [count |-> 1, id |-> 0, random |-> -1]

-----------------------------------------------------------------------------
(* rplay_pack.                                                             *)

(* Numbers in network order.  A long of 8 bytes is htonl of its lower half.*)
IntBytes(v) == <<0, 0, v \div 256, v % 256>>
LongBytes(v) == IntBytes(v) \o [i \in 1..(LongSize - 4) |-> 0]
Byte(v) == <<v % 256>>
String(s) == s \o <<0>>
If(test, fields) == IF test THEN fields ELSE <<>>

(* What rplay_pack copies, in this order, for the list and for a sound.    *)
ListFields(l) ==
    <<<<RPLAY_PACKET_ID>>, <<RPLAY_PLAY>>>>
    \o If(l.count # 1, <<<<RPLAY_LIST_COUNT>>, Byte(l.count)>>)
    \o If(l.id # 0, <<<<RPLAY_ID>>, LongBytes(l.id)>>)
SoundFields(a) ==
    If(a.sound # <<>>, <<<<RPLAY_SOUND>>, String(a.sound)>>)
    \o If(a.volume[1] # RPLAY_DEFAULT_VOLUME, <<<<RPLAY_LEFT_VOLUME>>, Byte(a.volume[1])>>)
    \o If(a.volume[2] # RPLAY_DEFAULT_VOLUME, <<<<RPLAY_RIGHT_VOLUME>>, Byte(a.volume[2])>>)
    \o If(a.count # 1, <<<<RPLAY_COUNT>>, Byte(a.count)>>)
    \o If(a.rate # 0, <<<<RPLAY_SAMPLE_RATE>>, LongBytes(a.rate)>>)
    \o <<<<RPLAY_NULL>>>>

(* The sounds that are packed: all, or the one chosen at random.           *)
Chosen(l, s) ==
    IF l.random = -1 THEN s ELSE IF l.random < Len(s) THEN <<s[l.random + 1]>> ELSE <<>>
Fields(l, s) ==
    ListFields(l)
    \o FlattenSeq([i \in DOMAIN Chosen(l, s) |-> SoundFields(Chosen(l, s)[i])])
    \o If(s = <<>>, <<<<RPLAY_NULL>>>>) \o <<<<RPLAY_NULL>>>>

(* COPY: rp->size grows by COPY_SIZE until the field fits, and the buffer  *)
(* with it, unless the packet gets too long.                               *)
Grown(n, sz) == IF n <= sz THEN sz ELSE sz + COPY_SIZE * ((n - sz + COPY_SIZE - 1) \div COPY_SIZE)
FirstOver(sz) == sz + COPY_SIZE * (((MAX_PACKET - sz) \div COPY_SIZE) + 1)
COPY(p, f) ==
    LET n == Len(p.buf) + Len(f)
        sz == Grown(n, p.size)
    IN IF ~p.ok THEN p
       ELSE IF sz > MAX_PACKET /\ n > p.size
            THEN [p EXCEPT !.ok = FALSE, !.size = FirstOver(@)]
            ELSE [p EXCEPT !.buf = @ \o f, !.size = sz]
rplay_pack(l, s) ==
    FoldLeft(COPY, [buf |-> <<>>, size |-> size, ok |-> TRUE], Fields(l, s))

-----------------------------------------------------------------------------
(* rplay_unpack, byte by byte.  at: the attribute whose value is read, "?" *)
(* when the next byte is an attribute, "end?" after a RPLAY_NULL; value    *)
(* and left: what was read of it, and how much is to come (-1: a string).  *)
Start == [sounds |-> <<>>, curr |-> rplay_attrs_create, count |-> 1, id |-> 0,
          at |-> "header", value |-> <<>>, left |-> 2, over |-> FALSE, bad |-> FALSE]

Attribute(u, b) ==
    LET read(what, n) == [u EXCEPT !.at = what, !.value = <<>>, !.left = n]
    IN CASE b = RPLAY_NULL -> [u EXCEPT !.sounds = Append(@, u.curr), !.at = "end?"]
         [] b = RPLAY_SOUND -> read("sound", -1)
         [] b = RPLAY_VOLUME -> read("volume", 1)
         [] b = RPLAY_LEFT_VOLUME -> read("left", 1)
         [] b = RPLAY_RIGHT_VOLUME -> read("right", 1)
         [] b = RPLAY_COUNT -> read("count", 1)
         [] b = RPLAY_LIST_COUNT -> read("list_count", 1)
         [] b = RPLAY_SAMPLE_RATE -> read("rate", LongSize)
         [] b = RPLAY_ID -> read("id", 4)
         [] OTHER -> [u EXCEPT !.bad = TRUE]

Number(bytes) == bytes[3] * 256 + bytes[4]
Assigned(u, value) ==
    LET v == [u EXCEPT !.at = "?"]
    IN CASE u.at = "sound" -> [v EXCEPT !.curr.sound = value]
         [] u.at = "volume" -> [v EXCEPT !.curr.volume = value \o value]
         [] u.at = "left" -> [v EXCEPT !.curr.volume[1] = value[1]]
         [] u.at = "right" -> [v EXCEPT !.curr.volume[2] = value[1]]
         [] u.at = "count" -> [v EXCEPT !.curr.count = value[1]]
         [] u.at = "list_count" -> [v EXCEPT !.count = value[1]]
         [] u.at = "rate" -> [v EXCEPT !.curr.rate = Number(value)]
         [] u.at = "id" -> [v EXCEPT !.id = Number(value)]
         [] OTHER -> v

Value(u, b) ==
    IF u.left = -1
    THEN IF b = 0 THEN Assigned(u, u.value) ELSE [u EXCEPT !.value = Append(@, b)]
    ELSE IF u.left = 1 THEN Assigned(u, Append(u.value, b))
         ELSE [u EXCEPT !.value = Append(@, b), !.left = @ - 1]

NextByte_KeepsAttrs(u, b) ==
    CASE u.over \/ u.bad -> u
      [] u.at = "end?" /\ b = RPLAY_NULL -> [u EXCEPT !.over = TRUE]
      [] u.at = "end?" /\ b # RPLAY_NULL -> Attribute(u, b)
      [] u.at = "?" -> Attribute(u, b)
      [] OTHER -> Value(u, b)
NextByte(u, b) ==
    CASE u.over \/ u.bad -> u
      [] u.at = "end?" /\ b = RPLAY_NULL -> [u EXCEPT !.over = TRUE]
      [] u.at = "end?" /\ b # RPLAY_NULL ->
            Attribute([u EXCEPT !.curr = rplay_attrs_create], b)
      [] u.at = "?" -> Attribute(u, b)
      [] OTHER -> Value(u, b)

(* ~over at the end: the packet is read past its end.                      *)
rplay_unpack(packet) ==
    LET u == FoldLeft(NextByte, Start, packet)
    IN [sounds |-> u.sounds, count |-> u.count, id |-> u.id, ok |-> u.over]

(* rplay_convert: a 2.0 packet is made into a new one.                     *)
rplay_convert(old) ==
    <<RPLAY_PACKET_ID, RPLAY_PLAY>>
    \o FlattenSeq([i \in DOMAIN old |-> <<RPLAY_SOUND>> \o String(old[i].sound)
                                        \o <<RPLAY_VOLUME, old[i].volume, RPLAY_NULL>>])
    \o <<RPLAY_NULL>>

-----------------------------------------------------------------------------
(* rplay_set.                                                              *)

(* The sound k links from the first one, and the one before it.            *)
Walk(k) ==
    FoldLeft(LAMBDA w, i : IF w.curr = 0 THEN w
                           ELSE [curr |-> next[w.curr], prev |-> w.curr, k |-> w.k + 1],
             [curr |-> attrs, prev |-> 0, k |-> 0], [i \in 1..k |-> i])

(* The list as a sequence.                                                 *)
AsSeq(first, links, values) ==
    LET from[k \in 0..MaxSounds] ==
            IF k = 0 THEN <<first>>
            ELSE IF Last(from[k - 1]) = 0 THEN from[k - 1]
                 ELSE Append(from[k - 1], links[Last(from[k - 1])])
        nodes == Front(from[MaxSounds])
    IN [i \in DOMAIN nodes |-> values[nodes[i]]]

(* The end of rplay_set: the packet is made anew.  A list that has become  *)
(* a circle fills any packet.                                              *)
Packed(first, links, values, l) ==
    LET p == rplay_pack(l, AsSeq(first, links, values))
    IN /\ buf' = p.buf /\ size' = p.size
       /\ result' = IF p.ok THEN 0 ELSE -1
       /\ sent' = <<>> /\ asked' = <<>>
Fails ==
    /\ result' = -1 /\ sent' = <<>> /\ asked' = <<>>
    /\ UNCHANGED <<attrs, attrsp, next, val, nsounds, list, used, buf, size, meant, before>>

(* RPLAY_APPEND.                                                           *)
AppendSound_Lost(a) ==
    /\ used < MaxSounds /\ ~before
    /\ LET n == used + 1
       IN /\ attrs' = IF attrsp = 0 THEN n ELSE attrs
          /\ next' = [next EXCEPT ![n] = 0]
          /\ attrsp' = n
          /\ val' = [val EXCEPT ![n] = a]
          /\ used' = n /\ nsounds' = nsounds + 1
          /\ meant' = Append(meant, a)
          /\ Packed(attrs', next', val', list)
    /\ UNCHANGED <<list, before>>
AppendSound(a) ==
    /\ used < MaxSounds /\ ~before
    /\ LET n == used + 1
       IN /\ attrs' = IF attrsp = 0 THEN n ELSE attrs
          /\ next' = [m \in Sounds |-> IF m = n THEN 0 ELSE IF m = attrsp THEN n ELSE next[m]]
          /\ attrsp' = n
          /\ val' = [val EXCEPT ![n] = a]
          /\ used' = n /\ nsounds' = nsounds + 1
          /\ meant' = Append(meant, a)
          /\ Packed(attrs', next', val', list)
    /\ UNCHANGED <<list, before>>

(* RPLAY_INSERT at k.  Before the first sound of a list that has some, the *)
(* new sound is linked to the last one instead.                            *)
InsertSound(k, a) ==
    /\ used < MaxSounds /\ ~before
    /\ LET w == Walk(k)
           n == used + 1
           into == IF w.prev # 0 THEN w.prev ELSE attrsp
       IN IF k < 0 \/ (w.curr = 0 /\ w.k # k) THEN Fails
          ELSE /\ attrs' = IF into = 0 THEN n ELSE attrs
               /\ next' = [m \in Sounds |-> IF m = n THEN w.curr
                                            ELSE IF m = into THEN n ELSE next[m]]
               /\ attrsp' = IF w.curr = 0 THEN n ELSE attrsp
               /\ val' = [val EXCEPT ![n] = a]
               /\ used' = n /\ nsounds' = nsounds + 1
               /\ meant' = InsertAt(meant, k + 1, a)
               /\ before' = (w.prev = 0 /\ attrs # 0)
               /\ IF before' THEN /\ result' = -1 /\ sent' = <<>> /\ asked' = <<>>
                                  /\ UNCHANGED <<buf, size>>
                  ELSE Packed(attrs', next', val', list)
    /\ UNCHANGED list

(* RPLAY_DELETE at k.                                                      *)
DeleteSound(k) ==
    /\ ~before
    /\ LET w == Walk(k)
       IN IF k < 0 \/ w.curr = 0 THEN Fails
          ELSE /\ attrs' = IF w.prev = 0 THEN next[w.curr] ELSE attrs
               /\ next' = [m \in Sounds |-> IF m = w.prev THEN next[w.curr]
                                            ELSE IF m = w.curr THEN 0 ELSE next[m]]
               /\ attrsp' = IF next[w.curr] = 0 THEN w.prev ELSE attrsp
               /\ val' = [val EXCEPT ![w.curr] = rplay_attrs_create] /\ UNCHANGED used
               /\ nsounds' = nsounds - 1 /\ meant' = RemoveAt(meant, k + 1)
               /\ Packed(attrs', next', val', list)
    /\ UNCHANGED <<list, before>>

(* RPLAY_CHANGE at k.                                                      *)
ChangeSound(k, a) ==
    /\ ~before
    /\ LET w == Walk(k)
       IN IF k < 0 \/ w.curr = 0 THEN Fails
          ELSE /\ val' = [val EXCEPT ![w.curr] = a]
               /\ meant' = [meant EXCEPT ![k + 1] = a]
               /\ Packed(attrs, next, val', list)
               /\ UNCHANGED <<attrs, attrsp, next, nsounds, used>>
    /\ UNCHANGED <<list, before>>

(* RPLAY_LIST_COUNT, RPLAY_ID and RPLAY_RANDOM_SOUND.                      *)
SetList ==
    /\ ~before
    /\ \/ \E c \in Counts : list' = [list EXCEPT !.count = c]
       \/ \E i \in Ids : list' = [list EXCEPT !.id = i]
       \/ nsounds > 0 /\ \E r \in 0..(nsounds - 1) : list' = [list EXCEPT !.random = r]
    /\ Packed(attrs, next, val, list')
    /\ UNCHANGED <<attrs, attrsp, next, val, nsounds, used, meant, before>>

(* An attribute that rplay_set does not know (RPLAY_ERROR_ATTRIBUTE): the  *)
(* sound stays in the list with what was set of it, the packet as it was.  *)
AppendRefused ==
    /\ used < MaxSounds /\ ~before
    /\ LET n == used + 1
       IN /\ attrs' = IF attrsp = 0 THEN n ELSE attrs
          /\ next' = [m \in Sounds |-> IF m = n THEN 0 ELSE IF m = attrsp THEN n ELSE next[m]]
          /\ attrsp' = n /\ used' = n /\ nsounds' = nsounds + 1
          /\ meant' = Append(meant, rplay_attrs_create)
          /\ result' = -1 /\ sent' = <<>> /\ asked' = <<>>
    /\ UNCHANGED <<val, list, buf, size, before>>

(* Numbers are cut to a byte on their way; a list of no sounds arrives as  *)
(* one sound without a name.                                               *)
Cut(a) == [a EXCEPT !.count = @ % 256]
Heard(l, s) == IF s = <<>> THEN <<rplay_attrs_create>>
               ELSE [i \in DOMAIN Chosen(l, s) |-> Cut(Chosen(l, s)[i])]

Sends(packet, sounds) ==
    /\ sent' = packet /\ asked' = sounds
    /\ UNCHANGED <<attrs, attrsp, next, val, nsounds, list, used, buf, size, result,
                   meant, before>>

(* rplay: the packet of the last rplay_set, if it was made.                *)
rplay == sent = <<>> /\ result = 0 /\ Sends(buf, Heard(list, meant))

(* rplay_host, rplay_sound and rplay_host_volume: a request of one sound   *)
(* that is made, sent and destroyed.                                       *)
One(a) == [sound |-> a.sound, volume |-> a.volume, count |-> 1, rate |-> 0]
rplay_host_volume(a) ==
    /\ used = 0 /\ sent = <<>>
    /\ LET p == FoldLeft(COPY, [buf |-> <<>>, size |-> 0, ok |-> TRUE],
                         Fields(NoList, <<One(a)>>))
       IN p.ok /\ Sends(p.buf, <<One(a)>>)

(* rplayd_read makes a packet of rplay 2.0 into one of today.              *)
OldClient(old) ==
    /\ used = 0 /\ sent = <<>>
    /\ Sends(rplay_convert(old),
             [i \in DOMAIN old |-> [rplay_attrs_create EXCEPT
                 !.sound = old[i].sound, !.volume = <<old[i].volume, old[i].volume>>]])

(* rplay_create.                                                           *)
Init ==
    /\ attrs = 0 /\ attrsp = 0 /\ nsounds = 0 /\ used = 0
    /\ next = [n \in Sounds |-> 0] /\ val = [n \in Sounds |-> rplay_attrs_create]
    /\ list = NoList
    /\ buf = <<>> /\ size = 0
    /\ result = -1 /\ sent = <<>> /\ asked = <<>> /\ meant = <<>>
    /\ before = FALSE

Next ==
    \/ \E a \in Attrs : AppendSound(a)
    \/ \E k \in Indices, a \in Attrs : InsertSound(k, a)
    \/ \E k \in Indices, a \in Attrs : ChangeSound(k, a)
    \/ \E k \in Indices : DeleteSound(k)
    \/ AppendRefused
    \/ SetList
    \/ rplay
    \/ \E a \in Attrs : rplay_host_volume(a)
    \/ \E old \in OldPackets : OldClient(old)

Spec == Init /\ [][Next]_vars

-----------------------------------------------------------------------------
(* Types of the variables.                                                 *)
TypeOK ==
    /\ attrs \in 0..MaxSounds /\ attrsp \in 0..MaxSounds /\ used \in 0..MaxSounds
    /\ next \in [Sounds -> 0..MaxSounds] /\ nsounds \in Nat
    /\ val \in [Sounds -> Attrs \cup {rplay_attrs_create}]
    /\ list \in [count : Counts \cup {1}, id : Ids \cup {0}, random : Int]
    /\ buf \in Seq(0..255) /\ size \in Nat
    /\ result \in {0, -1} /\ meant \in Seq(Attrs \cup {rplay_attrs_create})
    /\ sent \in Seq(0..255) /\ Len(asked) <= Len(sent)
    /\ before \in BOOLEAN

(* The linked list is the list that the calls ask for, and the pointer to  *)
(* its end is right, as long as nothing is put before the first sound.     *)
ListIsMeant ==
    ~before => /\ AsSeq(attrs, next, val) = meant /\ nsounds = Len(meant)
               /\ attrsp # 0 <=> meant # <<>>
               /\ attrsp # 0 => next[attrsp] = 0

(* rplayd unpacks the sounds that the client asks for, from any packet:    *)
(* that of a request built by any calls, of a shortcut and of rplay 2.0.   *)
(* Except: a sound without attributes after the first one looks like the   *)
(* end of the packet; nothing ends the packet when the sound chosen at     *)
(* random has been deleted; of an id, 4 of the 8 bytes of a long are read. *)
Readable ==
    /\ \A i \in 2..Len(asked) : asked[i] # rplay_attrs_create
    /\ (list.random = -1 \/ list.random < Len(meant))
    /\ LongSize = 4 \/ list.id = 0
Arrives ==
    sent # <<>> /\ Readable =>
        LET u == rplay_unpack(sent)
        IN u.ok /\ u.sounds = asked
           /\ (sent = buf => u.count = list.count % 256 /\ u.id = list.id)

=============================================================================
