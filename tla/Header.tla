------------------------------- MODULE Header -------------------------------
(***************************************************************************)
(* What sound_map of sound.c makes of the first bytes of a sound.          *)
(*                                                                         *)
(* The contents of a sound are a record: its magic, and the fields of the  *)
(* header that the code reads.  The scan over the chunks of AIFF and wave  *)
(* files and over the blocks of voc files is left out, what is in the      *)
(* chunks that count is there.  Precisions are in hundredths of a bit,     *)
(* since GSM has 1.65.                                                     *)
(***************************************************************************)
EXTENDS Integers

(* The audio parameters of a SOUND, unset.                                 *)
NoPar == [offset |-> 0, format |-> "none", byte_order |-> "none", sample_rate |-> 0,
          input_precision |-> 0, output_precision |-> 0, channels |-> 0]

(* ok: the header was understood; chunk: sound_chunk_size                  *)
Parsed(par, chunk) == [ok |-> TRUE, par |-> par, chunk |-> chunk]
Refused(par) == [ok |-> FALSE, par |-> par, chunk |-> 0]

ULAW_HDRSIZE == 24

(* format and precisions of the encodings of a .snd header                 *)
SndEncodings ==
    [ULAW_MULAW_8   |-> <<"ULAW", 800, 800>>,
     ULAW_LINEAR_8  |-> <<"LINEAR_8", 800, 800>>,
     ULAW_LINEAR_16 |-> <<"LINEAR_16", 1600, 1600>>,
     ULAW_G721      |-> <<"G721", 400, 1600>>,
     ULAW_G723_3    |-> <<"G723_3", 300, 1600>>,
     ULAW_G723_5    |-> <<"G723_5", 500, 1600>>]

(* data is the size of the audio in the header, -1 if it is not known.     *)
Snd(c, size, old) ==
    IF c.hdr < ULAW_HDRSIZE \/ c.enc \notin DOMAIN SndEncodings THEN Refused(old)
    ELSE LET f == SndEncodings[c.enc]
         IN  Parsed([offset |-> c.hdr, format |-> f[1], byte_order |-> "big",
                     sample_rate |-> c.rate, input_precision |-> f[2],
                     output_precision |-> f[3], channels |-> c.chan],
                    IF c.data = -1 THEN size - c.hdr ELSE c.data)

(* Files with a precision of 8 or 16 bits, whose formats are given.        *)
Plain(c, order, eight, sixteen, old) ==
    LET par == [old EXCEPT !.offset = c.hdr, !.byte_order = order, !.sample_rate = c.rate,
                           !.input_precision = 100 * c.bits, !.output_precision = 100 * c.bits,
                           !.channels = c.chan]
    IN  CASE c.bits = 8  -> Parsed([par EXCEPT !.format = eight], c.data)
          [] c.bits = 16 -> Parsed([par EXCEPT !.format = sixteen], c.data)
          [] OTHER -> Refused(par)

Aiff(c, old) == Plain(c, "big", "LINEAR_8", "LINEAR_16", old)
Deadsnd(c, old) == Plain([c EXCEPT !.data = 0], "little", "ULINEAR_8", "LINEAR_16", old)
Wave(c, old) == Plain(c, "little", "ULINEAR_8", "LINEAR_16", old)
Voc(c, old) == Plain([c EXCEPT !.data = 0], "little", "ULINEAR_8", "ULINEAR_16", old)

GsmPar == [offset |-> 0, format |-> "GSM", byte_order |-> "big", sample_rate |-> 8000,
           input_precision |-> 165, output_precision |-> 1600, channels |-> 1]

(* Without a header the extension of the file decides, and then what the   *)
(* client said: given holds unless none of the saved parameters is set.    *)
ByExtension ==
    [ub  |-> [offset |-> 0, format |-> "ULINEAR_8", byte_order |-> "big", sample_rate |-> 11025,
              input_precision |-> 800, output_precision |-> 800, channels |-> 1],
     au  |-> [offset |-> 0, format |-> "ULAW", byte_order |-> "big", sample_rate |-> 8000,
              input_precision |-> 800, output_precision |-> 800, channels |-> 1],
     gsm |-> GsmPar]
Raw(c, old) ==
    IF c.ext \in DOMAIN ByExtension THEN Parsed(ByExtension[c.ext], 0)
    ELSE IF \E f \in {"format", "byte_order", "sample_rate", "input_precision", "channels"} :
               old[f] # NoPar[f]
         THEN Parsed(old, 0) ELSE Refused(old)

Recognised(c, size, old) ==
    CASE c.magic = "snd"     -> Snd(c, size, old)
      [] c.magic = "aiff"    -> Aiff(c, old)
      [] c.magic = "deadsnd" -> Deadsnd(c, old)
      [] c.magic = "wave"    -> Wave(c, old)
      [] c.magic = "voc"     -> Voc(c, old)
      [] c.magic = "gsm"     -> Parsed(GsmPar, 0)
      [] c.magic = "raw"     -> Raw(c, old)

(* The saved parameters of the sound come before those of the header.      *)
Overridden(par, old) == [f \in DOMAIN NoPar |-> IF old[f] # NoPar[f] THEN old[f] ELSE par[f]]

FixedUp(par) ==
    CASE par.format \in {"G721", "G723_3", "G723_5"} -> [par EXCEPT !.output_precision = 1600]
      [] par.format = "GSM" -> [GsmPar EXCEPT !.sample_rate = par.sample_rate]
      [] OTHER -> par

Complete(par) == \A f \in DOMAIN NoPar \ {"offset"} : par[f] # NoPar[f]

(* chunk_size and tail of a sound of which they were old, see sound_map    *)
Chunk(found, size, offset, old) ==
    LET given == IF found > 0 /\ (size = 0 \/ found < size) THEN found ELSE old.chunk_size
    IN  [tail |-> IF given # 0 THEN offset + given ELSE old.tail,
         chunk_size |-> IF given = 0 /\ size # 0 THEN size - offset ELSE given]

(* bytes_in_sound                                                          *)
Bytes(chunk, size, offset) ==
    IF chunk.chunk_size # 0 THEN chunk.chunk_size
    ELSE IF chunk.tail # 0 THEN chunk.tail - offset
    ELSE IF size # 0 THEN size - offset ELSE 0

(* number_of_samples: precision in bits                                    *)
number_of_samples(bytes, par) ==
    (bytes * 800) \div (par.input_precision * par.channels)
=============================================================================
