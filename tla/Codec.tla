------------------------------- MODULE Codec -------------------------------
(***************************************************************************)
(* Compressed sounds, from the programs that make them to the samples that *)
(* rplayd plays.  A job is one of two:                                     *)
(*                                                                         *)
(*   adpcm   g72xencode (adpcm/encode.c) codes samples and writes packed   *)
(*           bytes down a pipe; they are read meanwhile by rplayd, in a    *)
(*           flow and in pieces of any size (sound_fill and adpcm_decode), *)
(*           or by g72xdecode (adpcm/decode.c);                            *)
(*   gsm     toast replaces a file of samples by one of GSM frames and     *)
(*           untoast replaces that by samples again, each removing what it *)
(*           read; rplayd plays the file of frames.  Reads and writes fail *)
(*           and signals arrive at any point.                              *)
(*                                                                         *)
(* The arithmetic is in Adpcm and Gsm.                                     *)
(***************************************************************************)
EXTENDS Adpcm, Gsm, SequencesExt

CONSTANTS
    Coders,         \* those of g721, g723_24 and g723_40 in use
    Waves,          \* the signals to code, in 16 bits
    Sizes,          \* how many bytes may arrive at once
    PipeSize,       \* how far the encoder may run ahead of the reader
    BUFFER_SIZE,    \* of the buffers that sound_fill fills
    Frames,         \* the samples toast is given, at most 160 at a time
    Ltps,           \* the lags and gains the coder may find
    Options,        \* the options toast and untoast are run with
    Runs            \* how many times a program is run

ASSUME CodecAssumption ==
    /\ Coders \subseteq {g721, g723_24, g723_40}
    /\ \A w \in Waves : \A i \in DOMAIN w : w[i] \in -32768..32767
    /\ PipeSize \in Nat \ {0} /\ Sizes \subseteq Nat \ {0}
    /\ BUFFER_SIZE \in Nat /\ BUFFER_SIZE % 16 = 0
    /\ \A i \in DOMAIN Frames : Len(Frames[i]) <= 160
    /\ Runs \in Nat
    /\ \A l \in Ltps : l.Nc \in 40..120 /\ l.bc \in 0..3
    /\ Options \subseteq [format : {"u-law", "A-law", "linear", "audio"},
                           f_force : BOOLEAN, f_precious : BOOLEAN]

VARIABLES
    job,        \* what is to be done
    enc,        \* g72xencode: its state, the bits not yet written, and n
    pipe,       \* the bytes written and not read yet
    dec,        \* the reader: its state, the bits not yet used, codes decoded
    out,        \* the buffers that the last read filled
    coded,      \* for the properties: the signal that each code stands for
    file,       \* the .gsm file: whether it exists, and its frames
    plain,      \* the plain file: whether it exists, and how many frames
                \* of samples it holds
    pc,         \* where toast, untoast or rplayd is
    S,          \* the GSM state of the program that is running
    work,       \* the frame it works on
    lost        \* for the properties: a failed read was taken for the end

adpcm == <<enc, pipe, dec, out, coded>>
files == <<file, plain>>
gsm == <<files, pc, S, work, lost>>
vars == <<job, adpcm, gsm>>

---------------------------------------------------------------------------
(* g72xencode *)

Bits == job.k.bits

(* The sample as the encoder reads it.                                     *)
Input(wave, n) ==
    CASE job.coding = "ULAW" -> linear2ulaw(wave[n])
      [] job.coding = "ALAW" -> linear2alaw(wave[n])
      [] job.coding = "LINEAR" -> wave[n]

(* Bytes are filled from the low end; at most one is complete at a time.   *)
pack_output(code) ==
    LET buffer == enc.buffer + code * 2^enc.bits
        bits == enc.bits + Bits
    IN  IF bits >= 8
        THEN [buffer |-> buffer \div 256, bits |-> bits - 8,
              bytes |-> <<buffer % 256>>]
        ELSE [buffer |-> buffer, bits |-> bits, bytes |-> <<>>]

Encode ==
    /\ job.kind = "adpcm"
    /\ enc.n < Len(job.wave)
    /\ Len(pipe) < PipeSize
    /\ \E e \in {encoder(job.k, Input(job.wave, enc.n + 1), job.coding,
                          enc.st)} :
          LET p == pack_output(e.code)
          IN  /\ enc' = [enc EXCEPT !.st = e.signal.st, !.n = @ + 1,
                                    !.buffer = p.buffer, !.bits = p.bits]
              /\ pipe' = pipe \o p.bytes
              /\ coded' = Append(coded, [code |-> e.code, sr |-> e.signal.sr])
    /\ UNCHANGED <<job, dec, out, gsm>>

(* Zero codes until the last byte is out.                                  *)
Finish ==
    /\ job.kind = "adpcm"
    /\ enc.n = Len(job.wave)
    /\ enc.bits > 0
    /\ Len(pipe) < PipeSize
    /\ LET p == pack_output(0)
       IN  /\ enc' = [enc EXCEPT !.buffer = p.buffer, !.bits = p.bits]
           /\ pipe' = pipe \o p.bytes
    /\ UNCHANGED <<job, dec, out, coded, gsm>>

---------------------------------------------------------------------------
(* The readers *)

(* The next code of the bytes b, for a reader left with d.                 *)
Unpacked(d, b, buffer, bits) ==
    [code |-> buffer % 2^Bits, b |-> b,
     d |-> [d EXCEPT !.buffer = buffer \div 2^Bits, !.bits = bits - Bits]]
adpcm_unpack(d, b) ==
    IF d.bits < Bits
    THEN Unpacked(d, Tail(b), d.buffer + b[1] * 2^d.bits, d.bits + 8)
    ELSE Unpacked(d, b, d.buffer, d.bits)

(* One code decoded, and one buffer of bytes.                              *)
Played(u, st, r) ==
    [d |-> [u.d EXCEPT !.st = r.st, !.n = @ + 1], b |-> u.b,
     sample |-> [sample |-> r.sample, code |-> u.code, st |-> st]]
PlayedOf(u, st, coding) ==
    Played(u, st, decoder(job.k, u.code, coding, st))
Decoded(d, bytes, coding) ==
    LET RECURSIVE loop(_, _)
        loop(p, samples) ==
            IF p.d.bits < Bits /\ p.b = <<>>
            THEN [d |-> p.d, samples |-> samples]
            ELSE LET q == PlayedOf(adpcm_unpack(p.d, p.b), p.d.st, coding)
                 IN  loop(q, Append(samples, q.sample))
    IN  loop([d |-> d, b |-> bytes], <<>>)

adpcm_decode_DropsBits(d, data, coding) ==
    FoldLeft(LAMBDA acc, bytes :
                 LET r == Decoded([acc.d EXCEPT !.buffer = 0, !.bits = 0],
                                  bytes, coding)
                 IN  [d |-> r.d, out |-> Append(acc.out, r.samples)],
             [d |-> d, out |-> <<>>], data)
(* Every buffer in turn; the bits left over go to the next one.            *)
adpcm_decode(d, data, coding) ==
    FoldLeft(LAMBDA acc, bytes :
                 LET r == Decoded(acc.d, bytes, coding)
                 IN  [d |-> r.d, out |-> Append(acc.out, r.samples)],
             [d |-> d, out |-> <<>>], data)

(* As much as 16-bit samples made of it will fit in a buffer.              *)
max_per_buffer == (BUFFER_SIZE * Bits) \div 16

Buffers(bytes) ==
    IF Len(bytes) <= max_per_buffer THEN <<bytes>>
    ELSE <<SubSeq(bytes, 1, max_per_buffer),
           SubSeq(bytes, max_per_buffer + 1, Len(bytes))>>

Read(n, data, coding) ==
    LET r == adpcm_decode(dec, data, coding)
    IN  /\ dec' = r.d
        /\ out' = r.out
        /\ pipe' = SubSeq(pipe, n + 1, Len(pipe))
        /\ UNCHANGED <<job, enc, coded, gsm>>

(* rplayd: two buffers at most are asked for.                              *)
Fill ==
    /\ job.kind = "adpcm" /\ job.reader = "rplayd"
    /\ \E n \in Sizes :
          /\ n <= Len(pipe) /\ n <= 2 * max_per_buffer
          /\ Read(n, Buffers(SubSeq(pipe, 1, n)), "LINEAR")

(* g72xdecode: byte by byte, in the coding that was coded.                 *)
Decode ==
    /\ job.kind = "adpcm" /\ job.reader = "g72xdecode"
    /\ pipe # <<>>
    /\ Read(1, <<SubSeq(pipe, 1, 1)>>, job.coding)

---------------------------------------------------------------------------
(* toast, untoast and rplayd on GSM files *)

program == job.program
decoding == program # "toast"

(* The file that the program reads and the one it writes.                  *)
Source == IF decoding THEN file ELSE plain
Target == IF decoding THEN plain ELSE file

Gone(f) == [f EXCEPT !.there = FALSE]
RemoveTarget ==
    IF decoding THEN plain' = Gone(plain) /\ UNCHANGED file
                ELSE file' = Gone(file) /\ UNCHANGED plain
RemoveSource ==
    IF decoding THEN file' = Gone(file) /\ UNCHANGED plain
                ELSE plain' = Gone(plain) /\ UNCHANGED file

(* The user runs a program, the source and the target being what they are. *)
Start ==
    /\ job.kind = "gsm" /\ job.runs < Runs /\ pc = "exit"
    /\ \E p \in {"toast", "untoast", "rplayd"} :
          job' = [job EXCEPT !.runs = @ + 1, !.program = p]
    /\ pc' = "start"
    /\ UNCHANGED <<adpcm, files, S, work, lost>>

(* open_input and open_output.  A target that exists is replaced only with *)
(* -f; without it, the program gives up.                                   *)
Open ==
    /\ pc = "start"
    /\ Source.there
    /\ CASE program = "rplayd" -> UNCHANGED files /\ pc' = "code"
         [] program = "toast" ->
                /\ ~file.there \/ job.f_force
                /\ file' = [there |-> TRUE, frames |-> <<>>]
                /\ pc' = "opened" /\ UNCHANGED plain
         [] program = "untoast" ->
                /\ ~plain.there \/ job.f_force
                /\ plain' = [there |-> TRUE, n |-> 0]
                /\ pc' = "opened" /\ UNCHANGED file
    /\ S' = gsm_create
    /\ work' = [at |-> "next", n |-> 0]
    /\ UNCHANGED <<job, adpcm, lost>>

Refuse ==
    /\ pc = "start"
    /\ ~Source.there \/ (program # "rplayd" /\ Target.there /\ ~job.f_force)
    /\ pc' = "exit"
    /\ UNCHANGED <<job, adpcm, files, S, work, lost>>

(* From here on, onintr knows the name of the target.  The header of an    *)
(* audio file is read or written, which may fail.                          *)
Named == /\ pc = "opened"
         /\ pc' = "code"
         /\ UNCHANGED <<job, adpcm, files, S, work, lost>>

(* `err': the target is removed, the source stays.                         *)
Fail == /\ pc' = "exit"
        /\ RemoveTarget
        /\ UNCHANGED <<job, adpcm, S, work, lost>>

Coding(at) == pc = "code" /\ work.at = at
Works(w) == work' = w /\ UNCHANGED <<job, adpcm, pc, lost>>

(* input(): the last frame is filled up with zeros.                        *)
Padded(s) == s \o Zeros(160 - Len(s))

(* Gsm_Coder, call by call.                                                *)
Preprocess ==
    /\ Coding("next") /\ ~decoding /\ work.n < Len(Frames)
    /\ LET pre == Gsm_Preprocess(S.pre, Padded(Frames[work.n + 1]))
       IN  /\ S' = [S EXCEPT !.pre = pre.st]
           /\ Works([at |-> "lpc", n |-> work.n, s |-> pre.out])
    /\ UNCHANGED files

LPC ==
    /\ Coding("lpc")
    /\ LET acf == Autocorrelation(work.s)
       IN  Works([at |-> "short", n |-> work.n, s |-> acf.s,
                  LARc |-> Gsm_LPC_Analysis(acf.L_ACF)])
    /\ UNCHANGED <<S, files>>

Short_Term_Analysis ==
    /\ Coding("short")
    /\ LET LARpp == Decoding_of_the_coded_Log_Area_Ratios(work.LARc)
           st == Framed(Short_term_analysis_filtering, S.u,
                        RpOf(S.LARpp, LARpp), work.s)
       IN  /\ S' = [S EXCEPT !.u = st.st, !.LARpp = LARpp]
           /\ Works([at |-> "sub", n |-> work.n, d |-> st.out,
                     LARc |-> work.LARc, subs |-> <<>>])
    /\ UNCHANGED files

CodeSub ==
    /\ Coding("sub") /\ Len(work.subs) < 4
    /\ \E ltp \in Ltps :
          LET k == Len(work.subs)
              c == CodedSub(S.dp, SubSeq(work.d, 40 * k + 1, 40 * k + 40), ltp)
          IN  /\ S' = [S EXCEPT !.dp = c.dp]
              /\ Works([work EXCEPT !.subs = Append(@, c.sub)])
    /\ UNCHANGED files

WriteFrame ==
    /\ Coding("sub") /\ Len(work.subs) = 4
    /\ file' = [file EXCEPT !.frames = Append(@,
                   [frame |-> gsm_implode(Params(work.LARc, work.subs)),
                    dp |-> S.dp, LARpp |-> S.LARpp])]
    /\ Works([at |-> "next", n |-> work.n + 1])
    /\ UNCHANGED <<S, plain>>

(* gsm_decode and Gsm_Decoder, call by call.                               *)
ReadFrame ==
    /\ Coding("next") /\ decoding /\ work.n < Len(file.frames)
    /\ LET c == file.frames[work.n + 1].frame
       IN  /\ HasMagic(c)
           /\ Works([at |-> "dsub", n |-> work.n, k |-> 0, wt |-> <<>>,
                     params |-> gsm_explode(c)])
    /\ UNCHANGED <<S, files>>

DecodeSub ==
    /\ Coding("dsub") /\ work.k < 4
    /\ LET lt == DecodedSub(S.nrp, S.dp, Sub(work.params, work.k))
       IN  /\ S' = [S EXCEPT !.dp = lt.dp, !.nrp = lt.nrp]
           /\ Works([work EXCEPT !.k = @ + 1, !.wt = @ \o lt.drp])
    /\ UNCHANGED files

Synthesis ==
    /\ Coding("dsub") /\ work.k = 4
    /\ LET LARpp == Decoding_of_the_coded_Log_Area_Ratios(
                        SubSeq(work.params, 1, 8))
           st == Framed(Short_term_synthesis_filtering, S.v,
                        RpOf(S.LARpp, LARpp), work.wt)
           post == Postprocessing(S.msr, st.out)
       IN  S' = [S EXCEPT !.LARpp = LARpp, !.v = st.st, !.msr = post.st]
    /\ IF program = "untoast" THEN plain' = [plain EXCEPT !.n = @ + 1]
                              ELSE UNCHANGED plain
    /\ Works([at |-> "next", n |-> work.n + 1])
    /\ UNCHANGED file

---------------------------------------------------------------------------
(* The end of process(), and everything that goes wrong *)

(* The loop ends at the end of the input.  A failed read counts as one     *)
(* where fread is used: by linear_input, and by process_decode.            *)
AtEnd == work.n = (IF decoding THEN Len(file.frames) ELSE Len(Frames))
Silent == decoding \/ job.format = "linear"

ReadEnds ==
    /\ Coding("next")
    /\ AtEnd \/ (Silent /\ program # "rplayd")
    /\ lost' = (lost \/ ~AtEnd)
    /\ pc' = IF program = "rplayd" THEN "exit" ELSE "flush"
    /\ UNCHANGED <<job, adpcm, files, S, work>>

ReadFails_AsEnd ==
    /\ Coding("next") /\ ~AtEnd /\ ~Silent
    /\ pc' = "flush"
    /\ UNCHANGED <<job, adpcm, files, S, work, lost>>
ReadFails ==
    /\ Coding("next") /\ ~AtEnd /\ ~Silent
    /\ Fail

(* The header, a frame, the flush: what was written is not all there.      *)
WriteFails ==
    /\ Coding("next") \/ pc = "flush"
    /\ program # "rplayd"
    /\ Fail

Flush == /\ pc = "flush"
         /\ pc' = "closing"
         /\ UNCHANGED <<job, adpcm, files, S, work, lost>>

(* fclose(out) fails: `err' closes it a second time, which may be fatal.   *)
CloseFails ==
    /\ pc = "closing"
    /\ \/ Fail
       \/ pc' = "exit" /\ UNCHANGED <<job, adpcm, files, S, work, lost>>

(* The target is closed and its name forgotten.                            *)
Close == /\ pc = "closing"
         /\ pc' = "closed"
         /\ UNCHANGED <<job, adpcm, files, S, work, lost>>

Unlink ==
    /\ pc = "closed"
    /\ pc' = "exit"
    /\ IF job.f_precious THEN UNCHANGED files ELSE RemoveSource
    /\ UNCHANGED <<job, adpcm, S, work, lost>>

(* onintr: a signal removes the target as long as it has a name.           *)
Signal ==
    /\ pc \in {"opened", "flush", "closing", "closed"} \/ Coding("next")
    /\ program # "rplayd"
    /\ pc' = "exit"
    /\ IF pc \in {"opened", "closed"} THEN UNCHANGED files ELSE RemoveTarget
    /\ UNCHANGED <<job, adpcm, S, work, lost>>

(* A signal that is not caught, or the machine stops.                      *)
Killed ==
    /\ pc \in {"opened", "flush", "closing", "closed"} \/ Coding("next")
    /\ program # "rplayd"
    /\ pc' = "exit"
    /\ UNCHANGED <<job, adpcm, files, S, work, lost>>

---------------------------------------------------------------------------
AdpcmJobs == [kind : {"adpcm"}, k : Coders, wave : Waves,
              coding : {"ULAW", "ALAW", "LINEAR"},
              reader : {"rplayd", "g72xdecode"}]
GsmJobs == {[kind |-> "gsm", program |-> "toast", runs |-> 0] @@ o :
               o \in Options}

Init ==
    /\ job \in AdpcmJobs \cup GsmJobs
    /\ enc = [st |-> g72x_init_state, buffer |-> 0, bits |-> 0, n |-> 0]
    /\ dec = enc
    /\ pipe = <<>> /\ out = <<>> /\ coded = <<>>
    /\ file = [there |-> FALSE, frames |-> <<>>]
    /\ plain = [there |-> TRUE, n |-> Len(Frames)]
    /\ pc = "exit" /\ S = gsm_create /\ work = [at |-> "none"]
    /\ lost = FALSE

Next ==
    \/ Encode \/ Finish \/ Fill \/ Decode
    \/ Start \/ Open \/ Refuse \/ Named
    \/ Preprocess \/ LPC \/ Short_Term_Analysis \/ CodeSub \/ WriteFrame
    \/ ReadFrame \/ DecodeSub \/ Synthesis
    \/ ReadEnds \/ ReadFails \/ WriteFails \/ Flush \/ CloseFails \/ Close
    \/ Unlink \/ Signal \/ Killed

Spec == Init /\ [][Next]_vars

---------------------------------------------------------------------------
(* Properties *)

(* The samples in the buffers, one after another.                          *)
Samples == FlattenSeq(out)

(* However the bytes of an ADPCM flow are cut into pieces and the pieces   *)
(* into buffers, what rplayd plays is the signal that the encoder          *)
(* reconstructed, sample by sample (sound.c, adpcm_unpack keeping the bits *)
(* left over), followed at the end by at most the padding of the last      *)
(* byte, and it fits the buffers.                                          *)
Faithful ==
    job.kind = "adpcm" /\ job.reader = "rplayd" =>
        /\ \A b \in DOMAIN out : 2 * Len(out[b]) <= BUFFER_SIZE
        /\ \A i \in DOMAIN Samples :
              LET n == dec.n - Len(Samples) + i
              IN  IF n <= Len(coded)
                  THEN Samples[i].sample = Short(4 * coded[n].sr)
                  ELSE enc.n = Len(job.wave) /\ Samples[i].code = 0
        /\ enc.bits = 0 /\ pipe = <<>> => dec.n >= enc.n

(* g72x.c: the output of g72xdecode, coded again by an encoder that is in  *)
(* the same state, gives the codes it was made from (`tandem' coding), so  *)
(* that a sound may be decoded and coded any number of times.  The zeros   *)
(* of the padding are apart: no encoder sends the code 0.                  *)
Tandem ==
    job.kind = "adpcm" /\ job.reader = "g72xdecode"
        /\ job.coding # "LINEAR" =>
        \A i \in DOMAIN Samples :
            LET s == Samples[i]
            IN  dec.n - Len(Samples) + i <= Len(coded) =>
                    CodeOf(job.k, s.sample, job.coding, s.st) = s.code

(* gsm: after each frame the decoder's history and coefficients are those  *)
(* the coder had after coding it, whatever lags and gains the coder found; *)
(* otherwise the errors would add up from frame to frame.                  *)
InStep ==
    Coding("next") /\ decoding /\ work.n > 0 =>
        /\ S.dp = file.frames[work.n].dp
        /\ S.LARpp = file.frames[work.n].LARpp

(* toast.c: unless -f overwrote it, and unless a failed read was taken for *)
(* the end, the whole sound is in one of the two files at any time, after  *)
(* any failure, signal or crash.                                           *)
NeverLost ==
    job.kind = "gsm" /\ ~job.f_force /\ ~lost =>
        \/ plain.there /\ plain.n = Len(Frames)
        \/ file.there /\ Len(file.frames) = Len(Frames)

=============================================================================
