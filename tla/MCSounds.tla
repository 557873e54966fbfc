------------------------------ MODULE MCSounds ------------------------------
(* A file and two paths in the cache directory, all three with one key.    *)
EXTENDS Sounds

MCKey == [A |-> "k", C |-> "k", D |-> "k"]
MCBase == [A |-> "k.au", C |-> "k.gsm", D |-> "k.raw"]
MCSize == [A |-> 60, C |-> 40, D |-> 30]
Au == [magic |-> "snd", hdr |-> 28, enc |-> "ULAW_MULAW_8", rate |-> 8000, chan |-> 1, data |-> -1]
Pcm == [magic |-> "wave", hdr |-> 44, rate |-> 8000, bits |-> 16, chan |-> 1, data |-> 6]
MCContents ==
    [A |-> {[Au EXCEPT !.enc = "ULAW_G721", !.data = 100], Pcm},
     C |-> {[magic |-> "gsm"], [Pcm EXCEPT !.bits = 12]},
     D |-> {[Pcm EXCEPT !.magic = "aiff", !.bits = 12]}]
MCNames == {[kind |-> "key", of |-> "k"],
            [kind |-> "file", of |-> "k.raw"]}
MCPar == [offset |-> 0, format |-> "LINEAR_16", byte_order |-> "big", sample_rate |-> 44100,
          input_precision |-> 1600, output_precision |-> 1600, channels |-> 2]
MCFlowPars == {NoPar}
MCSymmetry == Permutations(Entries)
=============================================================================
