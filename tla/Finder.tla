------------------------------- MODULE Finder -------------------------------
(***************************************************************************)
(* What the spool relies on when it plays a sound by name, whatever server *)
(* the sound comes from: the sound table as module Spool uses it.  A sound *)
(* is not known, on its way or there.  An entry that waits for a sound is  *)
(* played when the sound arrives and removed when the sound is given up;   *)
(* an entry never waits for a sound that nobody brings.                    *)
(***************************************************************************)
CONSTANT Sounds

VARIABLES
    st,      \* none, pending, READY
    entry,   \* the spool entry of a sound: no, wait, play
    hung     \* sounds whose arrival depends on a client, or no daemon

fvars == <<st, entry>>

Goes(s, from, to, ent) ==
    st[s] = from /\ st'[s] = to /\ entry'[s] = ent

Ask(s) == entry[s] = "no" /\ Goes(s, "none", "pending", "wait")
Offer(s) == entry[s] = "no" /\ Goes(s, "none", "pending", "no")
Load(s) == entry[s] = "no" /\ Goes(s, "none", "READY", "no")
Join(s) == /\ entry[s] = "no"
           /\ \/ Goes(s, "pending", "pending", "wait")
              \/ Goes(s, "READY", "READY", "play")
Leave(s) == st'[s] = st[s] /\ entry[s] # "no" /\ entry'[s] = "no"
Arrive(s) == Goes(s, "pending", "READY", IF entry[s] = "wait" THEN "play" ELSE "no")
Lose(s) == st[s] # "none" /\ st'[s] = "none" /\ entry'[s] = "no"
Stay(s) == st'[s] = st[s] /\ entry'[s] = entry[s]

Init == st = [s \in Sounds |-> "none"] /\ entry = [s \in Sounds |-> "no"]

Next ==
    \A s \in Sounds : \/ Ask(s) \/ Offer(s) \/ Load(s) \/ Join(s) \/ Leave(s)
                      \/ Arrive(s) \/ Lose(s) \/ Stay(s)

Spec == Init /\ [][Next]_fvars

(* A sound that is on its way, and that no client holds up, arrives or is  *)
(* given up.                                                               *)
Ends ==
    \A s \in Sounds : st[s] = "pending" /\ s \notin hung
                     ~> st[s] # "pending" \/ s \in hung

FairSpec == Spec /\ Ends
=============================================================================
