------------------------------ MODULE MCSpool ------------------------------
(***************************************************************************)
(* Constants of the TLC runs of Spool.                                     *)
(***************************************************************************)
EXTENDS Spool, TLC

CONSTANTS c1, c2, c3

CellSymmetry == Permutations({c1, c2, c3} \cap Cells)

File(len, where, cached, sized) ==
    [type |-> "FILE", len |-> len, where |-> where, cached |-> cached,
     sized |-> sized]

(* a: read from disk, of known length; b: in the memory cache, its header  *)
(* does not tell the length; r: on another server; x: nowhere; f, g: flows *)
MCInfo ==
    [s \in Sounds |->
        CASE s = "a" -> File(2, "local", FALSE, TRUE)
          [] s = "b" -> File(1, "local", TRUE, FALSE)
          [] s = "r" -> File(1, "remote", FALSE, TRUE)
          [] s = "x" -> File(1, "nowhere", FALSE, TRUE)
          [] OTHER  -> [File(0, "nowhere", FALSE, FALSE) EXCEPT !.type = "FLOW"]]

Request(snd, count, list_count, priority, name) ==
    [snd |-> snd, count |-> count, list_count |-> list_count,
     priority |-> priority, name |-> name]

ById(ids) == {[by |-> "id", id |-> i] : i \in ids}
ByList(lists) == {[by |-> "list", snd |-> l] : l \in lists}

(* Two clients: a list of two sounds, and a sound of higher priority that  *)
(* replaces it when the spool is full.                                     *)
PairRequests ==
    {Request(<<"a", "b">>, <<1, 1>>, 1, 0, NoName),
     Request(<<"b">>, <<1>>, 1, 1, NoName)}

(* One entry, with repeated sounds and lists, the commands that change     *)
(* them, and every skip that stays within one sound of the list.           *)
ListRequests ==
    {Request(<<"a", "b">>, <<2, 1>>, 2, 0, NoName),
     Request(<<"b">>, <<1>>, 0, 1, NoName)}
ListTargets == ById({0}) \cup ByList({<<"b">>})
ListSkips == {-1, 0, 1, 2}
ListChanges == {<<"count", 1>>, <<"list_count", 0>>, <<"priority", 2>>}

(* Everything that may go wrong: a list that others join, with sounds that *)
(* have to be fetched or do not exist, skips out of the list, late data.   *)
FaultRequests ==
    {Request(<<"b">>, <<1>>, 1, 0, "L"),
     Request(<<"r">>, <<1>>, 1, 0, "L"),
     Request(<<"x">>, <<1>>, 1, 0, "L"),
     Request(<<"b", "x">>, <<1, 1>>, 1, 1, NoName),
     Request(<<"f">>, <<1>>, 1, 0, NoName)}
FaultTargets == ById({0})
FaultSkips == {-1, 3}

(* A single list, and a skip that overshoots its end.                      *)
OnceRequests == {Request(<<"a", "b">>, <<1, 1>>, 1, 0, NoName)}
OneTarget == ById({0})
FarSkips == {3}

=============================================================================
