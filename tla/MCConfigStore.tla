---------------------------- MODULE MCConfigStore ----------------------------
(***************************************************************************)
(* Bounds for checking ConfigStore: of the two files one starts empty,     *)
(* since what becomes of a file depends on the request and on that file    *)
(* only, and at most MaxOdd texts of the requests have outer white space   *)
(* or a line break.                                                        *)
(***************************************************************************)
EXTENDS ConfigStore, TLC

CONSTANT MaxOdd

VARIABLE odd   \* how many of them there were

Odd(r) == Cardinality({text \in {"user", "password", "break"} :
                          \/ text = "user" /\ r.user.padded
                          \/ text = "password" /\ Given(r) /\ r.mqtt.padded
                          \/ text = "break" /\ r.break # NoBreak})

(* The requests that have no more than n of them.                          *)
Requests == [n \in 0 .. MaxOdd |-> {r \in SaveRequest : Odd(r) <= n}]

MCInit == StoreInit /\ (chimeLines = <<>> \/ wpaLines = <<>>) /\ odd = 0

MCNext ==
  \/ /\ saving = None
     /\ \E r \in Requests[MaxOdd - odd] : SaveWpaSupplicant(r) /\ odd' = odd + Odd(r)
  \/ (SaveChimeConfig \/ SaveStops) /\ UNCHANGED odd

MCSpec == MCInit /\ [][MCNext]_<<storeVars, odd>>

Symmetry == Permutations(Users) \cup Permutations(Ssids)

=============================================================================
