-------------------------- MODULE OrderedTransfer --------------------------
(***************************************************************************)
(* What a transfer of one stream promises to a reader of the target        *)
(* directory, whatever happens to messages, lines and processes: entries   *)
(* appear one after the other, each only when those before it are whole,   *)
(* chunk files appear whole, nothing shrinks, and the sender reports the   *)
(* end only when everything is there.                                      *)
(***************************************************************************)
EXTENDS Integers

CONSTANTS NFiles,
          Size,     \* Size[k]: length of entry k
          AtOnce    \* the entries that appear whole

VARIABLES target,   \* target[k]: visible length of entry k, or Absent
          finished  \* has the sender reported the end?

Files  == 1..NFiles
Absent == -1

Whole(k) == target[k] = Size[k]

Init ==
  /\ target \in [Files -> {Absent} \cup Nat]
  /\ \A k \in Files : target[k] <= Size[k]
  /\ finished = FALSE

Appear(k) ==
  /\ target[k] = Absent
  /\ \A j \in 1..(k - 1) : Whole(j)
  /\ target' = [target EXCEPT ![k] = IF k \in AtOnce THEN Size[k] ELSE 0]
  /\ UNCHANGED finished

Extend(k) ==
  /\ k \notin AtOnce
  /\ target[k] # Absent
  /\ \E n \in (target[k] + 1)..Size[k] : target' = [target EXCEPT ![k] = n]
  /\ UNCHANGED finished

Finish ==
  /\ \A k \in Files : Whole(k)
  /\ finished' = TRUE
  /\ UNCHANGED target

Next == (\E k \in Files : Appear(k) \/ Extend(k)) \/ Finish

Spec == Init /\ [][Next]_<<target, finished>>
=============================================================================
