-------------------------- MODULE MCAccountReload --------------------------
(***************************************************************************)
(* Finite instances of AccountReload: the label work with its clients w1   *)
(* on session s1, w2 and w4 on s2 and w3 on s3, the label home with h1 on  *)
(* s1 and h2 on s2, and the tool calls k1 and k2.  A cfg picks the        *)
(* clients, and with them the rebuilds that edits of the file can ask for. *)
(***************************************************************************)
EXTENDS AccountReload, TLC

CONSTANTS k1, k2, w1, w2, w3, w4, h1, h2, s1, s2, s3, work, home

MCLabelOf   == [c \in Client |-> IF c \in {w1, w2, w3, w4} THEN work ELSE home]
MCSessionOf == [c \in Client |-> CASE c \in {w1, h1} -> s1
                                   [] c = w3 -> s3
                                   [] OTHER -> s2]

(* The calls are interchangeable.                                          *)
AnyCall == Permutations(Call)
============================================================================
