---------------------------- MODULE BoardLending ----------------------------
(***************************************************************************)
(* What the gateway promises of the boards it lends to jobs: a job gets    *)
(* both of its boards at once and gives both back at once, only the        *)
(* borrower loads firmware on a board, and a board that nobody borrows     *)
(* runs its own firmware, or somebody has been told that it does not.      *)
(***************************************************************************)
CONSTANTS Boards, Jobs, Nobody

VARIABLES
  borrower,  \* the job a board is lent to, or Nobody
  atHome,    \* boards that run their own firmware
  told       \* boards whose owner has been told that they do not

vars == <<borrower, atHome, told>>

Free(b) == borrower[b] = Nobody

Init == /\ borrower = [b \in Boards |-> Nobody]
        /\ atHome = Boards
        /\ told = {}

Lend(j, pair) ==
  /\ \A b \in Boards : borrower[b] # j
  /\ \A b \in pair : Free(b)
  /\ borrower' = [b \in Boards |-> IF b \in pair THEN j ELSE borrower[b]]
  /\ UNCHANGED <<atHome, told>>

(* A load may succeed, fail half way, or succeed and be taken for failed;  *)
(* only its own firmware makes what was said of the board obsolete.        *)
Load(b) ==
  /\ ~Free(b)
  /\ \/ atHome' = atHome \ {b} /\ told' \in {told, told \cup {b}}
     \/ atHome' = atHome \cup {b} /\ told' \in {told, told \cup {b}, told \ {b}}
  /\ UNCHANGED borrower

Tell(b) ==
  /\ ~Free(b)
  /\ told' = told \cup {b}
  /\ UNCHANGED <<borrower, atHome>>

Return(j) ==
  /\ \E b \in Boards : borrower[b] = j
  /\ \A b \in Boards : borrower[b] = j => b \in atHome \cup told
  /\ borrower' = [b \in Boards |-> IF borrower[b] = j THEN Nobody ELSE borrower[b]]
  /\ UNCHANGED <<atHome, told>>

(* The lender itself breaks down and is set up again.                      *)
BreakDown ==
  /\ borrower' = [b \in Boards |-> Nobody]
  /\ told' = told \cup (Boards \ atHome)
  /\ UNCHANGED atHome

Next == \/ \E j \in Jobs : Return(j) \/ \E s, t \in Boards : Lend(j, {s, t})
        \/ \E b \in Boards : Load(b) \/ Tell(b)
        \/ BreakDown

Spec == Init /\ [][Next]_vars
=============================================================================
