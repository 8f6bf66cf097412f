----------------------------- MODULE XbhService -----------------------------
(* What the XBH promises its PCs, whatever its tasks do: one command is      *)
(* worked on at a time, each PC gets the answers to its own commands in the  *)
(* order it sent them, and a command that was taken is given up only when    *)
(* the PC that sent it is gone.                                              *)
EXTENDS Naturals, Sequences

CONSTANTS Conns, None

VARIABLES
    asked,      \* connection -> commands the PC has sent
    taken,      \* connection -> commands taken from it
    answered,   \* connection -> the answers the PC has received
    gone,       \* connections whose PC is no longer there
    busy        \* the command being worked on, or None

vars == <<asked, taken, answered, gone, busy>>

Init ==
    /\ asked = [c \in Conns |-> 0]
    /\ taken = [c \in Conns |-> 0]
    /\ answered = [c \in Conns |-> <<>>]
    /\ gone = {}
    /\ busy = None

Ask(c) ==
    /\ c \notin gone
    /\ asked' = [asked EXCEPT ![c] = @ + 1]
    /\ UNCHANGED <<taken, answered, gone, busy>>

Leave(c) ==
    /\ gone' = gone \cup {c}
    /\ UNCHANGED <<asked, taken, answered, busy>>

Take(c) ==
    /\ busy = None
    /\ taken[c] < asked[c]
    /\ taken' = [taken EXCEPT ![c] = @ + 1]
    /\ busy' = <<c, taken[c] + 1>>
    /\ UNCHANGED <<asked, answered, gone>>

(* The answer's length and body are both those of the command worked on.     *)
Answer ==
    /\ busy # None
    /\ busy[1] \notin gone
    /\ Len(answered[busy[1]]) = busy[2] - 1
    /\ answered' = [answered EXCEPT ![busy[1]] = Append(@, <<busy, busy>>)]
    /\ busy' = None
    /\ UNCHANGED <<asked, taken, gone>>

(* Work is dropped because its PC is gone; a board reset takes others along. *)
GiveUp ==
    /\ busy # None
    /\ busy[1] \in gone
    /\ gone' \in SUBSET Conns
    /\ gone \subseteq gone'
    /\ busy' = None
    /\ UNCHANGED <<asked, taken, answered>>

Next ==
    \/ \E c \in Conns : Ask(c) \/ Leave(c) \/ Take(c)
    \/ Answer
    \/ GiveUp

Spec == Init /\ [][Next]_vars
=============================================================================
