----------------------------- MODULE MCSocketIO -----------------------------
(* SocketIO with a short buffer: commands that fit exactly, that do not fit, *)
(* that are empty and that are not "XBH" commands.                           *)
EXTENDS SocketIO

MCMessages ==
    {[len |-> 0, xbh |-> FALSE], [len |-> 3, xbh |-> TRUE], [len |-> 3, xbh |-> FALSE],
     [len |-> 5, xbh |-> TRUE], [len |-> 6, xbh |-> TRUE], [len |-> 4099, xbh |-> TRUE]}
=============================================================================
