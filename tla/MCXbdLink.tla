------------------------------ MODULE MCXbdLink ------------------------------
(* XbdLink with images and results of one to three packets, and a result     *)
(* that does not fit into a reply.                                           *)
EXTENDS XbdLink

Request(cmd, arg) == [cmd |-> cmd, arg |-> arg]

MCRequests ==
    {Request(c, <<>>) : c \in {"exr", "sur", "urr", "sar", "sbr", "str", "srr"}}
    \cup {Request("cdr", <<"p", "q">>), Request("cdr", <<"r">>), Request("dpr", <<"s">>)}
    \cup {Request("rcr", v) : v \in {"y", "n", "x"}}
    \cup {Request("scr", v) : v \in {"I", "U"}}
    \cup {Request("lor", 255)}

MCUploads == {Request("exr", <<>>), Request("urr", <<>>)}

MCUnknown == {Request("exr", <<>>), Request("lor", 255), Request("lor", 256)}

MCResults == {<<>>, <<"a", "b">>, <<"c">>, <<"d", "e", "f">>}
=============================================================================
