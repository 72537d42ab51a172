------------------------------- MODULE MCSdp -------------------------------
(* Instance of Sdp for TLC: tables made of a service, blocks of attributes *)
(* that follow it, and a second service; the MTU is the code's.            *)
EXTENDS Sdp

Attr(kind, wide, len, read, write, lock) ==
    [kind |-> kind, wide |-> wide, len |-> len, read |-> read,
     write |-> write, auth |-> lock]

Serv(wide) == <<Attr("serv", wide, 2, TRUE, FALSE, FALSE)>>
Decl == Attr("decl", FALSE, 2, TRUE, FALSE, FALSE)
Char(wide, len, read, write, lock) ==
    <<Decl, Attr("value", wide, len, read, write, lock)>>
Desc(wide, lock) == <<Attr("desc", wide, 2, TRUE, TRUE, lock)>>

(* Short, of one full response, of several, locked, too long to write, not *)
(* readable, longer than the counter (of 2^6 here).                        *)
Chars == { Char(FALSE, 3, TRUE, TRUE, FALSE), Char(FALSE, 22, TRUE, FALSE, FALSE),
           Char(TRUE, 50, TRUE, FALSE, TRUE), Char(FALSE, 23, TRUE, TRUE, FALSE),
           Char(TRUE, 4, FALSE, TRUE, FALSE), Char(FALSE, 70, TRUE, FALSE, FALSE) }
Blocks == Chars \cup {Desc(FALSE, FALSE), Desc(FALSE, TRUE)}

(* Attributes of the first service, and of all after it.                   *)
Bodies == {<<>>} \cup Blocks \cup {a \o b : a, b \in Blocks}
MCTables ==
    {<<>>, Serv(FALSE) \o Serv(FALSE) \o Serv(FALSE) \o Serv(TRUE),
     Serv(TRUE) \o Serv(TRUE), Serv(FALSE) \o Desc(TRUE, FALSE),
     Serv(FALSE) \o Char(FALSE, 100, TRUE, FALSE, FALSE),
     Serv(FALSE) \o FlattenSeq([i \in 1..6 |-> Desc(FALSE, FALSE)])}
    \cup {Serv(w) \o a : w \in BOOLEAN, a \in Bodies}
    \cup {Serv(FALSE) \o a \o Serv(w) : w \in BOOLEAN, a \in Bodies}

=============================================================================
