---------------------------- MODULE MCDhcpPacket ----------------------------
(***************************************************************************)
(* The real layout of the headers, and frames for model checking: every    *)
(* length on both sides of each comparison it takes part in, alone or      *)
(* together with the others.                                               *)
(***************************************************************************)
EXTENDS DhcpPacket

MCOffset == [type |-> 12, proto |-> 9, frag |-> 6, port |-> 2, op |-> 0, magic |-> 236]
MCWidth == [type |-> 2, proto |-> 1, frag |-> 2, port |-> 2, op |-> 1, magic |-> 4]

Plain(len, ihl, tot, ulen) ==
    [len |-> len, ihl |-> ihl, tot |-> tot, ulen |-> ulen,
     sum |-> "right", flaws |-> {}, stray |-> FALSE, origin |-> "other"]

Good == Plain(268, 20, 268, 248)

\* With a header of 20 bytes the shortest message is 268 bytes long, with one of 24
\* it is 272; 16 is less than a header has.
Lengths == {Plain(len, ihl, tot, ulen) :
              len \in {267, 268, 269, 272}, ihl \in {16, 20, 24},
              tot \in {27, 28, 31, 32, 268, 269}, ulen \in {7, 8, 244, 248, 249}}

\* One field wrong, or no checksum, and bytes elsewhere that look right or do not.
Wrong == {[Good EXCEPT !.flaws = {x}, !.stray = b] : x \in Flaws, b \in BOOLEAN}
            \cup {[Good EXCEPT !.sum = s] : s \in {"none", "wrong"}}

\* More than a buffer holds, so that the capture is cut off.
Large == Plain(BufLen, 20, BufLen - HdrLen - 1, 248)

MCFrames == Lengths \cup Wrong \cup {Large}
=============================================================================
