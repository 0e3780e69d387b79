-------------------------- MODULE MCConfiguration --------------------------
(***************************************************************************)
(* Configuration for TLC: the blocks a client sends when it restores an    *)
(* image whole, in part, out of order or damaged.                          *)
(***************************************************************************)
EXTENDS Configuration

\* Two objects and a last block padded with a NUL octet: sent whole, an image that is
\* rejected at its third line after both objects were read; cut off within the second
\* number, one that is accepted and has another value there.
MCImages ==
    { <<Header, Av(1), Digit(0), Newline, Av(2), Digit(0), Digit(9), Digit(5), Newline, ZeroOctet>> }

\* An image of two objects without its last newline.
MCCutImages == { <<Header, Av(1), Digit(5), Newline, Av(2), Digit(5)>> }

\* Appended, or sent to the start of the file.
MCOffsets == {-1, 0}

\* The same, and a negative start that is not the one of an append.
MCAnyOffsets == MCOffsets \cup {-2}
=============================================================================
